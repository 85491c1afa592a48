---------------------------- MODULE TrajectoryProofs ----------------------------
(* Why a viewer of the file tracker's spans loses nothing, for any files and    *)
(* however the agent writes them; and why the sessions that share one link to a *)
(* simulation process read their own replies and never lose a slot, for any     *)
(* sessions and any number of slots.  Then the recorder of a wrapped robot env, *)
(* the scores of a served one, and the loop of a tool agent.                    *)
EXTENDS MCTrajectory, FiniteSetTheorems, SequenceTheorems, WellFoundedInduction, TLAPS

\* A wire with one message on it.
Single(s) == s # <<>> /\ s = <<Head(s)>>

\* Its message taken, nothing is left.
LEMMA SingleTaken ==
  ASSUME NEW s, Single(s)
  PROVE  s # <<>> /\ Tail(s) = <<>>
<1>1. ASSUME NEW x, s = <<x>>
      PROVE  Tail(s) = <<>>
  BY <1>1
<1> QED
  BY <1>1, Zenon DEF Single

\* It stands first.
LEMMA SingleFirst ==
  ASSUME NEW s, Single(s)
  PROVE  1 \in 1..Len(s) /\ s[1] = Head(s)
<1>1. ASSUME NEW x, s = <<x>>
      PROVE  1 \in 1..Len(s) /\ s[1] = x
  BY <1>1
<1> QED
  BY <1>1, Zenon DEF Single

\* A message is put on an empty wire.
LEMMA SinglePut ==
  ASSUME NEW x
  PROVE  Single(Append(<<>>, x)) /\ Head(Append(<<>>, x)) = x
BY DEF Single

(***************************************************************************)
(* The file tracker and its observer.                                       *)
(***************************************************************************)
Resting == {"connect", "anchoring", "polling", "drained", "done", "off"}

\* What an observer that waits for an answer has asked for.
AskedFor(where) ==
  CASE where = "setup" -> {"setup", "advance"}
    [] where = "anchor" -> {"snapshot"}
    [] where \in {"asking", "draining"} -> {"diff"}
    [] where = "flushing" -> {"flush"}
    [] OTHER -> {}

Waiting == {"setup", "anchor", "asking", "draining", "flushing"}

Whole == disk \in [Files -> Nat] /\ previous \in [Files -> Nat] /\ slipped \in BOOLEAN

\* One request, or its answer, is on the wire while the observer waits, and
\* nothing while it does not.
OneCall ==
  /\ observer \in Resting \cup Waiting
  /\ observer \in Resting => queue = <<>> /\ answers = <<>>
  /\ observer \in Waiting =>
       \/ Single(queue) /\ Head(queue) \in AskedFor(observer) /\ answers = <<>>
       \/ queue = <<>> /\ Single(answers) /\ Head(answers).to \in AskedFor(observer)

\* What a viewer has once the answer a is emitted.
Brings(a) ==
  IF a.to = "flush" /\ ~a.ok
    THEN shown = previous
    ELSE \A f \in Files : previous[f] = IF f \in DOMAIN a.patches THEN a.patches[f] ELSE shown[f]

Shows ==
  /\ observer \in {"polling", "drained", "done"} => shown = previous
  /\ observer = "anchor" /\ answers # <<>> /\ Head(answers).ok => Head(answers).files = previous
  /\ observer \in {"asking", "draining", "flushing"} =>
       IF answers = <<>> THEN shown = previous ELSE Brings(Head(answers))

TrackInv == Whole /\ (~slipped => OneCall /\ Shows)

\* The tracker keeps what it remembers a snapshot of every file, and what it
\* answers is what takes the viewer there.
LEMMA ScansStep ==
  ASSUME TrackInv, Scans
  PROVE  TrackInv'
<1> USE DEF TrackInv
<1>1. Whole'
  <2>1. CASE Setup \/ Manifest \/ ServerError
    BY <2>1 DEF Scans, observerVars, Whole, Setup, Manifest, ServerError
  <2>2. CASE DiffCurrent
    BY <2>2 DEF Scans, observerVars, Whole, DiffCurrent, Reverted
  <2> QED
    BY <2>1, <2>2 DEF Scans
<1>2. ASSUME ~slipped
      PROVE  OneCall' /\ Shows'
  <2>1. /\ OneCall /\ Shows /\ observer \in Waiting /\ Single(queue)
        /\ Head(queue) \in AskedFor(observer) /\ answers = <<>>
        /\ queue' = Tail(queue) /\ observer' = observer /\ shown' = shown
    BY <1>2 DEF OneCall, Scans, observerVars
  <2>2. queue' = <<>>
    BY <2>1, SingleTaken
  <2>3. ASSUME NEW msg, answers' = Append(answers, msg), msg.to = Head(queue)
        PROVE  OneCall' /\ answers' # <<>> /\ Head(answers') = msg
    BY <2>1, <2>2, <2>3, SinglePut DEF OneCall, Single, Resting, Waiting, AskedFor
  <2>4. CASE Setup
    BY <2>1, <2>3, <2>4 DEF Setup, Reply, Shows, Waiting, AskedFor
  <2>5. CASE Manifest
    BY <2>1, <2>3, <2>5 DEF Manifest, Reply, Shows, Waiting, AskedFor
  <2>6. CASE DiffCurrent
    <3>1. PICK skipped \in SUBSET Changed(previous, disk) :
            /\ previous' = Reverted(previous, disk, skipped)
            /\ Reply(Head(queue), Patches(previous, disk, skipped), disk,
                     IF Head(queue) = "flush" THEN Artifacts ELSE {}, TRUE)
      BY <2>6 DEF DiffCurrent
    <3>2. /\ OneCall' /\ answers' # <<>>
          /\ Head(answers').to = Head(queue) /\ Head(answers').ok
          /\ Head(answers').patches = Patches(previous, disk, skipped)
      BY <2>3, <3>1 DEF Reply
    <3>3. observer \in {"asking", "draining", "flushing"} /\ shown = previous
      BY <2>1, <2>6 DEF DiffCurrent, AskedFor, Shows, Waiting
    <3>4. ASSUME NEW f \in Files
          PROVE  previous'[f] = IF f \in DOMAIN Patches(previous, disk, skipped)
                                  THEN Patches(previous, disk, skipped)[f] ELSE shown[f]
      BY <3>1, <3>3 DEF Reverted, Patches, Changed
    <3>5. Brings(Head(answers))'
      BY <2>1, <3>2, <3>4 DEF Brings
    <3> QED
      BY <2>1, <3>2, <3>3, <3>5 DEF Shows
  <2>7. CASE ServerError
    BY <2>1, <2>3, <2>7 DEF ServerError, Reply, NoPatch, Shows, Brings, Waiting, AskedFor
  <2> QED
    BY <2>4, <2>5, <2>6, <2>7 DEF Scans
<1> QED
  BY <1>1, <1>2 DEF Whole, Scans, observerVars

\* The observer takes the answer to what it asked.
LEMMA TrackStep ==
  ASSUME TrackInv, [NextTracking]_trackVars
  PROVE  TrackInv'
<1> USE DEF TrackInv, Whole
<1>1. CASE UNCHANGED trackVars
  BY <1>1 DEF trackVars, OneCall, Shows, Brings, AskedFor
<1>2. ASSUME NEW f \in Files, Write(f)
      PROVE  TrackInv'
  BY <1>2, TrackingAssumption DEF Write, observerVars, OneCall, Shows, Brings, AskedFor
<1>3. CASE Scans
  BY <1>3, ScansStep
<1> USE SingleTaken, SinglePut DEF OneCall, Shows, Resting, Waiting, AskedFor, Post, TakeLine
<1>4. CASE Connect \/ AskAnchor
  BY <1>4 DEF Connect, AskAnchor, Brings
<1>5. CASE Anchor
  BY <1>5 DEF Anchor, Brings
<1>6. CASE Poll \/ Halt
  BY <1>6 DEF Poll, Halt, Brings
<1>7. CASE Diffed
  BY <1>7 DEF Diffed, Emit, Brings
<1>8. CASE DrainTimeout \/ FlushTimeout
  BY <1>8 DEF DrainTimeout, FlushTimeout
<1>9. CASE Flush
  BY <1>9 DEF Flush, Brings
<1>10. CASE Flushed
  BY <1>10 DEF Flushed, Emit, Brings
<1> QED
  BY <1>1, <1>2, <1>3, <1>4, <1>5, <1>6, <1>7, <1>8, <1>9, <1>10 DEF NextTracking, ObserverStep

\* file_tracking_observer: no change is lost or shown twice while no call was
\* abandoned, however many files, versions and polls there are.
THEOREM ShownIsPreviousAlways ==
  InitTracking /\ [][NextTracking]_trackVars => []ShownIsPrevious
<1>1. InitTracking => TrackInv
  <2> SUFFICES ASSUME InitTracking
               PROVE  TrackInv
    OBVIOUS
  <2>1. Whole
    BY DEF InitTracking, Whole
  <2>2. OneCall /\ Shows
    BY DEF InitTracking, OneCall, Shows, Resting, Waiting
  <2> QED
    BY <2>1, <2>2 DEF TrackInv
<1>2. TrackInv /\ [NextTracking]_trackVars => TrackInv'
  BY TrackStep
<1>3. TrackInv => ShownIsPrevious
  BY DEF TrackInv, Shows, ShownIsPrevious
<1> QED
  BY <1>1, <1>2, <1>3, PTL

(***************************************************************************)
(* The endpoint.  A session is in order as long as none of its calls was cut *)
(* or read a reply of another; those that are not may hold any token that    *)
(* went astray, but none of a session that is in order.                      *)
(***************************************************************************)
Engaged == {"reset", "result", "release"}
RequestSet == [by : Session, method : {"reset", "result"}, token : Token \cup {None, Freed}]
ReplySet == [by : Session, kind : {"ok", "full", "error"}, token : Token \cup {None}]

Sorts ==
  /\ at \in [Session -> {"new", "episode", "teardown", "ended"} \cup Engaged]
  /\ stage \in [Session -> {"none", "wait", "sent", "sleep"}]
  /\ line \in Seq(Session) /\ open \subseteq Token /\ astray \subseteq Session
  /\ claims \in [Session -> Token \cup {None, Freed}]
  /\ given \in [Session -> Nat] /\ cuts \in Nat
  /\ wire \in Seq(RequestSet) /\ replies \in Seq(ReplySet)

\* Whoever waits for the lock stands in the line, whoever has sent heads it.
Lined ==
  \A s \in Session :
    /\ stage[s] # "none" => at[s] \in Engaged
    /\ stage[s] = "sleep" => at[s] # "result"
    /\ stage[s] \in {"wait", "sent"} => \E k \in DOMAIN line : line[k] = s
    /\ stage[s] = "sent" => line[1] = s

\* A session that plays has a token, its own unless it is astray, and the last of
\* them is gone before stop() begins.
Claimed ==
  \A s \in Session :
    /\ at[s] \in {"new", "reset"} => claims[s] = None
    /\ at[s] \in {"episode", "result", "release"} => claims[s] \in Token
    /\ claims[s] \in Token => claims[s][1] = s \/ {s, claims[s][1]} \subseteq astray
    /\ stopping # "no" => at[s] \in {"new", "ended", "release"}

\* What is on the link: a frame for each call that was cut, and one, the last, for
\* the caller that has sent.
Lag ==
  /\ \A s \in Session : stage[s] = "sent" =>
       /\ Len(replies) + Len(wire) = cuts + 1
       /\ IF wire # <<>> THEN wire[Len(wire)].by = s ELSE replies[Len(replies)].by = s
  /\ (\A s \in Session : stage[s] # "sent") => Len(replies) + Len(wire) = cuts
  /\ cuts = 0 => astray = {}

\* The request of a session that is in order is the last frame, and names its claim.
Requested ==
  \A i \in 1..Len(wire) : LET q == wire[i] IN
    /\ q.token \in Token => q.token[1] = q.by \/ q.token[1] \in astray
    /\ q.by \notin astray =>
         /\ i = Len(wire) /\ stage[q.by] = "sent" /\ q.token = claims[q.by]
         /\ (q.method = "reset") <=> (at[q.by] = "reset")

\* So is the reply to it: it brings a slot that is claimed, or its slot is free.
AnsweredOnly ==
  \A i \in 1..Len(replies) : LET a == replies[i] IN
    /\ a.token # None => a.kind = "ok" /\ a.token[1] = a.by
    /\ a.by \notin astray =>
         /\ i = Len(replies) /\ wire = <<>> /\ stage[a.by] = "sent"
         /\ a.token # None => at[a.by] = "reset" /\ a.token \in open
         /\ a.token = None /\ a.kind = "ok" => at[a.by] # "reset" /\ claims[a.by] \notin open

\* A claimed slot of a session in order: the session has its token, or the reply
\* that brings it is there to be read.
Tracked ==
  \A t \in open : t[1] \notin astray =>
    \/ claims[t[1]] = t
    \/ /\ at[t[1]] = "reset" /\ stage[t[1]] = "sent"
       /\ \E i \in 1..Len(replies) : replies[i].token = t

LinkInv == Sorts /\ Lined /\ Claimed /\ Lag /\ Requested /\ AnsweredOnly /\ Tracked /\ SlotKept

\* A token is none of the marks.
LEMMA TokensApart == \A t \in Token : t # None /\ t # Freed /\ t[1] \in Session /\ t[2] \in Nat
<1>1. ASSUME NEW t \in Token
      PROVE  Len(t) = 2 /\ t[1] \in Session /\ t[2] \in Nat
  BY DEF Token
<1>2. Len(None) = 0 /\ Len(Freed) = 1
  BY DEF None, Freed
<1> QED
  BY <1>1, <1>2

\* What is left of a sequence without its head, and with one more.
LEMMA TailOf ==
  ASSUME NEW S, NEW q \in Seq(S), q # <<>>
  PROVE  /\ Tail(q) \in Seq(S) /\ Len(q) \in Nat \ {0} /\ Len(Tail(q)) = Len(q) - 1
         /\ Head(q) = q[1] /\ q[1] \in S
         /\ \A i \in 1..Len(Tail(q)) : i + 1 \in 1..Len(q) /\ Tail(q)[i] = q[i + 1]
OBVIOUS

LEMMA AppendOf ==
  ASSUME NEW S, NEW q \in Seq(S), NEW x \in S
  PROVE  /\ Append(q, x) \in Seq(S) /\ Append(q, x) # <<>> /\ Len(Append(q, x)) = Len(q) + 1
         /\ Append(q, x)[Len(q) + 1] = x /\ Len(q) \in Nat
         /\ \A i \in 1..Len(q) : Append(q, x)[i] = q[i]
OBVIOUS

\* A session that leaves the line keeps the others in theirs.
LEMMA LeavesLine ==
  ASSUME Sorts, NEW s \in Session, NEW st, LeavesAs(s, st)
  PROVE  /\ line' \in Seq(Session) /\ stage' = [stage EXCEPT ![s] = st]
         /\ \A t \in Session \ {s} : (\E k \in DOMAIN line : line[k] = t) =>
              /\ \E k \in DOMAIN line' : line'[k] = t
              /\ line[1] = t => line'[1] = t
<1>0. line \in Seq(Session) /\ stage \in [Session -> {"none", "wait", "sent", "sleep"}]
  BY DEF Sorts
<1>1. CASE line' = line
  BY <1>0, <1>1 DEF LeavesAs
<1>2. ASSUME NEW k \in DOMAIN line, line[k] = s, line' = Without(k)
      PROVE  /\ line' \in Seq(Session)
             /\ \A t \in Session \ {s} : (\E j \in DOMAIN line : line[j] = t) =>
                  /\ \E j \in DOMAIN line' : line'[j] = t
                  /\ line[1] = t => line'[1] = t
  <2>1. /\ Len(line) \in Nat /\ DOMAIN line = 1..Len(line) /\ k \in 1..Len(line)
        /\ \A j \in 1..Len(line) : line[j] \in Session
    BY <1>0, <1>2
  <2>2. /\ Len(line) - 1 \in Nat
        /\ Without(k) \in [1..(Len(line) - 1) -> Session]
    BY <2>1 DEF Without
  <2>3. line' \in Seq(Session) /\ DOMAIN line' = 1..(Len(line) - 1)
    BY <1>2, <2>2
  <2>4. \A j \in 1..(Len(line) - 1) : line'[j] = IF j < k THEN line[j] ELSE line[j + 1]
    BY <1>2 DEF Without
  <2>5. ASSUME NEW t \in Session \ {s}, NEW j \in DOMAIN line, line[j] = t
        PROVE  \E i \in DOMAIN line' : line'[i] = t
    <3>1. CASE j < k
      BY <1>2, <2>1, <2>3, <2>4, <2>5, <3>1
    <3>2. CASE j > k
      <4>1. j - 1 \in 1..(Len(line) - 1) /\ ~(j - 1 < k) /\ (j - 1) + 1 = j
        BY <2>1, <2>5, <3>2
      <4> QED
        BY <2>3, <2>4, <2>5, <4>1
    <3> QED
      BY <1>2, <2>1, <2>5, <3>1, <3>2
  <2>6. ASSUME NEW t \in Session \ {s}, line[1] = t
        PROVE  line'[1] = t
    BY <1>2, <2>1, <2>4, <2>6
  <2> QED
    BY <2>3, <2>5, <2>6
<1> QED
  BY <1>0, <1>1, <1>2 DEF LeavesAs

\* The others stay lined up.
LEMMA LeavesLined ==
  ASSUME Sorts, Lined, NEW s \in Session, NEW st \in {"none", "sleep"}, LeavesAs(s, st),
         \A t \in Session \ {s} : at'[t] = at[t],
         st = "sleep" => at'[s] \in {"reset", "release"}
  PROVE  Lined' /\ line' \in Seq(Session) /\ stage' = [stage EXCEPT ![s] = st]
<1>1. /\ line' \in Seq(Session) /\ stage' = [stage EXCEPT ![s] = st]
      /\ \A t \in Session \ {s} : (\E k \in DOMAIN line : line[k] = t) =>
           /\ \E k \in DOMAIN line' : line'[k] = t
           /\ line[1] = t => line'[1] = t
  BY LeavesLine
<1>2. ASSUME NEW t \in Session
      PROVE  /\ stage'[t] # "none" => at'[t] \in Engaged
             /\ stage'[t] = "sleep" => at'[t] # "result"
             /\ stage'[t] \in {"wait", "sent"} => \E k \in DOMAIN line' : line'[k] = t
             /\ stage'[t] = "sent" => line'[1] = t
  BY <1>1, <1>2 DEF Lined, Sorts, Engaged
<1> QED
  BY <1>1, <1>2 DEF Lined

\* A session that joins the line stands behind the others.
LEMMA JoinsLine ==
  ASSUME Sorts, NEW s \in Session, Enqueue(s)
  PROVE  /\ line' \in Seq(Session) /\ stage' = [stage EXCEPT ![s] = "wait"]
         /\ \E k \in DOMAIN line' : line'[k] = s
         /\ \A t \in Session : (\E k \in DOMAIN line : line[k] = t) =>
              /\ \E k \in DOMAIN line' : line'[k] = t
              /\ line[1] = t => line'[1] = t
<1> USE DEF Sorts
<1>1. /\ line' = Append(line, s) /\ Len(line) \in Nat /\ DOMAIN line = 1..Len(line)
      /\ DOMAIN line' = 1..(Len(line) + 1) /\ line'[Len(line) + 1] = s
      /\ \A k \in 1..Len(line) : line'[k] = line[k]
  BY DEF Enqueue
<1> QED
  BY <1>1 DEF Enqueue

\* The bridge serves the first request, and its reply comes behind the others.
LEMMA ServeStep ==
  ASSUME LinkInv, Serve
  PROVE  LinkInv'
<1> DEFINE q == wire[1]
           n == Len(wire)
           m == Len(replies)
           Brought(a) ==
             /\ replies' = Append(replies, a) /\ a.by = q.by /\ given' \in [Session -> Nat]
             /\ \/ /\ q.method = "reset" /\ a.kind = "ok" /\ a.token \in Token /\ a.token[1] = q.by
                   /\ open' = open \cup {a.token}
                \/ a.token = None /\ a.kind # "ok" /\ open' = open
                \/ q.method # "reset" /\ a.token = None /\ a.kind = "ok" /\ open' = open \ {q.token}
<1>1. /\ n \in Nat \ {0} /\ wire' \in Seq(RequestSet) /\ Len(wire') = n - 1
      /\ q \in RequestSet /\ q = Head(wire)
      /\ \A i \in 1..(n - 1) : i + 1 \in 1..n /\ wire'[i] = wire[i + 1]
  BY TailOf DEF Serve, LinkInv, Sorts
<1>2. UNCHANGED <<at, stage, line, tries, claims, stopping, drained, cuts, astray>>
  BY DEF Serve, calls, past
<1>3. q.method = "reset" => BridgeReset(q.by)
  BY <1>1 DEF Serve
<1>4. q.method # "reset" => BridgeResult(q.by, q.token)
  BY <1>1 DEF Serve
<1>5. \E a \in ReplySet : Brought(a)
  <2> USE DEF LinkInv, Sorts
  <2>1. q.by \in Session /\ given[q.by] \in Nat /\ given \in [Session -> Nat]
    BY <1>1 DEF RequestSet
  <2>2. CASE Grant(q.by) /\ q.method = "reset"
    <3> DEFINE t == <<q.by, given[q.by] + 1>>
               b == [by |-> q.by, kind |-> "ok", token |-> t]
    <3>1. t \in Token /\ t[1] = q.by
      BY <2>1 DEF Token
    <3>2. b \in ReplySet /\ b.by = q.by /\ b.kind = "ok" /\ b.token = t
      BY <2>1, <3>1 DEF ReplySet
    <3>3. /\ replies' = Append(replies, b) /\ open' = open \cup {t}
          /\ given' = [given EXCEPT ![q.by] = @ + 1]
      BY <2>2 DEF Grant, Answer
    <3>4. given' \in [Session -> Nat]
      BY <2>1, <3>3
    <3> QED
      BY <2>2, <3>1, <3>2, <3>3, <3>4
  <2>3. ASSUME NEW kind \in {"full", "error"}, Answer(q.by, kind, None), UNCHANGED bridge
        PROVE  \E a \in ReplySet : Brought(a)
    <3> DEFINE b == [by |-> q.by, kind |-> kind, token |-> None]
    <3>1. b \in ReplySet /\ b.by = q.by /\ b.kind # "ok" /\ b.token = None /\ replies' = Append(replies, b)
      BY <2>1, <2>3 DEF ReplySet, Answer
    <3> QED
      BY <2>1, <2>3, <3>1 DEF bridge
  <2>4. CASE q.method # "reset" /\ open' = open \ Resolved(q.token) /\ Answer(q.by, "ok", None) /\ given' = given
    <3> DEFINE b == [by |-> q.by, kind |-> "ok", token |-> None]
    <3>1. b \in ReplySet /\ b.by = q.by /\ b.kind = "ok" /\ b.token = None /\ replies' = Append(replies, b)
      BY <2>1, <2>4 DEF ReplySet, Answer
    <3>2. open' = open \ {q.token}
      BY <2>4 DEF Resolved
    <3> QED
      BY <2>1, <2>4, <3>1, <3>2
  <2>5. CASE q.method = "reset"
    BY <1>3, <2>5, <2>2, <2>3 DEF BridgeReset
  <2>6. CASE q.method # "reset"
    BY <1>4, <2>6, <2>4, <2>3 DEF BridgeResult
  <2> QED
    BY <2>5, <2>6
<1>6. PICK a \in ReplySet : Brought(a)
  BY <1>5
<1>7. /\ m \in Nat /\ replies' \in Seq(ReplySet) /\ replies' # <<>> /\ Len(replies') = m + 1
      /\ replies'[m + 1] = a /\ \A i \in 1..m : replies'[i] = replies[i]
  BY <1>6, AppendOf DEF LinkInv, Sorts
<1>8. q.by \notin astray => /\ n = 1 /\ wire' = <<>> /\ stage[q.by] = "sent" /\ q.token = claims[q.by]
                            /\ (q.method = "reset") <=> (at[q.by] = "reset")
  BY <1>1 DEF LinkInv, Requested
<1>9. open' \subseteq Token
  BY <1>6 DEF LinkInv, Sorts
<1>10. Sorts' /\ Lined' /\ Claimed'
  BY <1>1, <1>2, <1>6, <1>7, <1>9 DEF LinkInv, Sorts, Lined, Claimed
<1>11. Lag'
  <2>1. ASSUME NEW s \in Session, stage[s] = "sent"
        PROVE  /\ Len(replies') + Len(wire') = cuts + 1
               /\ IF wire' # <<>> THEN wire'[Len(wire')].by = s ELSE replies'[Len(replies')].by = s
    <3>1. m + n = cuts + 1 /\ wire[n].by = s
      BY <1>1, <2>1 DEF LinkInv, Lag
    <3>2. CASE n = 1
      BY <1>1, <1>6, <1>7, <3>1, <3>2
    <3>3. CASE n # 1
      <4>1. n - 1 \in 1..(n - 1) /\ (n - 1) + 1 = n /\ wire' # <<>>
        BY <1>1, <3>3
      <4> QED
        BY <1>1, <1>7, <3>1, <4>1
    <3> QED
      BY <3>2, <3>3
  <2>2. (\A s \in Session : stage[s] # "sent") => Len(replies') + Len(wire') = cuts
    BY <1>1, <1>7 DEF LinkInv, Lag
  <2> QED
    BY <1>2, <2>1, <2>2 DEF LinkInv, Lag
<1>12. Requested'
  <2>1. ASSUME NEW i \in 1..(n - 1)
        PROVE  LET p == wire'[i] IN
                 /\ p.token \in Token => p.token[1] = p.by \/ p.token[1] \in astray
                 /\ p.by \notin astray =>
                      /\ i = n - 1 /\ stage[p.by] = "sent" /\ p.token = claims[p.by]
                      /\ (p.method = "reset") <=> (at[p.by] = "reset")
    <3>1. i + 1 \in 1..n /\ wire'[i] = wire[i + 1] /\ (i + 1 = n => i = n - 1)
      BY <1>1
    <3> QED
      BY <3>1 DEF LinkInv, Requested
  <2> QED
    BY <1>1, <1>2, <2>1 DEF Requested
<1>13. AnsweredOnly'
  <2>1. ASSUME NEW i \in 1..(m + 1)
        PROVE  LET b == replies'[i] IN
                 /\ b.token # None => b.kind = "ok" /\ b.token[1] = b.by
                 /\ b.by \notin astray =>
                      /\ i = m + 1 /\ wire' = <<>> /\ stage[b.by] = "sent"
                      /\ b.token # None => at[b.by] = "reset" /\ b.token \in open'
                      /\ b.token = None /\ b.kind = "ok" => at[b.by] # "reset" /\ claims[b.by] \notin open'
    <3>1. CASE i = m + 1
      <4>1. replies'[i] = a /\ a.by = q.by
        BY <1>6, <1>7, <3>1
      <4>2. a.token # None => a.kind = "ok" /\ a.token[1] = a.by /\ q.method = "reset" /\ a.token \in open'
        BY <1>6
      <4>3. a.token = None /\ a.kind = "ok" => q.method # "reset" /\ q.token \notin open'
        BY <1>6, TokensApart
      <4> QED
        BY <1>8, <3>1, <4>1, <4>2, <4>3
    <3>2. CASE i # m + 1
      <4>1. i \in 1..m /\ replies'[i] = replies[i]
        BY <1>7, <3>2
      <4>2. replies[i].by \in astray
        BY <1>1, <4>1 DEF LinkInv, AnsweredOnly
      <4> QED
        BY <4>1, <4>2 DEF LinkInv, AnsweredOnly
    <3> QED
      BY <3>1, <3>2
  <2> QED
    BY <1>2, <1>7, <2>1 DEF AnsweredOnly
<1>14. Tracked'
  <2>1. ASSUME NEW t \in open', t[1] \notin astray
        PROVE  \/ claims[t[1]] = t
               \/ /\ at[t[1]] = "reset" /\ stage[t[1]] = "sent"
                  /\ \E i \in 1..(m + 1) : replies'[i].token = t
    <3>1. CASE t \in open
      BY <1>7, <2>1, <3>1 DEF LinkInv, Tracked
    <3>2. CASE t \notin open
      <4>1. t = a.token /\ t[1] = q.by /\ q.method = "reset"
        BY <1>6, <2>1, <3>2
      <4>2. m + 1 \in 1..(m + 1)
        BY <1>7
      <4> QED
        BY <1>7, <1>8, <2>1, <4>1, <4>2
    <3> QED
      BY <3>1, <3>2
  <2> QED
    BY <1>2, <1>7, <2>1 DEF Tracked
<1>15. SlotKept'
  <2>1. ASSUME NEW s \in Session \ astray,
               at[s] = "episode" \/ (at[s] = "result" /\ stage[s] = "wait")
        PROVE  claims[s] \in open' /\ claims[s][1] = s
    <3>1. claims[s] \in open /\ claims[s][1] = s /\ stage[s] # "sent" /\ claims[s] \in Token
      BY <2>1 DEF LinkInv, SlotKept, Lined, Engaged, Sorts
    <3>2. claims[s] # q.token
      <4>1. q.token \in Token => q.token[1] = q.by \/ q.token[1] \in astray
        BY <1>1 DEF LinkInv, Requested
      <4> QED
        BY <1>8, <2>1, <3>1, <4>1
    <3> QED
      BY <1>6, <3>1, <3>2
  <2> QED
    BY <1>2, <2>1 DEF SlotKept
<1> QED
  BY <1>10, <1>11, <1>12, <1>13, <1>14, <1>15 DEF LinkInv

\* Two callers have not both sent.
LEMMA OneSent ==
  ASSUME LinkInv, NEW s \in Session, NEW t \in Session, stage[s] = "sent", stage[t] = "sent"
  PROVE  s = t
BY DEF LinkInv, Lined

\* A step of a session that neither sends nor takes a reply; if it had sent, its
\* call is cut, and the frame stays.
LEMMA QuietStep ==
  ASSUME LinkInv, NEW s \in Session, CutOff(s), UNCHANGED <<wire, replies, open>>,
         claims'[s] = claims[s] \/ claims[s] \notin Token,
         stage'[s] # "sent",
         at'[s] # "episode", at'[s] = "result" /\ stage'[s] = "wait" => at[s] = "episode" /\ claims'[s] = claims[s],
         \A t \in Session \ {s} : at'[t] = at[t] /\ stage'[t] = stage[t] /\ claims'[t] = claims[t]
  PROVE  Lag' /\ Requested' /\ AnsweredOnly' /\ Tracked' /\ SlotKept'
<1> USE DEF LinkInv
<1>1. /\ astray \subseteq astray' /\ (stage[s] = "sent" => s \in astray')
      /\ \A t \in Session : t \notin astray' => t \notin astray
  BY DEF CutOff, past
<1>2. Lag'
  <2>1. CASE stage[s] = "sent"
    <3>1. \A t \in Session : stage'[t] # "sent"
      BY <2>1, OneSent
    <3>2. Len(replies) + Len(wire) = cuts + 1 /\ cuts' = cuts + 1 /\ cuts \in Nat
      BY <2>1 DEF Lag, CutOff, Sorts
    <3> QED
      BY <3>1, <3>2 DEF Lag
  <2>2. CASE stage[s] # "sent"
    <3>1. \A t \in Session : stage'[t] = "sent" <=> stage[t] = "sent"
      BY <2>2
    <3> QED
      BY <2>2, <3>1 DEF Lag, CutOff, past
  <2> QED
    BY <2>1, <2>2
<1>3. Requested'
  <2>1. ASSUME NEW i \in 1..Len(wire)
        PROVE  LET q == wire[i] IN
                 /\ q.token \in Token => q.token[1] = q.by \/ q.token[1] \in astray'
                 /\ q.by \notin astray' =>
                      /\ i = Len(wire) /\ stage'[q.by] = "sent" /\ q.token = claims'[q.by]
                      /\ (q.method = "reset") <=> (at'[q.by] = "reset")
    <3>1. wire[i].by \in Session
      <4>1. wire[i] \in RequestSet
        BY DEF Sorts
      <4> QED
        BY <4>1 DEF RequestSet
    <3>2. wire[i].by \notin astray' => stage[wire[i].by] = "sent" /\ wire[i].by # s
      BY <1>1, <3>1 DEF Requested
    <3> QED
      BY <1>1, <3>1, <3>2 DEF Requested
  <2> QED
    BY <2>1 DEF Requested
<1>4. AnsweredOnly'
  <2>1. ASSUME NEW i \in 1..Len(replies)
        PROVE  LET a == replies[i] IN
                 /\ a.token # None => a.kind = "ok" /\ a.token[1] = a.by
                 /\ a.by \notin astray' =>
                      /\ i = Len(replies) /\ wire = <<>> /\ stage'[a.by] = "sent"
                      /\ a.token # None => at'[a.by] = "reset" /\ a.token \in open
                      /\ a.token = None /\ a.kind = "ok" => at'[a.by] # "reset" /\ claims'[a.by] \notin open
    <3>1. replies[i].by \in Session
      <4>1. replies[i] \in ReplySet
        BY DEF Sorts
      <4> QED
        BY <4>1 DEF ReplySet
    <3>2. replies[i].by \notin astray' => stage[replies[i].by] = "sent" /\ replies[i].by # s
      BY <1>1, <3>1 DEF AnsweredOnly
    <3> QED
      BY <1>1, <3>1, <3>2 DEF AnsweredOnly
  <2> QED
    BY <2>1 DEF AnsweredOnly
<1>5. Tracked'
  <2>1. ASSUME NEW t \in open, t[1] \notin astray'
        PROVE  \/ claims'[t[1]] = t
               \/ /\ at'[t[1]] = "reset" /\ stage'[t[1]] = "sent"
                  /\ \E i \in 1..Len(replies) : replies[i].token = t
    <3>1. t \in Token /\ t[1] \in Session
      BY TokensApart DEF Sorts
    <3> QED
      BY <1>1, <2>1, <3>1 DEF Tracked
  <2> QED
    BY <2>1 DEF Tracked
<1>6. SlotKept'
  <2>1. ASSUME NEW t \in Session \ astray',
               at'[t] = "episode" \/ (at'[t] = "result" /\ stage'[t] = "wait")
        PROVE  claims'[t] \in open /\ claims'[t][1] = t
    BY <1>1, <2>1 DEF SlotKept
  <2> QED
    BY <2>1 DEF SlotKept
<1> QED
  BY <1>2, <1>3, <1>4, <1>5, <1>6

\* A session joins the line, leaves it, or goes on without a call.
LEMMA CallStep ==
  ASSUME LinkInv, NEW s \in Session,
         Reset(s) \/ Retry(s) \/ Finish(s) \/ Cancel(s) \/ Teardown(s) \/ Drain(s) \/ ReleaseTimeout(s)
  PROVE  LinkInv'
<1> DEFINE Quiet == Lag' /\ Requested' /\ AnsweredOnly' /\ Tracked' /\ SlotKept'
<1> USE DEF calls, link, bridge, past, Goes
<1>1. ASSUME Enqueue(s), at' = [at EXCEPT ![s] = at'[s]], at'[s] \in Engaged,
             stage[s] # "sent", UNCHANGED <<claims, stopping, wire, replies, open, given, cuts, astray>>,
             at'[s] = "result" => at[s] = "episode",
             at'[s] = "reset" => claims[s] = None, at'[s] # "reset" => claims[s] \in Token,
             stopping # "no" => at'[s] = "release"
      PROVE  LinkInv'
  <2>1. /\ line' \in Seq(Session) /\ stage' = [stage EXCEPT ![s] = "wait"]
        /\ \E k \in DOMAIN line' : line'[k] = s
        /\ \A t \in Session : (\E k \in DOMAIN line : line[k] = t) =>
             /\ \E k \in DOMAIN line' : line'[k] = t
             /\ line[1] = t => line'[1] = t
    BY <1>1, JoinsLine DEF LinkInv
  <2>2. stage'[s] = "wait" /\ at'[s] # "episode" /\ \A t \in Session \ {s} : at'[t] = at[t] /\ stage'[t] = stage[t]
    BY <1>1, <2>1 DEF LinkInv, Sorts, Engaged
  <2>3. Quiet
    BY <1>1, <2>2, QuietStep DEF CutOff
  <2>4. Sorts'
    BY <1>1, <2>1 DEF LinkInv, Sorts, Engaged
  <2>5. Lined'
    BY <1>1, <2>1, <2>2 DEF LinkInv, Sorts, Lined, Engaged
  <2>6. Claimed'
    BY <1>1, <2>2 DEF LinkInv, Claimed, Engaged
  <2> QED
    BY <2>3, <2>4, <2>5, <2>6 DEF LinkInv
<1>2. ASSUME NEW st \in {"none", "sleep"}, LeavesAs(s, st), CutOff(s), cuts' \in Nat,
             at' = [at EXCEPT ![s] = at'[s]], at'[s] \in {"teardown", "ended", "release"},
             st = "sleep" => at'[s] = "release", at'[s] = "release" => at[s] = "release",
             stopping # "no" => at'[s] \in {"ended", "release"},
             UNCHANGED <<claims, stopping, wire, replies, open, given>>
      PROVE  LinkInv'
  <2>1. \A t \in Session \ {s} : at'[t] = at[t]
    BY <1>2 DEF LinkInv, Sorts
  <2>2. Lined' /\ line' \in Seq(Session) /\ stage' = [stage EXCEPT ![s] = st]
    BY <1>2, <2>1, LeavesLined DEF LinkInv
  <2>3. stage'[s] = st /\ \A t \in Session \ {s} : stage'[t] = stage[t]
    BY <2>2 DEF LinkInv, Sorts
  <2>4. Quiet
    BY <1>2, <2>1, <2>3, QuietStep
  <2>5. astray \subseteq astray' /\ astray' \subseteq Session
    BY <1>2 DEF CutOff, LinkInv, Sorts
  <2>6. Sorts'
    BY <1>2, <2>2, <2>5 DEF LinkInv, Sorts, Engaged
  <2>7. Claimed'
    <3>1. ASSUME NEW t \in Session
          PROVE  /\ at'[t] \in {"new", "reset"} => claims[t] = None
                 /\ at'[t] \in {"episode", "result", "release"} => claims[t] \in Token
                 /\ stopping # "no" => at'[t] \in {"new", "ended", "release"}
      BY <1>2, <2>1 DEF LinkInv, Claimed
    <3> QED
      BY <1>2, <2>5, <3>1 DEF LinkInv, Claimed
  <2> QED
    BY <2>2, <2>4, <2>6, <2>7 DEF LinkInv
<1>3. CutOff(s) => cuts' \in Nat
  BY DEF CutOff, LinkInv, Sorts
<1>4. at' = [at EXCEPT ![s] = at'[s]] /\ at[s] \in {"new", "episode", "teardown", "ended"} \cup Engaged
  <2>1. ASSUME NEW w, at' = [at EXCEPT ![s] = w]
        PROVE  at' = [at EXCEPT ![s] = at'[s]]
    BY <2>1 DEF LinkInv, Sorts
  <2>2. at' = at \/ \E w : at' = [at EXCEPT ![s] = w]
    BY DEF Reset, Retry, Finish, Cancel, Teardown, Drain, ReleaseTimeout, AttemptFails
  <2> QED
    BY <2>1, <2>2 DEF LinkInv, Sorts
<1>5. CASE Reset(s)
  BY <1>1, <1>4, <1>5 DEF Reset, LinkInv, Sorts, Lined, Claimed, Engaged
<1>6. CASE Retry(s)
  BY <1>1, <1>4, <1>6 DEF Retry, LinkInv, Sorts, Lined, Claimed, Engaged
<1>7. CASE Finish(s)
  BY <1>1, <1>4, <1>7 DEF Finish, LinkInv, Sorts, Lined, Claimed, Engaged
<1>8. CASE Drain(s)
  BY <1>1, <1>4, <1>8 DEF Drain, LinkInv, Sorts, Lined, Claimed, Engaged
<1>9. CASE Cancel(s)
  BY <1>2, <1>3, <1>4, <1>9 DEF Cancel, LinkInv, Sorts, Claimed
<1>10. CASE ReleaseTimeout(s)
  BY <1>2, <1>3, <1>4, <1>10 DEF ReleaseTimeout, AttemptFails, GiveUp, LinkInv, Sorts, Claimed
<1>11. CASE Teardown(s)
  <2>1. CASE claims[s] \in {None, Freed}
    <3>1. /\ at[s] = "teardown" /\ at' = [at EXCEPT ![s] = "ended"]
          /\ claims' = [claims EXCEPT ![s] = None]
          /\ UNCHANGED <<stage, line, stopping, wire, replies, open, given, cuts, astray>>
      BY <1>11, <2>1 DEF Teardown
    <3>2. claims[s] \notin Token /\ None \notin Token /\ stage[s] = "none"
      BY <2>1, <3>1, TokensApart DEF LinkInv, Lined, Engaged
    <3>3. at'[s] = "ended" /\ \A t \in Session \ {s} : at'[t] = at[t] /\ claims'[t] = claims[t]
      BY <3>1 DEF LinkInv, Sorts
    <3>4. Quiet
      BY <3>1, <3>2, <3>3, QuietStep DEF CutOff
    <3>5. Sorts' /\ Lined' /\ Claimed'
      BY <3>1, <3>2, <3>3 DEF LinkInv, Sorts, Lined, Claimed, Engaged
    <3> QED
      BY <3>4, <3>5 DEF LinkInv
  <2>2. CASE claims[s] \notin {None, Freed}
    <3>1. /\ at[s] = "teardown" /\ at' = [at EXCEPT ![s] = "release"] /\ Enqueue(s)
          /\ UNCHANGED <<claims, stopping, wire, replies, open, given, cuts, astray>>
      BY <1>11, <2>2 DEF Teardown
    <3>2. claims[s] \in Token /\ stage[s] # "sent" /\ stopping = "no" /\ at'[s] = "release"
      BY <2>2, <3>1 DEF LinkInv, Sorts, Lined, Claimed, Engaged
    <3> QED
      BY <1>1, <1>4, <3>1, <3>2 DEF Engaged
  <2> QED
    BY <2>1, <2>2
<1> QED
  BY <1>5, <1>6, <1>7, <1>8, <1>9, <1>10, <1>11

\* The holder of the lock sends: nobody else has, and its frame is the last.
LEMMA SendStep ==
  ASSUME LinkInv, NEW s \in Session, Send(s)
  PROVE  LinkInv'
<1> DEFINE q == [by |-> s, method |-> IF at[s] = "reset" THEN "reset" ELSE "result", token |-> claims[s]]
           n == Len(wire)
<1> USE DEF link, bridge, past
<1>1. /\ stage[s] = "wait" /\ stage' = [stage EXCEPT ![s] = "sent"] /\ wire' = Append(wire, q)
      /\ UNCHANGED <<at, line, claims, stopping, replies, open, given, cuts, astray>>
  BY DEF Send
<1>2. line[1] = s /\ at[s] \in Engaged /\ \E k \in DOMAIN line : line[k] = s
  BY DEF Send, LinkInv, Sorts, Lined
<1>3. \A t \in Session : stage[t] # "sent"
  BY <1>1, <1>2 DEF LinkInv, Lined
<1>4. stage'[s] = "sent" /\ \A t \in Session \ {s} : stage'[t] = stage[t]
  BY <1>1 DEF LinkInv, Sorts
<1>5. q \in RequestSet
  BY DEF RequestSet, LinkInv, Sorts
<1>6. /\ n \in Nat /\ wire' \in Seq(RequestSet) /\ wire' # <<>> /\ Len(wire') = n + 1
      /\ wire'[n + 1] = q /\ \A i \in 1..n : wire'[i] = wire[i] /\ wire[i] \in RequestSet
  <2>1. wire \in Seq(RequestSet)
    BY DEF LinkInv, Sorts
  <2>2. \A i \in 1..n : wire[i] \in RequestSet
    BY <2>1
  <2> HIDE DEF q
  <2> QED
    BY <1>1, <1>5, <2>1, <2>2, AppendOf
<1>7. Sorts'
  BY <1>1, <1>6 DEF LinkInv, Sorts
<1>8. Lined' /\ Claimed'
  BY <1>1, <1>2, <1>4 DEF LinkInv, Lined, Claimed
<1>9. Lag'
  BY <1>1, <1>3, <1>4, <1>6 DEF LinkInv, Lag, Sorts
<1>10. Requested'
  <2>1. ASSUME NEW i \in 1..(n + 1)
        PROVE  LET p == wire'[i] IN
                 /\ p.token \in Token => p.token[1] = p.by \/ p.token[1] \in astray
                 /\ p.by \notin astray =>
                      /\ i = n + 1 /\ stage'[p.by] = "sent" /\ p.token = claims[p.by]
                      /\ (p.method = "reset") <=> (at[p.by] = "reset")
    <3>1. CASE i = n + 1
      <4>1. claims[s] \in Token => claims[s][1] = s \/ claims[s][1] \in astray
        BY DEF LinkInv, Claimed
      <4> QED
        BY <1>4, <1>6, <3>1, <4>1
    <3>2. CASE i # n + 1
      <4>1. i \in 1..n /\ wire'[i] = wire[i] /\ wire[i].by \in Session
        BY <1>6, <3>2 DEF RequestSet
      <4>2. wire[i].by \in astray
        BY <1>3, <4>1 DEF LinkInv, Requested
      <4> QED
        BY <4>1, <4>2 DEF LinkInv, Requested
    <3> QED
      BY <3>1, <3>2
  <2> QED
    BY <1>1, <1>6, <2>1 DEF Requested
<1>11. AnsweredOnly'
  <2>1. ASSUME NEW i \in 1..Len(replies)
        PROVE  replies[i].by \in astray
    <3>1. replies[i] \in ReplySet
      BY DEF LinkInv, Sorts
    <3> QED
      BY <1>3, <3>1 DEF LinkInv, AnsweredOnly, ReplySet
  <2> QED
    BY <1>1, <2>1 DEF LinkInv, AnsweredOnly
<1>12. Tracked'
  <2>1. ASSUME NEW t \in open, t[1] \notin astray
        PROVE  claims[t[1]] = t
    BY <1>3, <2>1, TokensApart DEF LinkInv, Sorts, Tracked
  <2> QED
    BY <1>1, <2>1 DEF Tracked
<1>13. SlotKept'
  BY <1>1, <1>2, <1>4 DEF LinkInv, SlotKept, Engaged
<1> QED
  BY <1>7, <1>8, <1>9, <1>10, <1>11, <1>12, <1>13 DEF LinkInv

\* The caller that has sent takes the first reply, which is its own only if it is
\* the only frame; what it makes of it leaves the claims right.
LEMMA TakenStep ==
  ASSUME LinkInv, NEW s \in Session, stage[s] = "sent", replies # <<>>, replies' = Tail(replies),
         NEW st \in {"none", "sleep"}, LeavesAs(s, st),
         astray' = (IF Head(replies).by = s THEN astray ELSE astray \cup {s}),
         UNCHANGED <<wire, open, given, cuts, stopping>>,
         at' = [at EXCEPT ![s] = at'[s]], claims' = [claims EXCEPT ![s] = claims'[s]],
         st = "sleep" => at'[s] \in {"reset", "release"},
         \/ /\ claims'[s] = claims[s] /\ at'[s] \in {"reset", "teardown", "ended", "release"}
            /\ at'[s] \in {"reset", "release"} => at[s] = at'[s]
            /\ at[s] = "reset" => Head(replies).token = None \/ Head(replies).kind # "ok"
         \/ /\ claims'[s] = Head(replies).token /\ Head(replies).token # None
            /\ at[s] = "reset" /\ at'[s] = "episode"
         \/ /\ claims'[s] \in {None, Freed} /\ Head(replies).kind = "ok"
            /\ at[s] # "reset" /\ at'[s] \in {"teardown", "ended"},
         stopping # "no" => at'[s] \in {"ended", "release"}
  PROVE  LinkInv'
<1> DEFINE a == replies[1]
           m == Len(replies)
<1> USE DEF LinkInv
<1>1. /\ m \in Nat \ {0} /\ replies' \in Seq(ReplySet) /\ Len(replies') = m - 1
      /\ a \in ReplySet /\ a = Head(replies)
      /\ \A i \in 1..(m - 1) : i + 1 \in 1..m /\ replies'[i] = replies[i + 1]
  BY TailOf DEF Sorts
<1>2. a.by \in Session /\ (a.token # None => a.token \in Token /\ a.kind = "ok" /\ a.token[1] = a.by)
  <2>1. 1 \in 1..m /\ a.by \in Session /\ a.token \in Token \cup {None}
    BY <1>1 DEF ReplySet
  <2> QED
    BY <2>1 DEF AnsweredOnly
<1>3. \A t \in Session \ {s} : stage[t] # "sent"
  BY OneSent
<1>4. /\ astray \subseteq astray' /\ astray' \subseteq Session
      /\ a.by # s => a.by \in astray /\ s \in astray'
  BY <1>1, <1>2, <1>3 DEF AnsweredOnly, Sorts
<1>5. s \notin astray' =>
        /\ a.by = s /\ m = 1 /\ wire = <<>>
        /\ a.token # None => at[s] = "reset" /\ a.token \in open
        /\ a.token = None /\ a.kind = "ok" => at[s] # "reset" /\ claims[s] \notin open
  <2>1. s \notin astray' => s \notin astray /\ a.by = s /\ 1 \in 1..m
    BY <1>1, <1>4
  <2> QED
    BY <2>1 DEF AnsweredOnly
<1>6. \A t \in Session \ {s} : at'[t] = at[t] /\ claims'[t] = claims[t]
  BY DEF Sorts
<1>7. Lined' /\ line' \in Seq(Session) /\ stage' = [stage EXCEPT ![s] = st]
  BY <1>6, LeavesLined
<1>8. stage'[s] = st /\ \A t \in Session : stage'[t] # "sent"
  BY <1>3, <1>7 DEF Sorts
<1>9. at[s] \in Engaged /\ stopping' = stopping /\ (at[s] # "reset" => claims[s] \in Token)
  BY DEF Lined, Claimed, Engaged
<1>10. claims'[s] \in Token \cup {None, Freed}
       /\ at'[s] \in {"reset", "episode", "teardown", "ended", "release"}
  BY <1>1, <1>2 DEF Sorts
<1>11. Sorts'
  <2>1. at' \in [Session -> {"new", "episode", "teardown", "ended"} \cup Engaged]
    BY <1>10 DEF Sorts, Engaged
  <2>2. claims' \in [Session -> Token \cup {None, Freed}]
    BY <1>10 DEF Sorts
  <2>3. stage' \in [Session -> {"none", "wait", "sent", "sleep"}]
    BY <1>7 DEF Sorts
  <2> QED
    BY <1>1, <1>4, <1>7, <2>1, <2>2, <2>3 DEF Sorts
<1>12. Claimed'
  <2>1. ASSUME NEW t \in Session \ {s}
        PROVE  /\ at'[t] \in {"new", "reset"} => claims'[t] = None
               /\ at'[t] \in {"episode", "result", "release"} => claims'[t] \in Token
               /\ claims'[t] \in Token => claims'[t][1] = t \/ {t, claims'[t][1]} \subseteq astray'
               /\ stopping' # "no" => at'[t] \in {"new", "ended", "release"}
    BY <1>4, <1>6, <1>9 DEF Claimed
  <2>2. claims'[s] \in Token => claims'[s][1] = s \/ {s, claims'[s][1]} \subseteq astray'
    BY <1>1, <1>2, <1>4, TokensApart DEF Claimed
  <2>3. /\ at'[s] \in {"new", "reset"} => claims'[s] = None
        /\ at'[s] \in {"episode", "result", "release"} => claims'[s] \in Token
        /\ stopping' # "no" => at'[s] \in {"new", "ended", "release"}
    BY <1>1, <1>2, <1>9 DEF Claimed
  <2> QED
    BY <2>1, <2>2, <2>3 DEF Claimed
<1>13. Lag'
  <2>1. m + Len(wire) = cuts + 1 /\ Len(wire) \in Nat
        /\ IF wire # <<>> THEN wire[Len(wire)].by = s ELSE replies[m].by = s
    BY DEF Lag, Sorts
  <2>2. Len(replies') + Len(wire') = cuts'
    BY <1>1, <2>1 DEF Sorts
  <2>3. cuts' = 0 => astray' = {}
    <3>1. cuts = 0 => m = 1 /\ Len(wire) = 0 /\ wire = <<>>
      BY <1>1, <2>1 DEF Sorts
    <3>2. cuts = 0 => a.by = s /\ astray = {}
      BY <2>1, <3>1 DEF Lag
    <3> QED
      BY <1>1, <3>2
  <2> QED
    BY <1>8, <2>2, <2>3 DEF Lag
<1>14. Requested'
  <2>1. ASSUME NEW i \in 1..Len(wire)
        PROVE  /\ wire[i].by \in astray'
               /\ wire[i].token \in Token => wire[i].token[1] = wire[i].by \/ wire[i].token[1] \in astray'
    <3>1. wire[i] \in RequestSet /\ wire # <<>>
      BY DEF Sorts
    <3>2. s \in astray'
      BY <1>5, <3>1
    <3> QED
      BY <1>3, <1>4, <3>1, <3>2 DEF Requested, RequestSet
  <2> QED
    BY <2>1 DEF Requested
<1>15. AnsweredOnly'
  <2>1. ASSUME NEW i \in 1..(m - 1)
        PROVE  /\ replies'[i].by \in astray'
               /\ replies'[i].token # None => replies'[i].kind = "ok" /\ replies'[i].token[1] = replies'[i].by
    <3>1. i + 1 \in 1..m /\ replies'[i] = replies[i + 1] /\ m # 1
      BY <1>1
    <3>2. s \in astray' /\ replies[i + 1] \in ReplySet
      BY <1>5, <3>1 DEF Sorts
    <3> QED
      BY <1>3, <1>4, <3>1, <3>2 DEF AnsweredOnly, ReplySet
  <2> QED
    BY <1>1, <2>1 DEF AnsweredOnly
<1>16. Tracked'
  <2>1. ASSUME NEW t \in open, t[1] \notin astray'
        PROVE  claims'[t[1]] = t
    <3>1. t \in Token /\ t[1] \in Session /\ t # None /\ t # Freed /\ t[1] \notin astray
      BY <1>4, <2>1, TokensApart DEF Sorts
    <3>2. CASE t[1] # s
      BY <1>3, <1>6, <3>1, <3>2 DEF Tracked
    <3>3. CASE t[1] = s
      <4>1. /\ a.by = s /\ m = 1
            /\ a.token # None => at[s] = "reset" /\ a.token \in open
            /\ a.token = None /\ a.kind = "ok" => at[s] # "reset" /\ claims[s] \notin open
        BY <1>5, <2>1, <3>3
      <4>2. claims[s] = t \/ (at[s] = "reset" /\ a.token = t)
        BY <3>1, <3>3, <4>1 DEF Tracked
      <4>3. at[s] = "reset" => claims[s] = None
        BY DEF Claimed
      <4> QED
        BY <1>1, <1>2, <2>1, <3>1, <3>3, <4>1, <4>2, <4>3
    <3> QED
      BY <3>2, <3>3
  <2> QED
    BY <2>1 DEF Tracked
<1>17. SlotKept'
  <2>1. ASSUME NEW t \in Session \ astray',
               at'[t] = "episode" \/ (at'[t] = "result" /\ stage'[t] = "wait")
        PROVE  claims'[t] \in open /\ claims'[t][1] = t
    <3>1. CASE t # s
      BY <1>4, <1>6, <1>7, <2>1, <3>1 DEF SlotKept, Sorts
    <3>2. CASE t = s
      BY <1>1, <1>2, <1>5, <1>10, <2>1, <3>2
    <3> QED
      BY <3>1, <3>2
  <2> QED
    BY <2>1 DEF SlotKept
<1> QED
  BY <1>7, <1>11, <1>12, <1>13, <1>14, <1>15, <1>16, <1>17

\* The caller that has sent takes a reply, whoever it was for.
LEMMA ReceiveStep ==
  ASSUME LinkInv, NEW s \in Session, Receive(s)
  PROVE  LinkInv'
<1> DEFINE a == Head(replies)
<1>1. /\ stage[s] = "sent" /\ replies # <<>> /\ replies' = Tail(replies)
      /\ astray' = (IF a.by = s THEN astray ELSE astray \cup {s})
      /\ UNCHANGED <<wire, open, given, cuts, stopping>>
  BY DEF Receive, bridge
<1>2. at \in [Session -> {"new", "episode", "teardown", "ended"} \cup Engaged]
      /\ claims \in [Session -> Token \cup {None, Freed}]
  BY DEF LinkInv, Sorts
<1>3. \A w : at' = [at EXCEPT ![s] = w] => at'[s] = w /\ at' = [at EXCEPT ![s] = at'[s]]
  BY <1>2
<1>4. \A c : claims' = [claims EXCEPT ![s] = c] => claims'[s] = c /\ claims' = [claims EXCEPT ![s] = claims'[s]]
  BY <1>2
<1>5. at' = at => at'[s] = at[s] /\ at' = [at EXCEPT ![s] = at'[s]]
  BY <1>2
<1>6. claims' = claims => claims'[s] = claims[s] /\ claims' = [claims EXCEPT ![s] = claims'[s]]
  BY <1>2
<1>7. stopping # "no" => at[s] = "release"
  BY <1>1 DEF LinkInv, Lined, Claimed, Engaged
<1>8. a.token # None => a.kind = "ok"
  <2>1. 1 \in 1..Len(replies) /\ a = replies[1]
    BY <1>1, TailOf DEF LinkInv, Sorts
  <2> QED
    BY <2>1 DEF LinkInv, AnsweredOnly
<1>9. CASE at[s] = "reset" /\ ResetReplied(s, a)
  <2>1. CASE LeavesAs(s, "sleep") /\ a.kind = "full" /\ UNCHANGED <<at, claims>>
    BY <1>1, <1>5, <1>6, <1>7, <1>9, <2>1, TakenStep
  <2>2. CASE LeavesAs(s, "none") /\ a.token # None /\ at' = [at EXCEPT ![s] = "episode"]
             /\ claims' = [claims EXCEPT ![s] = a.token]
    BY <1>1, <1>3, <1>4, <1>7, <1>9, <2>2, TakenStep
  <2>3. CASE LeavesAs(s, "none") /\ a.token = None /\ at' = [at EXCEPT ![s] = "teardown"] /\ UNCHANGED claims
    BY <1>1, <1>3, <1>6, <1>7, <1>9, <2>3, TakenStep
  <2> QED
    BY <1>9, <2>1, <2>2, <2>3 DEF ResetReplied, Full, Goes
<1>10. CASE at[s] = "result" /\ ResultReplied(s, a)
  <2>1. LeavesAs(s, "none") /\ at' = [at EXCEPT ![s] = "teardown"]
        /\ (IF a.kind = "ok" THEN claims' = [claims EXCEPT ![s] = Freed] ELSE claims' = claims)
    BY <1>10 DEF ResultReplied, Scored, Goes
  <2> QED
    BY <1>1, <1>3, <1>4, <1>6, <1>7, <1>10, <2>1, TakenStep
<1>11. CASE at[s] = "release" /\ ReleaseReplied(s, a)
  <2>1. CASE LeavesAs(s, "sleep") /\ a.kind # "ok" /\ UNCHANGED <<at, claims>>
    BY <1>1, <1>5, <1>6, <1>7, <1>11, <2>1, TakenStep
  <2>2. CASE LeavesAs(s, "none") /\ a.kind # "ok" /\ at' = [at EXCEPT ![s] = "ended"] /\ UNCHANGED claims
    BY <1>1, <1>3, <1>6, <1>7, <1>11, <2>2, TakenStep
  <2>3. CASE LeavesAs(s, "none") /\ a.kind = "ok" /\ at' = [at EXCEPT ![s] = "ended"]
             /\ claims' = [claims EXCEPT ![s] = None]
    BY <1>1, <1>3, <1>4, <1>7, <1>11, <2>3, TakenStep
  <2> QED
    BY <1>11, <2>1, <2>2, <2>3 DEF ReleaseReplied, AttemptFails, GiveUp, Goes
<1> QED
  BY <1>9, <1>10, <1>11 DEF Receive

\* Every step keeps the invariant.
LEMMA LinkStep ==
  ASSUME LinkInv, [Next]_vars
  PROVE  LinkInv'
<1>1. ASSUME UNCHANGED <<at, stage, line, claims, wire, replies, open, given, cuts, astray>>,
             stopping' = stopping \/ \A s \in Session : at[s] \in {"new", "ended", "release"}
      PROVE  LinkInv'
  BY <1>1 DEF LinkInv, Sorts, Lined, Claimed, Lag, Requested, AnsweredOnly, Tracked, SlotKept
<1>2. CASE UNCHANGED vars
  BY <1>1, <1>2 DEF vars, calls, link, bridge, past
<1>3. CASE Stop
  BY <1>1, <1>3 DEF Stop, calls, link, bridge, past
<1>4. CASE DropLink
  BY <1>1, <1>4 DEF DropLink, calls, link, bridge, past, LinkInv, Claimed
<1> QED
  BY <1>2, <1>3, <1>4, ServeStep, CallStep, SendStep, ReceiveStep DEF Next, Task

\* No session has a claim or a call to begin with.
LEMMA LinkInit == Init => LinkInv
<1>1. Init => Sorts /\ Lined /\ Claimed
  BY TokensApart DEF Init, Sorts, Lined, Claimed, Engaged
<1>2. Init => Lag /\ Requested /\ AnsweredOnly /\ Tracked /\ SlotKept
  BY DEF Init, Lag, Requested, AnsweredOnly, Tracked, SlotKept
<1> QED
  BY <1>1, <1>2 DEF LinkInv

\* "Serialize send+read so replies don't cross" (endpoint.py:139): the frame a caller
\* will read is the reply to its own request, or, once calls were cut after they were
\* sent, there are as many frames before its own as were cut.
THEOREM RepliesMatchAlways == Init /\ [][Next]_vars => []RepliesMatch
<1>1. LinkInv /\ [Next]_vars => LinkInv'
  BY LinkStep
<1>2. LinkInv => RepliesMatch
  <2> SUFFICES ASSUME LinkInv
               PROVE  RepliesMatch
    OBVIOUS
  <2>1. /\ Len(replies) \in Nat /\ Len(wire) \in Nat /\ cuts \in Nat
        /\ Len(Due) = Len(replies) + Len(wire)
    BY DEF LinkInv, Sorts, Due
  <2>2. ASSUME NEW s \in Session, stage[s] = "sent"
        PROVE  Len(Due) = cuts + 1 /\ Due[cuts + 1] = s
    <3>1. /\ Len(replies) + Len(wire) = cuts + 1
          /\ IF wire # <<>> THEN wire[Len(wire)].by = s ELSE replies[Len(replies)].by = s
      BY <2>2 DEF LinkInv, Lag
    <3>2. cuts + 1 \in 1..(Len(replies) + Len(wire))
      BY <2>1, <3>1
    <3>3. CASE wire # <<>>
      <4>1. Len(wire) > 0 /\ ~(cuts + 1 <= Len(replies)) /\ (cuts + 1) - Len(replies) = Len(wire)
        BY <2>1, <3>1, <3>3 DEF LinkInv, Sorts
      <4> QED
        BY <2>1, <3>1, <3>2, <3>3, <4>1 DEF Due
    <3>4. CASE wire = <<>>
      <4>1. Len(wire) = 0 /\ cuts + 1 = Len(replies) /\ cuts + 1 <= Len(replies)
        BY <2>1, <3>1, <3>4
      <4>2. replies[cuts + 1].by = s
        BY <3>1, <3>4, <4>1
      <4>3. Due[cuts + 1] = replies[cuts + 1].by
        BY <3>2, <4>1 DEF Due
      <4> QED
        BY <2>1, <3>1, <4>2, <4>3
    <3> QED
      BY <3>3, <3>4
  <2> QED
    BY <2>1, <2>2 DEF RepliesMatch, LinkInv, Lag
<1> QED
  BY LinkInit, <1>1, <1>2, PTL

\* A slot that the bridge gave out is claimed by its session until it is freed, or
\* the reply that says so is on its way (endpoint.py:271), unless a call of that very
\* session was cut or misled.
THEOREM SlotTrackedAlways == Init /\ [][Next]_vars => []SlotTracked
<1>1. LinkInv /\ [Next]_vars => LinkInv'
  BY LinkStep
<1>2. LinkInv => SlotTracked
  BY TokensApart DEF LinkInv, Tracked, SlotTracked
<1> QED
  BY LinkInit, <1>1, <1>2, PTL

\* A session in order plays on the slot it was given until it asks for the result,
\* whatever the sessions whose calls were cut or misled free (endpoint.py:306).
THEOREM SlotKeptAlways == Init /\ [][Next]_vars => []SlotKept
<1>1. LinkInv /\ [Next]_vars => LinkInv'
  BY LinkStep
<1>2. LinkInv => SlotKept
  BY DEF LinkInv
<1> QED
  BY LinkInit, <1>1, <1>2, PTL

(***************************************************************************)
(* The scores of the gym bridge and the traces of the recorder.             *)
(***************************************************************************)

\* GradedByFirst for the slots of a sim that has been reset, and a slot whose
\* first episode goes on has not succeeded.
GymInv ==
  /\ done \in [Envs -> BOOLEAN] /\ success \in [Envs -> BOOLEAN] /\ reward \in [Envs -> Int]
  /\ truth \in [Envs -> [reward : Int, over : BOOLEAN, success : BOOLEAN]]
  /\ seen \in BOOLEAN /\ fresh \in BOOLEAN
  /\ fresh => \A e \in Envs :
       /\ reward[e] = truth[e].reward /\ done[e] = truth[e].over /\ success[e] = truth[e].success
       /\ ~truth[e].over => ~truth[e].success

\* Frames are of slots and episodes, numbered from one.
Frames == (Slots \X Nat \X Nat) \cup {Sentinel}

FrameOf(t, f, n) == f # Sentinel /\ f[1] = t[1] /\ f[2] = t[2] /\ f[3] \in 1..n
Before(f, g) == f[3] < g[3]

\* What waits in a trace's queue and what its encoder wrote: frames of t, in
\* order, up to tick n.
Stream(t, q, enc, n) ==
  /\ q \in Seq(Frames) /\ enc \in Seq(Frames)
  /\ \A k \in 1..Len(enc) :
       FrameOf(t, enc[k], n) /\ \A l \in 1..(k - 1) : Before(enc[l], enc[k])
  /\ \A k \in 1..Len(q) : q[k] # Sentinel =>
       /\ FrameOf(t, q[k], n)
       /\ \A l \in 1..(k - 1) : q[l] # Sentinel => Before(q[l], q[k])
       /\ \A l \in 1..Len(enc) : Before(enc[l], q[k])

\* The last tick a trace of slot record r can have a frame of, while it is
\* not over.
Top(r, t) == IF t[2] = r.episode THEN r.tick ELSE 0

Framed == \A t \in Episodes : \E n \in Nat :
  /\ Stream(t, queues[t], encoded[t], n)
  /\ rec[t[1]].episode <= t[2] => n <= Top(rec[t[1]], t)

\* While the recorder is open, it and the env agree on the episode.
Aligned == steps <= RecordSteps => \A i \in Slots :
  /\ world[i].episode = rec[i].episode /\ world[i].tick = rec[i].tick /\ world[i].reward = rec[i].reward
  /\ ~rec[i].open => rec[i].tick = 0 /\ rec[i].reward = 0

\* A trace is entered when its slot opens it and exited once, when it is closed.
Paired ==
  /\ \A i \in Slots : rec[i].open => <<i, rec[i].episode>> \in entered
  /\ entered \subseteq Slots \X Nat
  /\ \A t \in entered :
       \/ t[2] < rec[t[1]].episode /\ \E e \in exited : Exited(t) = {e}
       \/ t[2] = rec[t[1]].episode /\ rec[t[1]].open
  /\ \A e \in exited :
       /\ e.trace \in entered /\ e.trace[2] < rec[e.trace[1]].episode
       /\ e.reward = e.of.reward /\ e.trace[2] = e.of.episode

Exits == [trace : Slots \X Nat, reward : Int, meta : Nat,
          of : [episode : Nat, tick : Nat, reward : Int]]

RecorderType ==
  /\ steps \in Nat
  /\ world \in [Slots -> [episode : Nat, tick : Nat, reward : Int]]
  /\ rec \in [Slots -> [open : BOOLEAN, episode : Nat, tick : Nat, reward : Int, meta : Nat]]
  /\ queues \in [Episodes -> Seq(Frames)] /\ encoded \in [Episodes -> Seq(Frames)]
  /\ params \in [told : Nat, real : Nat] /\ exited \subseteq Exits

RecorderInv == RecorderType /\ Aligned /\ Paired /\ Framed

\* A slot's score is its first episode's after every step of the sim thread.
LEMMA GymStep == GymInv /\ [NextGym]_gymVars => GymInv'
<1> SUFFICES ASSUME GymInv, [NextGym]_gymVars PROVE GymInv'
  OBVIOUS
<1>1. ASSUME NEW b \in Builds, ResetSame(b) \/ ResetOther(b) PROVE GymInv'
  <2>1. Restart(b)
    BY <1>1 DEF ResetSame, ResetOther
  <2>2. NoTruth \in [reward : Int, over : BOOLEAN, success : BOOLEAN] /\ NoTruth.reward = 0
        /\ NoTruth.over = FALSE /\ NoTruth.success = FALSE
    BY DEF NoTruth
  <2> QED
    BY <2>1, <2>2 DEF Restart, GymInv
<1>2. ASSUME NEW b \in Builds, BuildFails(b) \/ ResetFails(b) PROVE GymInv'
  BY <1>2 DEF BuildFails, ResetFails, scoring, GymInv
<1>3. CASE Step
  <2>1. PICK r \in [Envs -> 0 .. 1], over \in [Envs -> BOOLEAN], reported \in [Envs -> BOOLEAN],
             told \in BOOLEAN :
       /\ reward' = [e \in Envs |-> Credited(e, r[e])]
       /\ LET heard == told /\ Newly(over) # {} IN
            /\ success' = IF heard THEN Successful(over, reported) ELSE success
            /\ seen' = (seen \/ heard)
       /\ done' = [e \in Envs |-> done[e] \/ over[e]]
       /\ truth' = [e \in Envs |->
            IF truth[e].over THEN truth[e]
            ELSE [reward |-> truth[e].reward + r[e], over |-> over[e],
                  success |-> over[e] /\ told /\ reported[e]]]
    BY <1>3 DEF Step
  <2>2. fresh /\ fresh' = fresh
    BY <1>3 DEF Step
  <2>3. /\ done' \in [Envs -> BOOLEAN] /\ success' \in [Envs -> BOOLEAN] /\ reward' \in [Envs -> Int]
        /\ seen' \in BOOLEAN
    BY <2>1 DEF GymInv, Credited, Successful
  <2>4. truth' \in [Envs -> [reward : Int, over : BOOLEAN, success : BOOLEAN]]
    BY <2>1 DEF GymInv
  <2>5. ASSUME NEW e \in Envs
        PROVE /\ reward'[e] = truth'[e].reward /\ done'[e] = truth'[e].over
              /\ success'[e] = truth'[e].success
              /\ ~truth'[e].over => ~truth'[e].success
    <3>1. /\ reward[e] = truth[e].reward /\ done[e] = truth[e].over /\ success[e] = truth[e].success
          /\ ~truth[e].over => ~truth[e].success
          /\ truth[e] \in [reward : Int, over : BOOLEAN, success : BOOLEAN]
      BY <2>2 DEF GymInv
    <3>2. CASE truth[e].over
      BY <2>1, <3>1, <3>2 DEF GymInv, Credited, Successful, Newly
    <3>3. CASE ~truth[e].over
      <4>1. e \in Newly(over) <=> over[e]
        BY <3>1, <3>3 DEF Newly
      <4>2. success'[e] = (over[e] /\ told /\ reported[e])
        BY <2>1, <3>1, <3>3, <4>1 DEF GymInv, Successful
      <4>3. truth'[e] = [reward |-> truth[e].reward + r[e], over |-> over[e],
                         success |-> over[e] /\ told /\ reported[e]]
        BY <2>1, <3>3
      <4>4. reward'[e] = reward[e] + r[e] /\ done'[e] = over[e]
        BY <2>1, <3>1, <3>3 DEF Credited, GymInv
      <4> QED
        BY <3>1, <4>2, <4>3, <4>4
    <3> QED
      BY <3>2, <3>3
  <2> QED
    BY <2>2, <2>3, <2>4, <2>5 DEF GymInv
<1>4. CASE StopSim
  BY <1>4 DEF StopSim, scoring, GymInv
<1>5. CASE UNCHANGED gymVars
  BY <1>5 DEF gymVars, GymInv
<1> QED
  BY <1>1, <1>2, <1>3, <1>4, <1>5 DEF NextGym

\* The next frame of an episode is after those before it.
LEMMA NextFrame ==
  ASSUME NEW t \in Slots \X Nat, NEW n \in Nat
  PROVE  LET f == <<t[1], t[2], n + 1>> IN
         /\ f \in Frames /\ FrameOf(t, f, n + 1)
         /\ \A g : FrameOf(t, g, n) => FrameOf(t, g, n + 1) /\ Before(g, f)
BY DEF Frames, FrameOf, Before, Sentinel

\* A queue given another frame, or the end of its trace, or read, stays in order.
LEMMA StreamSubmit ==
  ASSUME NEW t \in Slots \X Nat, NEW q, NEW enc, NEW n \in Nat, Stream(t, q, enc, n)
  PROVE  Stream(t, Submit(q, <<t[1], t[2], n + 1>>), enc, n + 1)
<1> DEFINE f == <<t[1], t[2], n + 1>>
           r == Append(q, f)
<1>1. /\ f \in Frames /\ FrameOf(t, f, n + 1)
      /\ \A g : FrameOf(t, g, n) => FrameOf(t, g, n + 1) /\ Before(g, f)
  BY NextFrame
<1> HIDE DEF f
<1>2. r \in Seq(Frames) /\ Len(r) = Len(q) + 1 /\ r[Len(q) + 1] = f /\ \A k \in 1..Len(q) : r[k] = q[k]
  BY <1>1 DEF Stream
<1>3. Stream(t, q, enc, n + 1)
  BY <1>1 DEF Stream
<1> HIDE DEF r
<1>4. Stream(t, r, enc, n + 1)
  <2>0. Len(q) \in Nat
    BY DEF Stream
  <2>1. ASSUME NEW k \in 1..Len(r), r[k] # Sentinel
        PROVE /\ FrameOf(t, r[k], n + 1)
              /\ \A l \in 1..(k - 1) : r[l] # Sentinel => Before(r[l], r[k])
              /\ \A l \in 1..Len(enc) : Before(enc[l], r[k])
    <3>1. CASE k = Len(q) + 1
      BY <1>1, <1>2, <2>0, <2>1, <3>1 DEF Stream
    <3>2. CASE k # Len(q) + 1
      <4>1. k \in 1..Len(q) /\ r[k] = q[k] /\ \A l \in 1..(k - 1) : r[l] = q[l]
        BY <1>2, <2>0, <3>2
      <4> QED
        BY <1>3, <2>1, <4>1 DEF Stream
    <3> QED
      BY <3>1, <3>2
  <2> QED
    BY <1>2, <1>3, <2>1 DEF Stream
<1> QED
  BY <1>3, <1>4 DEF Submit, r, f

\* The sentinel takes the place of the oldest frame where the queue is full.
LEMMA StreamFinalize ==
  ASSUME NEW t \in Slots \X Nat, NEW q, NEW enc, NEW n \in Nat, Stream(t, q, enc, n)
  PROVE  Stream(t, Finalize(q), enc, n)
<1> DEFINE p == IF Len(q) < MaxQueued THEN q ELSE Tail(q)
           r == Append(p, Sentinel)
<1>0. q \in Seq(Frames) /\ Len(q) \in Nat
  BY DEF Stream
<1>1. PICK d \in {0, 1} : /\ p \in Seq(Frames)
                          /\ \A k \in 1..Len(p) : k + d \in 1..Len(q) /\ p[k] = q[k + d]
  <2>1. CASE Len(q) < MaxQueued
    BY <1>0, <2>1
  <2>2. CASE ~(Len(q) < MaxQueued)
    <3>1. q # <<>>
      BY <1>0, <2>2, RecorderAssumption
    <3>2. Tail(q) \in Seq(Frames) /\ Len(Tail(q)) = Len(q) - 1 /\ \A k \in 1..Len(Tail(q)) : Tail(q)[k] = q[k + 1]
      BY <1>0, <3>1
    <3> QED
      BY <1>0, <2>2, <3>2
  <2> QED
    BY <2>1, <2>2
<1> HIDE DEF p
<1>2. /\ r \in Seq(Frames) /\ Len(r) = Len(p) + 1 /\ Len(p) \in Nat /\ r[Len(p) + 1] = Sentinel
      /\ \A k \in 1..Len(p) : r[k] = p[k]
  BY <1>1 DEF Frames
<1> HIDE DEF r
<1>3. \A k \in 1..Len(r) : r[k] # Sentinel => k + d \in 1..Len(q) /\ r[k] = q[k + d]
  BY <1>1, <1>2
<1>4. ASSUME NEW k \in 1..Len(r), r[k] # Sentinel
      PROVE /\ FrameOf(t, r[k], n)
            /\ \A l \in 1..(k - 1) : r[l] # Sentinel => Before(r[l], r[k])
            /\ \A l \in 1..Len(enc) : Before(enc[l], r[k])
  <2>1. k + d \in 1..Len(q) /\ r[k] = q[k + d] /\ q[k + d] # Sentinel
    BY <1>3, <1>4
  <2>2. ASSUME NEW l \in 1..(k - 1), r[l] # Sentinel
        PROVE  l + d \in 1..(k + d - 1) /\ r[l] = q[l + d] /\ q[l + d] # Sentinel
    BY <1>2, <1>3, <2>2
  <2> QED
    BY <2>1, <2>2 DEF Stream
<1> QED
  BY <1>2, <1>4 DEF Finalize, Stream, r, p

\* The encoder takes the oldest item, and keeps it unless it is the sentinel.
LEMMA StreamEncode ==
  ASSUME NEW t \in Slots \X Nat, NEW q, NEW enc, NEW n \in Nat, Stream(t, q, enc, n), q # <<>>
  PROVE  /\ Stream(t, Tail(q), enc, n)
         /\ Head(q) # Sentinel => Stream(t, Tail(q), Append(enc, Head(q)), n)
<1> DEFINE p == Tail(q)
           w == Append(enc, Head(q))
<1>1. /\ p \in Seq(Frames) /\ Len(p) = Len(q) - 1 /\ Len(q) \in Nat \ {0}
      /\ \A k \in 1..Len(p) : k + 1 \in 1..Len(q) /\ p[k] = q[k + 1]
      /\ Head(q) = q[1] /\ Head(q) \in Frames
  BY DEF Stream
<1>2. /\ w \in Seq(Frames) /\ Len(w) = Len(enc) + 1 /\ w[Len(enc) + 1] = q[1] /\ Len(enc) \in Nat
      /\ \A k \in 1..Len(enc) : w[k] = enc[k]
  BY <1>1 DEF Stream
<1> HIDE DEF p, w
<1>3. ASSUME NEW k \in 1..Len(p), p[k] # Sentinel
      PROVE /\ FrameOf(t, p[k], n)
            /\ \A l \in 1..(k - 1) : p[l] # Sentinel => Before(p[l], p[k])
            /\ \A l \in 1..Len(enc) : Before(enc[l], p[k])
            /\ q[1] # Sentinel => Before(q[1], p[k])
  <2>1. k + 1 \in 1..Len(q) /\ p[k] = q[k + 1] /\ q[k + 1] # Sentinel /\ 1 \in 1..((k + 1) - 1)
    BY <1>1, <1>3
  <2>2. ASSUME NEW l \in 1..(k - 1), p[l] # Sentinel
        PROVE  l + 1 \in 1..((k + 1) - 1) /\ p[l] = q[l + 1] /\ q[l + 1] # Sentinel
    BY <1>1, <2>2
  <2> QED
    BY <2>1, <2>2 DEF Stream
<1>4. Stream(t, p, enc, n)
  BY <1>1, <1>3 DEF Stream
<1>5. ASSUME Head(q) # Sentinel PROVE Stream(t, p, w, n)
  <2>1. /\ 1 \in 1..Len(q) /\ FrameOf(t, q[1], n) /\ \A l \in 1..Len(enc) : Before(enc[l], q[1])
    BY <1>1, <1>5 DEF Stream
  <2>2. ASSUME NEW k \in 1..Len(w)
        PROVE  FrameOf(t, w[k], n) /\ \A l \in 1..(k - 1) : Before(w[l], w[k])
    <3>1. CASE k = Len(enc) + 1
      BY <1>2, <2>1, <3>1
    <3>2. CASE k # Len(enc) + 1
      <4>1. k \in 1..Len(enc) /\ w[k] = enc[k] /\ \A l \in 1..(k - 1) : w[l] = enc[l]
        BY <1>2, <3>2
      <4> QED
        BY <4>1 DEF Stream
    <3> QED
      BY <3>1, <3>2
  <2>3. ASSUME NEW k \in 1..Len(p), p[k] # Sentinel, NEW l \in 1..Len(w) PROVE Before(w[l], p[k])
    <3>1. CASE l = Len(enc) + 1
      BY <1>1, <1>2, <1>3, <1>5, <2>3, <3>1
    <3>2. CASE l # Len(enc) + 1
      <4>1. l \in 1..Len(enc) /\ w[l] = enc[l]
        BY <1>2, <3>2
      <4> QED
        BY <1>3, <2>3, <4>1
    <3> QED
      BY <3>1, <3>2
  <2> QED
    BY <1>1, <1>2, <1>3, <2>2, <2>3 DEF Stream
<1> QED
  BY <1>4, <1>5 DEF p, w

\* A later tick bounds no fewer frames.
LEMMA StreamWider ==
  ASSUME NEW t, NEW q, NEW enc, NEW n \in Nat, NEW m \in Nat, n <= m, Stream(t, q, enc, n)
  PROVE  Stream(t, q, enc, m)
BY DEF Stream, FrameOf

Recs == [open : BOOLEAN, episode : Nat, tick : Nat, reward : Int, meta : Nat]

\* Some slots open a trace and some close theirs: each trace that closes is
\* exited, and for the first time.
LEMMA PairedStep ==
  ASSUME RecorderType, Paired, NEW N \in SUBSET Slots, NEW D \in SUBSET Slots, NEW x \in [D -> Exits],
         rec' \in [Slots -> Recs],
         \A i \in N : ~rec[i].open,  \A i \in D : rec[i].open \/ i \in N,
         \A i \in Slots : /\ rec'[i].episode = IF i \in D THEN rec[i].episode + 1 ELSE rec[i].episode
                          /\ rec'[i].open <=> i \notin D /\ (rec[i].open \/ i \in N),
         entered' = entered \cup {<<i, rec[i].episode>> : i \in N},
         exited' = exited \cup {x[i] : i \in D},
         \A i \in D : /\ x[i].trace = <<i, rec[i].episode>> /\ x[i].reward = x[i].of.reward
                      /\ x[i].of.episode = rec[i].episode
  PROVE  Paired'
<1>1. \A i \in Slots : rec[i].episode \in Nat
  BY DEF RecorderType
<1>2. \A i \in Slots : rec'[i].open => <<i, rec'[i].episode>> \in entered'
  BY DEF Paired
<1>3. entered' \subseteq Slots \X Nat
  BY <1>1 DEF Paired
<1>4. ASSUME NEW e \in exited'
      PROVE /\ e.trace \in entered' /\ e.trace[2] < rec'[e.trace[1]].episode
            /\ e.reward = e.of.reward /\ e.trace[2] = e.of.episode
  <2>1. CASE e \in exited
    <3>1. e.trace \in entered /\ e.trace[1] \in Slots /\ e.trace[2] < rec[e.trace[1]].episode /\ e.trace[2] \in Nat
      BY <2>1 DEF Paired
    <3> QED
      BY <1>1, <2>1, <3>1 DEF Paired
  <2>2. ASSUME NEW i \in D, e = x[i]
        PROVE /\ e.trace \in entered' /\ e.trace[2] < rec'[e.trace[1]].episode
              /\ e.reward = e.of.reward /\ e.trace[2] = e.of.episode
    <3>1. /\ x[i].trace = <<i, rec[i].episode>> /\ x[i].reward = x[i].of.reward
          /\ x[i].of.episode = rec[i].episode /\ i \in Slots
      OBVIOUS
    <3>2. <<i, rec[i].episode>> \in entered'
      BY <3>1 DEF Paired
    <3>3. rec'[i].episode = rec[i].episode + 1 /\ rec[i].episode \in Nat
      BY <1>1, <3>1
    <3> QED
      BY <2>2, <3>1, <3>2, <3>3
  <2> QED
    BY <1>4, <2>1, <2>2
<1>5. ASSUME NEW t \in entered'
      PROVE \/ t[2] < rec'[t[1]].episode /\ \E e \in exited' : Exited(t)' = {e}
            \/ t[2] = rec'[t[1]].episode /\ rec'[t[1]].open
  <2>1. t \in Slots \X Nat /\ t[1] \in Slots /\ t[2] \in Nat /\ t = <<t[1], t[2]>>
    BY <1>3
  <2>2. Exited(t)' = Exited(t) \cup {x[i] : i \in {j \in D : <<j, rec[j].episode>> = t}}
    <3>1. \A j \in D : x[j].trace = <<j, rec[j].episode>>
      OBVIOUS
    <3>2. Exited(t)' = {e \in exited' : e.trace = t}
      BY DEF Exited
    <3>3. ASSUME NEW j \in D, x[j].trace = t
          PROVE  x[j] \in {x[i] : i \in {k \in D : <<k, rec[k].episode>> = t}}
      BY <3>1, <3>3
    <3>4. ASSUME NEW j \in D, <<j, rec[j].episode>> = t
          PROVE  x[j].trace = t /\ x[j] \in exited'
      BY <3>1, <3>4
    <3> QED
      BY <3>2, <3>3, <3>4 DEF Exited
  <2>3. CASE t[2] < rec[t[1]].episode
    <3>1. t \in entered
      BY <1>1, <2>3
    <3>2. \A j \in D : <<j, rec[j].episode>> # t
      BY <1>1, <2>1, <2>3
    <3>3. Exited(t)' = Exited(t)
      BY <2>2, <3>2
    <3>4. PICK e \in exited : Exited(t) = {e}
      BY <2>1, <2>3, <3>1, <1>1 DEF Paired
    <3> QED
      BY <1>1, <2>1, <2>3, <3>3, <3>4
  <2>4. CASE ~(t[2] < rec[t[1]].episode)
    <3>1. t[2] = rec[t[1]].episode /\ (rec[t[1]].open \/ t[1] \in N)
      <4>1. CASE t \in entered
        BY <1>1, <2>1, <2>4, <4>1 DEF Paired
      <4>2. ASSUME NEW i \in N, t = <<i, rec[i].episode>>
            PROVE  t[2] = rec[t[1]].episode /\ t[1] \in N
        BY <4>2
      <4> QED
        BY <4>1, <4>2
    <3>2. Exited(t) = {}
      BY <2>1, <3>1, <1>1 DEF Paired, Exited
    <3>3. CASE t[1] \in D
      <4>1. {j \in D : <<j, rec[j].episode>> = t} = {t[1]}
        BY <2>1, <3>1, <3>3
      <4>2. Exited(t)' = {x[t[1]]}
        BY <2>2, <3>2, <4>1
      <4>3. x[t[1]] \in exited'
        BY <3>3
      <4>4. t[2] < rec'[t[1]].episode
        BY <1>1, <2>1, <3>1, <3>3
      <4> QED
        BY <4>2, <4>3, <4>4
    <3>4. CASE t[1] \notin D
      BY <2>1, <3>1, <3>4
    <3> QED
      BY <3>3, <3>4
  <2> QED
    BY <2>3, <2>4
<1> QED
  BY <1>2, <1>3, <1>4, <1>5 DEF Paired

\* A step of the env is recorded in the episode that every slot is in.
LEMMA RecordKeeps == RecorderInv /\ Record => RecorderInv'
<1> SUFFICES ASSUME RecorderInv, Record PROVE RecorderInv'
  OBVIOUS
<1>1. PICK d \in [Slots -> BOOLEAN], w \in [Slots -> 0 .. 1] :
       LET opened == [i \in Slots |-> [Opened(i) EXCEPT !.reward = @ + w[i]]]
           trace(i) == <<i, opened[i].episode>>
           next == StepEnv(d, w)
           frame(i) == <<i, next[i].episode, next[i].tick>>
       IN /\ world' = next
          /\ entered' = entered \cup {trace(i) : i \in {j \in Slots : ~rec[j].open}}
          /\ rec' = [i \in Slots |-> IF d[i] THEN CloseRec(opened[i]) ELSE [opened[i] EXCEPT !.tick = @ + 1]]
          /\ exited' = exited \cup
               {[Exit(i, opened[i]) EXCEPT !.of.reward = @ + w[i]] : i \in {j \in Slots : d[j]}}
          /\ queues' = [t \in Episodes |->
               IF t # trace(t[1]) THEN queues[t]
               ELSE IF d[t[1]] THEN IF opened[t[1]].tick > 0 THEN Finalize(queues[t]) ELSE queues[t]
               ELSE Submit(queues[t], frame(t[1]))]
  BY DEF Record
<1> DEFINE o == [i \in Slots |-> [Opened(i) EXCEPT !.reward = @ + w[i]]]
           D == {j \in Slots : d[j]}
           N == {j \in Slots : ~rec[j].open}
           x == [i \in D |-> [Exit(i, o[i]) EXCEPT !.of.reward = @ + w[i]]]
<1>2. steps < RecordSteps /\ steps' = steps + 1 /\ UNCHANGED <<params, encoded, dead>>
  BY DEF Record
<1>3. /\ rec \in [Slots -> Recs] /\ params.told \in Nat /\ steps \in Nat
      /\ world \in [Slots -> [episode : Nat, tick : Nat, reward : Int]]
  BY DEF RecorderInv, RecorderType, Recs
<1>4. ASSUME NEW i \in Slots
      PROVE /\ world[i].episode = rec[i].episode /\ world[i].tick = rec[i].tick
            /\ world[i].reward = rec[i].reward
            /\ ~rec[i].open => rec[i].tick = 0 /\ rec[i].reward = 0
  BY <1>2, <1>3, RecorderAssumption DEF RecorderInv, Aligned
<1>5. ASSUME NEW i \in Slots
      PROVE /\ o[i] \in Recs /\ o[i].open /\ o[i].episode = rec[i].episode /\ o[i].tick = rec[i].tick
            /\ o[i].reward = world[i].reward + w[i]
  <2>1. Opened(i) \in Recs /\ Opened(i).open /\ Opened(i).episode = rec[i].episode
        /\ Opened(i).tick = rec[i].tick /\ Opened(i).reward = world[i].reward
    <3>1. CASE rec[i].open
      BY <1>3, <1>4, <3>1 DEF Opened, Recs
    <3>2. CASE ~rec[i].open
      <4>1. Opened(i) = [rec[i] EXCEPT !.open = TRUE, !.reward = 0, !.meta = params.told]
        BY <3>2 DEF Opened
      <4>2. rec[i] \in Recs /\ rec[i].reward = 0 /\ world[i].reward = 0
        BY <1>3, <1>4, <3>2
      <4> QED
        BY <1>3, <4>1, <4>2 DEF Recs
    <3> QED
      BY <3>1, <3>2
  <2>2. o[i] = [Opened(i) EXCEPT !.reward = @ + w[i]]
    OBVIOUS
  <2> HIDE DEF o
  <2> QED
    BY <1>3, <2>1, <2>2 DEF Recs
<1>6. ASSUME NEW i \in Slots
      PROVE /\ world'[i] \in [episode : Nat, tick : Nat, reward : Int]
            /\ world'[i].episode = IF d[i] THEN world[i].episode + 1 ELSE world[i].episode
            /\ world'[i].tick = IF d[i] THEN 0 ELSE world[i].tick + 1
            /\ world'[i].reward = IF d[i] THEN 0 ELSE world[i].reward + w[i]
  <2>1. world'[i] = IF d[i] THEN [episode |-> world[i].episode + 1, tick |-> 0, reward |-> 0]
                    ELSE [world[i] EXCEPT !.tick = @ + 1, !.reward = @ + w[i]]
    BY <1>1 DEF StepEnv
  <2>2. CASE d[i]
    BY <1>3, <2>1, <2>2
  <2>3. CASE ~d[i]
    <3>1. w[i] \in Int
      OBVIOUS
    <3>2. world[i] \in [episode : Nat, tick : Nat, reward : Int]
      BY <1>3
    <3>3. world'[i] = [episode |-> world[i].episode, tick |-> world[i].tick + 1,
                       reward |-> world[i].reward + w[i]]
      BY <2>1, <2>3, <3>2
    <3> HIDE DEF o, x, D, N
    <3>4. world'[i].reward = world[i].reward + w[i] /\ world'[i].tick = world[i].tick + 1
      BY <3>3
    <3> QED
      BY <2>3, <3>1, <3>2, <3>3, <3>4
  <2> QED
    BY <2>2, <2>3
<1>7. ASSUME NEW i \in Slots
      PROVE /\ rec'[i] \in Recs
            /\ rec'[i].open <=> ~d[i]
            /\ rec'[i].episode = IF d[i] THEN rec[i].episode + 1 ELSE rec[i].episode
            /\ rec'[i].tick = IF d[i] THEN 0 ELSE rec[i].tick + 1
            /\ rec'[i].reward = IF d[i] THEN 0 ELSE world[i].reward + w[i]
  <2>1. rec'[i] = IF d[i] THEN CloseRec(o[i]) ELSE [o[i] EXCEPT !.tick = @ + 1]
    BY <1>1
  <2> HIDE DEF o
  <2>2. CASE d[i]
    <3>1. rec'[i] = [open |-> FALSE, episode |-> rec[i].episode + 1, tick |-> 0, reward |-> 0, meta |-> 0]
      BY <1>5, <2>1, <2>2 DEF CloseRec, Closed
    <3> QED
      BY <1>3, <2>2, <3>1 DEF Recs
  <2>3. CASE ~d[i]
    BY <1>5, <2>1, <2>3 DEF Recs
  <2> QED
    BY <2>2, <2>3
<1>8. ASSUME NEW i \in D
      PROVE /\ x[i] \in Exits /\ x[i].trace = <<i, rec[i].episode>> /\ x[i].reward = x[i].of.reward
            /\ x[i].of.episode = rec[i].episode
  <2>1. x[i] = [Exit(i, o[i]) EXCEPT !.of.reward = @ + w[i]]
    OBVIOUS
  <2>2. Exit(i, o[i]) = [trace |-> <<i, rec[i].episode>>, reward |-> world[i].reward + w[i],
                         meta |-> o[i].meta, of |-> world[i]]
    BY <1>5 DEF Exit
  <2>3. [Exit(i, o[i]) EXCEPT !.of.reward = @ + w[i]] =
          [trace |-> <<i, rec[i].episode>>, reward |-> world[i].reward + w[i], meta |-> o[i].meta,
           of |-> [world[i] EXCEPT !.reward = @ + w[i]]]
    BY <2>2
  <2>4. o[i].meta \in Nat /\ rec[i].episode \in Nat
    BY <1>3, <1>5 DEF Recs
  <2> HIDE DEF x, o
  <2> QED
    BY <1>3, <1>4, <2>1, <2>3, <2>4 DEF Exits
<1>9. rec' \in [Slots -> Recs]
  <2>1. \A i \in Slots : rec'[i] \in Recs
    BY <1>7
  <2>2. DOMAIN rec' = Slots /\ rec' = [i \in DOMAIN rec' |-> rec'[i]]
    BY <1>1
  <2> QED
    BY <2>1, <2>2
<1>10. Paired'
  <2>1. exited' = exited \cup {x[i] : i \in D}
    BY <1>1
  <2>2. entered' = entered \cup {<<i, rec[i].episode>> : i \in N}
    <3>1. entered' = entered \cup {<<i, o[i].episode>> : i \in N}
      BY <1>1
    <3>2. \A i \in N : o[i].episode = rec[i].episode
      BY <1>5
    <3> HIDE DEF o
    <3> QED
      BY <3>1, <3>2
  <2>3. x \in [D -> Exits]
    BY <1>8
  <2>4. \A i \in Slots : /\ rec'[i].episode = IF i \in D THEN rec[i].episode + 1 ELSE rec[i].episode
                         /\ rec'[i].open <=> i \notin D /\ (rec[i].open \/ i \in N)
    BY <1>7
  <2>5. \A i \in D : /\ x[i].trace = <<i, rec[i].episode>> /\ x[i].reward = x[i].of.reward
                     /\ x[i].of.episode = rec[i].episode
    BY <1>8
  <2>6. /\ N \in SUBSET Slots /\ D \in SUBSET Slots
        /\ \A i \in N : ~rec[i].open
        /\ \A i \in D : rec[i].open \/ i \in N
    OBVIOUS
  <2> HIDE DEF x, o, N, D
  <2>7. RecorderType /\ Paired
    BY DEF RecorderInv
  <2> QED
    BY <1>9, <2>1, <2>2, <2>3, <2>4, <2>5, <2>6, <2>7, PairedStep, ZenonT(60)
<1>11. Aligned'
  BY <1>2, <1>3, <1>4, <1>6, <1>7 DEF Aligned
<1>12. ASSUME NEW t \in Episodes
       PROVE  \E n \in Nat : /\ Stream(t, queues'[t], encoded[t], n)
                             /\ rec'[t[1]].episode <= t[2] => n <= Top(rec'[t[1]], t)
  <2>1. t \in Slots \X Nat /\ t[1] \in Slots /\ t[2] \in Nat /\ t = <<t[1], t[2]>>
    BY RecorderAssumption DEF Episodes
  <2>2. PICK n \in Nat : Stream(t, queues[t], encoded[t], n) /\ (rec[t[1]].episode <= t[2] => n <= Top(rec[t[1]], t))
    BY DEF RecorderInv, Framed
  <2>3. /\ rec[t[1]].episode \in Nat /\ rec[t[1]].tick \in Nat /\ rec'[t[1]].tick \in Nat
        /\ rec'[t[1]].episode = IF d[t[1]] THEN rec[t[1]].episode + 1 ELSE rec[t[1]].episode
        /\ ~d[t[1]] => rec'[t[1]].tick = rec[t[1]].tick + 1
    BY <1>3, <1>7, <1>9, <2>1 DEF Recs
  <2>4. CASE t[2] # rec[t[1]].episode
    <3>1. t # <<t[1], o[t[1]].episode>>
      <4>1. o[t[1]].episode = rec[t[1]].episode
        BY <1>5, <2>1
      <4> HIDE DEF o
      <4> QED
        BY <2>1, <2>4, <4>1
    <3>2. queues'[t] = queues[t]
      BY <1>1, <3>1
    <3> QED
      BY <2>1, <2>2, <2>3, <2>4, <3>2 DEF Top
  <2>5. CASE t[2] = rec[t[1]].episode /\ d[t[1]]
    <3>1. queues'[t] \in {queues[t], Finalize(queues[t])}
      BY <1>1, <1>5, <2>1, <2>5
    <3> QED
      BY <2>1, <2>2, <2>3, <2>5, <3>1, StreamFinalize
  <2>6. CASE t[2] = rec[t[1]].episode /\ ~d[t[1]]
    <3>1. t = <<t[1], o[t[1]].episode>>
      BY <1>5, <2>1, <2>6
    <3>2. queues'[t] = Submit(queues[t], <<t[1], world'[t[1]].episode, world'[t[1]].tick>>)
      BY <1>1, <2>6, <3>1
    <3>3. world'[t[1]].episode = t[2] /\ world'[t[1]].tick = rec[t[1]].tick + 1
      BY <1>4, <1>6, <2>1, <2>6
    <3>4. Stream(t, queues[t], encoded[t], rec[t[1]].tick)
      BY <2>1, <2>2, <2>3, <2>6, StreamWider DEF Top
    <3>5. Stream(t, queues'[t], encoded[t], rec[t[1]].tick + 1)
      BY <2>1, <2>3, <3>2, <3>3, <3>4, StreamSubmit
    <3> QED
      BY <2>3, <2>6, <3>5 DEF Top
  <2> QED
    BY <2>4, <2>5, <2>6
<1>13. Framed'
  BY <1>2, <1>12 DEF Framed
<1>14. RecorderType'
  <2>1. world' \in [Slots -> [episode : Nat, tick : Nat, reward : Int]]
    <3>1. \A i \in Slots : world'[i] \in [episode : Nat, tick : Nat, reward : Int]
      BY <1>6
    <3>2. DOMAIN world' = Slots /\ world' = [i \in DOMAIN world' |-> world'[i]]
      BY <1>1 DEF StepEnv
    <3> QED
      BY <3>1, <3>2
  <2>2. exited' \subseteq Exits
    <3>1. exited' = exited \cup {x[i] : i \in D}
      BY <1>1
    <3> HIDE DEF x
    <3> QED
      BY <1>8, <3>1 DEF RecorderInv, RecorderType
  <2>3. queues' \in [Episodes -> Seq(Frames)]
    <3>1. \A t \in Episodes : queues'[t] \in Seq(Frames)
      BY <1>12 DEF Stream
    <3>2. DOMAIN queues' = Episodes /\ queues' = [t \in DOMAIN queues' |-> queues'[t]]
      BY <1>1
    <3> QED
      BY <3>1, <3>2
  <2> QED
    BY <1>2, <1>9, <2>1, <2>2, <2>3 DEF RecorderInv, RecorderType, Recs
<1> QED
  BY <1>10, <1>11, <1>13, <1>14 DEF RecorderInv

\* A reset of the env, or its end, closes the traces that are open.
LEMMA CloseSlotsKeeps ==
  ASSUME RecorderInv, steps <= RecordSteps, CloseSlots, UNCHANGED <<entered, encoded>>
  PROVE  /\ Paired' /\ Framed' /\ rec' \in [Slots -> Recs] /\ exited' \subseteq Exits
         /\ queues' \in [Episodes -> Seq(Frames)]
         /\ \A i \in Slots :
              IF rec[i].open THEN ~rec'[i].open /\ rec'[i].episode = rec[i].episode + 1 /\ rec'[i].tick = 0 /\ rec'[i].reward = 0
              ELSE rec'[i] = rec[i]
<1> DEFINE D == {j \in Slots : rec[j].open}
           N == {}
           x == [i \in D |-> Exit(i, rec[i])]
<1>1. /\ exited' = exited \cup {x[i] : i \in D}
      /\ rec' = [i \in Slots |-> IF rec[i].open THEN CloseRec(rec[i]) ELSE rec[i]]
      /\ queues' = [t \in Episodes |-> IF rec[t[1]].open /\ rec[t[1]].episode = t[2] /\ rec[t[1]].tick > 0
                                       THEN Finalize(queues[t]) ELSE queues[t]]
  BY DEF CloseSlots
<1>2. /\ rec \in [Slots -> Recs] /\ steps \in Nat
      /\ world \in [Slots -> [episode : Nat, tick : Nat, reward : Int]]
      /\ \A i \in Slots : /\ world[i].episode = rec[i].episode /\ world[i].tick = rec[i].tick
                          /\ world[i].reward = rec[i].reward
  BY DEF RecorderInv, RecorderType, Recs, Aligned
<1>3. ASSUME NEW i \in Slots
      PROVE /\ rec'[i] \in Recs
            /\ IF rec[i].open THEN ~rec'[i].open /\ rec'[i].episode = rec[i].episode + 1 /\ rec'[i].tick = 0 /\ rec'[i].reward = 0
               ELSE rec'[i] = rec[i]
  <2>1. CASE rec[i].open
    <3>1. rec'[i] = [open |-> FALSE, episode |-> rec[i].episode + 1, tick |-> 0, reward |-> 0, meta |-> 0]
      BY <1>1, <2>1 DEF CloseRec, Closed
    <3> QED
      BY <1>2, <2>1, <3>1 DEF Recs
  <2>2. CASE ~rec[i].open
    BY <1>1, <1>2, <2>2
  <2> QED
    BY <2>1, <2>2
<1>4. rec' \in [Slots -> Recs]
  BY <1>1, <1>3
<1>5. ASSUME NEW i \in D
      PROVE /\ x[i] \in Exits /\ x[i].trace = <<i, rec[i].episode>> /\ x[i].reward = x[i].of.reward
            /\ x[i].of.episode = rec[i].episode
  <2>1. x[i] = [trace |-> <<i, rec[i].episode>>, reward |-> rec[i].reward, meta |-> rec[i].meta, of |-> world[i]]
    BY DEF Exit
  <2> HIDE DEF x
  <2> QED
    BY <1>2, <2>1 DEF Exits, Recs
<1>6. Paired'
  <2>1. x \in [D -> Exits]
    BY <1>5
  <2>2. /\ D \in SUBSET Slots /\ N \in SUBSET Slots
        /\ \A i \in N : ~rec[i].open
        /\ \A i \in D : rec[i].open \/ i \in N
    OBVIOUS
  <2>3. \A i \in Slots : /\ rec'[i].episode = IF i \in D THEN rec[i].episode + 1 ELSE rec[i].episode
                         /\ rec'[i].open <=> i \notin D /\ (rec[i].open \/ i \in N)
    BY <1>3
  <2>4. \A i \in D : /\ x[i].trace = <<i, rec[i].episode>> /\ x[i].reward = x[i].of.reward
                     /\ x[i].of.episode = rec[i].episode
    BY <1>5
  <2>5. exited' = exited \cup {x[i] : i \in D}
    BY <1>1
  <2>6. entered' = entered \cup {<<i, rec[i].episode>> : i \in N}
    OBVIOUS
  <2> HIDE DEF x, D, N
  <2>7. RecorderType /\ Paired
    BY DEF RecorderInv
  <2> QED
    BY <1>4, <2>1, <2>2, <2>3, <2>4, <2>5, <2>6, <2>7, PairedStep, ZenonT(60)
<1>7. ASSUME NEW t \in Episodes
      PROVE  \E n \in Nat : /\ Stream(t, queues'[t], encoded[t], n)
                            /\ rec'[t[1]].episode <= t[2] => n <= Top(rec'[t[1]], t)
  <2>1. t \in Slots \X Nat /\ t[1] \in Slots /\ t[2] \in Nat
    BY RecorderAssumption DEF Episodes
  <2>2. PICK n \in Nat : Stream(t, queues[t], encoded[t], n) /\ (rec[t[1]].episode <= t[2] => n <= Top(rec[t[1]], t))
    BY DEF RecorderInv, Framed
  <2>3. queues'[t] \in {queues[t], Finalize(queues[t])}
    BY <1>1
  <2>4. Stream(t, queues'[t], encoded[t], n)
    BY <2>1, <2>2, <2>3, StreamFinalize
  <2>5. rec[t[1]] \in Recs /\ rec'[t[1]] \in Recs
    BY <1>2, <1>3, <2>1
  <2>6. rec'[t[1]].episode <= t[2] => n <= Top(rec'[t[1]], t)
    BY <1>3, <2>1, <2>2, <2>5 DEF Top, Recs
  <2> QED
    BY <2>4, <2>6
<1>8. exited' \subseteq Exits
  <2> HIDE DEF x
  <2> QED
    BY <1>1, <1>5 DEF RecorderInv, RecorderType
<1>9. queues' \in [Episodes -> Seq(Frames)]
  BY <1>1, <1>7 DEF Stream
<1> QED
  BY <1>3, <1>4, <1>6, <1>7, <1>8, <1>9 DEF Framed

\* The wrapped env is reset: the open traces end, and no frame is of a new one yet.
LEMMA ResetEnvKeeps == RecorderInv /\ ResetEnv => RecorderInv'
<1> SUFFICES ASSUME RecorderInv, ResetEnv PROVE RecorderInv'
  OBVIOUS
<1>1. /\ steps < RecordSteps /\ steps' = steps + 1 /\ CloseSlots /\ UNCHANGED <<entered, encoded, dead>>
      /\ params' \in [told : Nat, real : Nat]
      /\ world' = [i \in Slots |-> IF rec[i].open \/ world[i].tick > 0
                                   THEN [episode |-> world[i].episode + 1, tick |-> 0, reward |-> 0]
                                   ELSE world[i]]
  BY DEF ResetEnv
<1>2. steps \in Nat /\ steps <= RecordSteps /\ steps + 1 <= RecordSteps
  BY <1>1, RecorderAssumption DEF RecorderInv, RecorderType
<1>3. /\ Paired' /\ Framed' /\ rec' \in [Slots -> Recs] /\ exited' \subseteq Exits
      /\ queues' \in [Episodes -> Seq(Frames)]
      /\ \A i \in Slots :
           IF rec[i].open THEN ~rec'[i].open /\ rec'[i].episode = rec[i].episode + 1 /\ rec'[i].tick = 0 /\ rec'[i].reward = 0
           ELSE rec'[i] = rec[i]
  BY <1>1, <1>2, CloseSlotsKeeps
<1>4. ASSUME NEW i \in Slots
      PROVE /\ world'[i] \in [episode : Nat, tick : Nat, reward : Int]
            /\ world'[i].episode = rec'[i].episode /\ world'[i].tick = rec'[i].tick
            /\ world'[i].reward = rec'[i].reward
            /\ ~rec'[i].open => rec'[i].tick = 0 /\ rec'[i].reward = 0
  <2>1. /\ world[i] \in [episode : Nat, tick : Nat, reward : Int]
        /\ world[i].episode = rec[i].episode /\ world[i].tick = rec[i].tick
        /\ world[i].reward = rec[i].reward
        /\ ~rec[i].open => rec[i].tick = 0 /\ rec[i].reward = 0
    BY <1>2 DEF RecorderInv, RecorderType, Aligned
  <2>2. CASE rec[i].open
    <3>1. world'[i] = [episode |-> world[i].episode + 1, tick |-> 0, reward |-> 0]
      BY <1>1, <2>2
    <3> QED
      BY <1>3, <2>1, <2>2, <3>1
  <2>3. CASE ~rec[i].open
    <3>1. world'[i] = world[i]
      BY <1>1, <2>1, <2>3
    <3> QED
      BY <1>3, <2>1, <2>3, <3>1
  <2> QED
    BY <2>2, <2>3
<1>5. RecorderType' /\ Aligned'
  BY <1>1, <1>2, <1>3, <1>4 DEF RecorderInv, RecorderType, Aligned, Recs
<1> QED
  BY <1>3, <1>5 DEF RecorderInv

\* Once closed, nothing is recorded, and a lagging encoder goes on.
LEMMA CloseEnvKeeps == RecorderInv /\ CloseEnv => RecorderInv'
<1> SUFFICES ASSUME RecorderInv, CloseEnv PROVE RecorderInv'
  OBVIOUS
<1>1. /\ steps <= RecordSteps /\ steps' = RecordSteps + 1 /\ CloseSlots
      /\ UNCHANGED <<world, entered, params, encoded, dead>>
  BY DEF CloseEnv
<1>2. /\ Paired' /\ Framed' /\ rec' \in [Slots -> Recs] /\ exited' \subseteq Exits
      /\ queues' \in [Episodes -> Seq(Frames)]
  BY <1>1, CloseSlotsKeeps
<1>3. RecorderType' /\ Aligned'
  BY <1>1, <1>2, RecorderAssumption DEF RecorderInv, RecorderType, Aligned, Recs
<1> QED
  BY <1>2, <1>3 DEF RecorderInv

\* An encoder goes on, or dies with what it has.
LEMMA EncodeKeeps == ASSUME RecorderInv, NEW t \in Episodes, Encode(t) PROVE RecorderInv'
<1>1. /\ queues[t] # <<>> /\ queues' = [queues EXCEPT ![t] = Tail(@)]
      /\ UNCHANGED <<world, steps, rec, entered, exited, params>>
      /\ \/ UNCHANGED encoded
         \/ Head(queues[t]) # Sentinel /\ encoded' = [encoded EXCEPT ![t] = Append(@, Head(queues[t]))]
  BY DEF Encode
<1>2. queues \in [Episodes -> Seq(Frames)] /\ encoded \in [Episodes -> Seq(Frames)]
  BY DEF RecorderInv, RecorderType
<1>3. t \in Slots \X Nat
  BY RecorderAssumption DEF Episodes
<1>4. ASSUME NEW n \in Nat, Stream(t, queues[t], encoded[t], n)
      PROVE  Stream(t, queues'[t], encoded'[t], n)
  <2>1. queues'[t] = Tail(queues[t])
    BY <1>1, <1>2
  <2>2. \/ encoded'[t] = encoded[t]
        \/ Head(queues[t]) # Sentinel /\ encoded'[t] = Append(encoded[t], Head(queues[t]))
    BY <1>1, <1>2
  <2>3. /\ Stream(t, Tail(queues[t]), encoded[t], n)
        /\ Head(queues[t]) # Sentinel =>
             Stream(t, Tail(queues[t]), Append(encoded[t], Head(queues[t])), n)
    BY <1>1, <1>3, <1>4, StreamEncode
  <2> QED
    BY <2>1, <2>2, <2>3
<1>5. \A u \in Episodes \ {t} : queues'[u] = queues[u] /\ encoded'[u] = encoded[u]
  BY <1>1, <1>2
<1>6. Framed'
  BY <1>1, <1>4, <1>5 DEF RecorderInv, Framed
<1>7. \E n \in Nat : Stream(t, queues'[t], encoded'[t], n)
  BY <1>6 DEF Framed
<1>8. queues' \in [Episodes -> Seq(Frames)] /\ encoded' \in [Episodes -> Seq(Frames)]
  <2>1. queues'[t] \in Seq(Frames) /\ encoded'[t] \in Seq(Frames)
    BY <1>7 DEF Stream
  <2> QED
    BY <1>1, <1>2, <1>5, <2>1
<1>9. RecorderType' /\ Aligned' /\ Paired'
  BY <1>1, <1>8 DEF RecorderInv, RecorderType, Aligned, Paired, Exited
<1> QED
  BY <1>6, <1>9 DEF RecorderInv

\* No step of the recorder breaks it.
LEMMA RecorderStep == RecorderInv /\ [NextRecorder]_recorderVars => RecorderInv'
<1>1. RecorderInv /\ UNCHANGED recorderVars => RecorderInv'
  BY DEF recorderVars, RecorderInv, RecorderType, Aligned, Paired, Framed, Exited
<1> QED
  BY <1>1, RecordKeeps, ResetEnvKeeps, CloseEnvKeeps, EncodeKeeps DEF NextRecorder

\* Nothing is recorded before the first episode.
LEMMA RecorderInit == InitRecorder => RecorderInv
<1> SUFFICES ASSUME InitRecorder PROVE RecorderInv
  OBVIOUS
<1>1. RecorderType /\ Aligned /\ Paired
  BY DEF InitRecorder, RecorderType, Aligned, Paired, Closed
<1>2. Framed
  <2>1. \A t \in Episodes : Stream(t, <<>>, <<>>, 0)
    BY DEF Stream
  <2>2. ASSUME NEW t \in Episodes PROVE 0 <= Top(rec[t[1]], t)
    BY RecorderAssumption DEF InitRecorder, Top, Closed, Episodes
  <2> QED
    BY <2>1, <2>2 DEF InitRecorder, Framed
<1> QED
  BY <1>1, <1>2 DEF RecorderInv

\* A slot is graded by its own first episode, and a trace is about one: its
\* frames are of that episode and in order, its reward the episode's, and it is
\* exited once (hud/environment/robot/gym.py, hud/telemetry/robot.py).
THEOREM EpisodesApartAlways ==
  /\ InitGym /\ [][NextGym]_gymVars
  /\ InitRecorder /\ [][NextRecorder]_recorderVars
  => []EpisodesApart
<1>1. InitGym => GymInv
  <2>1. NoTruth \in [reward : Int, over : BOOLEAN, success : BOOLEAN]
    BY DEF NoTruth
  <2>2. InitGym => /\ done \in [Envs -> BOOLEAN] /\ success \in [Envs -> BOOLEAN] /\ reward \in [Envs -> Int]
                   /\ truth \in [Envs -> [reward : Int, over : BOOLEAN, success : BOOLEAN]]
    BY <2>1 DEF InitGym
  <2>3. InitGym => seen = FALSE /\ fresh = FALSE
    BY DEF InitGym
  <2> QED
    BY <2>2, <2>3 DEF GymInv
<1>2. GymInv => GradedByFirst
  BY DEF GymInv, GradedByFirst, Score
<1>3. RecorderInv => TraceIsEpisode
  <2> SUFFICES ASSUME RecorderInv PROVE TraceIsEpisode
    OBVIOUS
  <2>1. ASSUME NEW t \in Episodes, NEW k \in DOMAIN encoded[t]
        PROVE  LET f == encoded[t][k] IN
                 /\ <<f[1], f[2]>> = t
                 /\ k > 1 => encoded[t][k - 1][3] < f[3]
    <3>1. PICK n \in Nat : Stream(t, queues[t], encoded[t], n)
      BY DEF RecorderInv, Framed
    <3>2. t = <<t[1], t[2]>> /\ k \in 1..Len(encoded[t])
      BY <3>1 DEF Stream, Episodes
    <3>3. FrameOf(t, encoded[t][k], n) /\ (k > 1 => Before(encoded[t][k - 1], encoded[t][k]))
      BY <3>1, <3>2 DEF Stream
    <3> QED
      BY <3>2, <3>3 DEF FrameOf, Before
  <2> QED
    BY <2>1 DEF RecorderInv, Paired, TraceIsEpisode
<1>4. RecorderInv => TracesPaired
  <2> SUFFICES ASSUME RecorderInv PROVE TracesPaired
    OBVIOUS
  <2>1. ASSUME NEW t \in entered
        PROVE  Cardinality(Exited(t)) = IF rec[t[1]].open /\ rec[t[1]].episode = t[2] THEN 0 ELSE 1
    <3>1. t[1] \in Slots /\ t[2] \in Nat /\ rec[t[1]].episode \in Nat
      BY DEF RecorderInv, Paired, RecorderType
    <3>2. CASE t[2] < rec[t[1]].episode
      <4>1. PICK e \in exited : Exited(t) = {e}
        BY <3>1, <3>2 DEF RecorderInv, Paired
      <4> QED
        BY <3>1, <3>2, <4>1, FS_Singleton
    <3>3. CASE ~(t[2] < rec[t[1]].episode)
      <4>1. t[2] = rec[t[1]].episode /\ rec[t[1]].open
        BY <3>3 DEF RecorderInv, Paired
      <4>2. Exited(t) = {}
        BY <3>1, <3>3 DEF RecorderInv, Paired, Exited
      <4> QED
        BY <4>1, <4>2, FS_EmptySet
    <3> QED
      BY <3>2, <3>3
  <2> QED
    BY <2>1 DEF RecorderInv, Paired, TracesPaired
<1> QED
  BY <1>1, <1>2, <1>3, <1>4, GymStep, RecorderInit, RecorderStep, PTL DEF EpisodesApart

(***************************************************************************)
(* The loop of a tool agent.                                                *)
(***************************************************************************)

CallIds == Nat \X Nat
Items == [role : {"user", "note", "model", "result", "shown"}, calls : Seq(CallIds)]

\* What Complete says of the item at i.
Answers(s, i) ==
  s[i].role = "model" =>
    \A k \in 1..Len(s[i].calls) : \E p \in (i + 1)..Len(s) :
      s[p] = Result(s[i].calls[k]) /\ Between(s, i, p) = k
Behind(s, i) == s[i].role = "shown" => i > 1 /\ s[i - 1].role = "result"

\* The model spoke last at j, d of its calls are answered, and so are all others.
Answering(s, ids, d, j) ==
  /\ s[j] = Says(ids) /\ Between(s, j, Len(s)) = d
  /\ \A i \in (j + 1)..Len(s) : s[i].role # "model"
  /\ \A k \in 1..d : \E p \in (j + 1)..Len(s) : s[p] = Result(ids[k]) /\ Between(s, j, p) = k
  /\ \A i \in 1..Len(s) : Behind(s, i) /\ (i # j => Answers(s, i))

\* The model spoke and its calls are answered but for the rest of them; every
\* other call is answered.
Owing(s, ids, rest) ==
  LET d == Len(ids) - Len(rest)
  IN /\ ids \in Seq(CallIds) /\ rest \in Seq(CallIds) /\ d >= 0
     /\ \A k \in 1..Len(rest) : rest[k] = ids[d + k]
     /\ \E j \in 1..Len(s) : Answering(s, ids, d, j)

\* What the model has been shown and will be: the OpenAI agent has sent all up
\* to its cursor.
Seen(h) == IF provider = "openai" THEN chain \o SubSeq(h, cursor + 1, Len(h)) ELSE h
View == Seen(history)

Steps == [error : BOOLEAN, calls : Seq(CallIds), cutShort : BOOLEAN,
          stop : {"none", "malformed_tool_call"}, bad : BOOLEAN]

LoopType ==
  /\ turn \in Nat /\ history \in Seq(Items) /\ chain \in Seq(Items) /\ cont \in Seq(Items)
  /\ cursor \in Nat /\ cursor <= Len(history) /\ failures \in Nat
  /\ pending \in Seq(CallIds)
  /\ step \in Steps
  /\ attempt \in [json : Nat, stream : Nat]

Speaking ==
  /\ pc \in {"sample", "request"} => Complete(View)
  /\ pc = "after" => IF step.calls = <<>> THEN Complete(View) ELSE Owing(View, step.calls, step.calls)
  /\ pc = "dispatch" => /\ step.calls # <<>> /\ ~step.error /\ failures < SSHLimit
                        /\ Owing(View, step.calls, pending)
  /\ pc \in {"sample", "request", "after"} => failures < SSHLimit

Continuing == Len(cont) <= Len(history) /\ \A k \in 1..Len(cont) : cont[k] = history[k]

LoopInv == LoopType /\ Speaking /\ Continuing /\ LoopVerdict

\* An item at the end changes nothing of what stands between those before it,
\* and counts after each of them unless it is one that stands behind a result.
LEMMA BetweenAppend ==
  ASSUME NEW s \in Seq(Items), NEW x \in Items, NEW i \in 1..Len(s)
  PROVE  /\ \A p \in 1..Len(s) : Between(Append(s, x), i, p) = Between(s, i, p)
         /\ Between(s, i, Len(s)) \in Nat
         /\ Between(Append(s, x), i, Len(s) + 1)
              = Between(s, i, Len(s)) + (IF x.role = "shown" THEN 0 ELSE 1)
<1> DEFINE r == Append(s, x)
           n == Len(s)
           In(t, p) == {j \in (i + 1)..p : t[j].role # "shown"}
<1>1. n \in Nat /\ r[n + 1] = x /\ \A k \in 1..n : r[k] = s[k]
  OBVIOUS
<1> HIDE DEF r, n
<1>2. ASSUME NEW p \in 1..n PROVE In(r, p) = In(s, p)
  <2>1. \A j \in (i + 1)..p : r[j] = s[j]
    BY <1>1, <1>2 DEF n
  <2> QED
    BY <2>1
<1>3. IsFiniteSet(In(s, n)) /\ Cardinality(In(s, n)) \in Nat
  <2>1. IsFiniteSet((i + 1)..n)
    BY <1>1, FS_Interval DEF n
  <2>2. In(s, n) \subseteq (i + 1)..n
    OBVIOUS
  <2>3. IsFiniteSet(In(s, n))
    BY <2>1, <2>2, FS_Subset
  <2> QED
    BY <2>3, FS_CardinalityType
<1>4. Cardinality(In(r, n + 1)) = Cardinality(In(s, n)) + (IF x.role = "shown" THEN 0 ELSE 1)
  <2>1. n \in 1..n /\ In(r, n) = In(s, n)
    BY <1>1, <1>2 DEF n
  <2>2. (i + 1)..(n + 1) = ((i + 1)..n) \cup {n + 1} /\ n + 1 \notin (i + 1)..n
    BY <1>1 DEF n
  <2>3. CASE x.role = "shown"
    <3>1. In(r, n + 1) = In(s, n)
      BY <1>1, <2>1, <2>2, <2>3
    <3> HIDE DEF In
    <3> QED
      BY <1>3, <2>3, <3>1
  <2>4. CASE x.role # "shown"
    <3>1. In(r, n + 1) = In(s, n) \cup {n + 1} /\ n + 1 \notin In(s, n)
      BY <1>1, <2>1, <2>2, <2>4
    <3> QED
      BY <1>3, <2>4, <3>1, FS_AddElement
  <2> QED
    BY <2>3, <2>4
<1> QED
  BY <1>2, <1>3, <1>4 DEF Between, r, n

\* What was answered stays answered, and what stands behind a result stays there.
LEMMA AnswersStay ==
  ASSUME NEW s \in Seq(Items), NEW x \in Items, NEW i \in 1..Len(s), Behind(s, i)
  PROVE  /\ Append(s, x)[i] = s[i] /\ Behind(Append(s, x), i)
         /\ Answers(s, i) => Answers(Append(s, x), i)
<1> DEFINE r == Append(s, x)
           n == Len(s)
<1>1. n \in Nat /\ Len(r) = n + 1 /\ \A k \in 1..n : r[k] = s[k]
  OBVIOUS
<1>2. \A p \in 1..n : Between(r, i, p) = Between(s, i, p)
  BY BetweenAppend
<1> HIDE DEF r, n
<1>3. r[i] = s[i] /\ i \in 1..n
  BY <1>1 DEF n
<1>4. Behind(r, i)
  <2>1. i > 1 => i - 1 \in 1..n
    BY <1>1, <1>3
  <2> QED
    BY <1>1, <1>3, <2>1 DEF Behind
<1>5. ASSUME Answers(s, i) PROVE Answers(r, i)
  <2> SUFFICES ASSUME s[i].role = "model", NEW k \in 1..Len(s[i].calls)
               PROVE  \E p \in (i + 1)..Len(r) : r[p] = Result(s[i].calls[k]) /\ Between(r, i, p) = k
    BY <1>3 DEF Answers
  <2>1. PICK p \in (i + 1)..n : s[p] = Result(s[i].calls[k]) /\ Between(s, i, p) = k
    BY <1>5 DEF Answers, n
  <2>2. p \in 1..n /\ p \in (i + 1)..Len(r)
    BY <1>1, <1>3
  <2> QED
    BY <1>1, <1>2, <2>1, <2>2
<1> QED
  BY <1>3, <1>4, <1>5 DEF r

\* Complete, of one item after another.
LEMMA CompleteIs ==
  ASSUME NEW s
  PROVE  Complete(s) <=> \A i \in 1..Len(s) : Answers(s, i) /\ Behind(s, i)
BY DEF Complete, Answers, Behind

\* A history in which all is answered stays so when somebody else speaks.
LEMMA CompleteAppend ==
  ASSUME NEW s \in Seq(Items), Complete(s), NEW x \in Items,
         x.role # "model" \/ x.calls = <<>>, x.role # "shown"
  PROVE  Complete(Append(s, x))
<1> DEFINE r == Append(s, x)
<1>1. /\ Len(r) = Len(s) + 1 /\ Len(s) \in Nat /\ r[Len(s) + 1] = x
      /\ \A k \in 1..Len(s) : r[k] = s[k]
  OBVIOUS
<1>2. \A i \in 1..Len(s) : Answers(r, i) /\ Behind(r, i)
  BY CompleteIs, AnswersStay
<1> HIDE DEF r
<1>3. Answers(r, Len(s) + 1) /\ Behind(r, Len(s) + 1)
  <2>1. x.calls = <<>> => 1..Len(x.calls) = {}
    OBVIOUS
  <2> QED
    BY <1>1, <2>1 DEF Answers, Behind
<1>4. 1..Len(r) = (1..Len(s)) \cup {Len(s) + 1}
  BY <1>1
<1>5. Complete(r)
  BY <1>2, <1>3, <1>4, CompleteIs
<1> QED
  BY <1>5 DEF r

\* The model speaks: it is owed an answer to each of its calls.
LEMMA SaysOwes ==
  ASSUME NEW s \in Seq(Items), Complete(s), NEW ids \in Seq(CallIds)
  PROVE  /\ Says(ids) \in Items
         /\ IF ids = <<>> THEN Complete(Append(s, Says(ids)))
            ELSE Owing(Append(s, Says(ids)), ids, ids)
<1>1. Says(ids) \in Items /\ Says(ids).calls = ids /\ Says(ids).role = "model"
  BY DEF Says, Items
<1> DEFINE r == Append(s, Says(ids))
           j == Len(s) + 1
<1>2. /\ Len(r) = j /\ Len(s) \in Nat /\ r[j] = Says(ids) /\ j \in 1..Len(r)
  BY <1>1
<1>3. CASE ids = <<>>
  BY <1>1, <1>3, CompleteAppend
<1>4. \A i \in 1..Len(s) : Answers(r, i) /\ Behind(r, i)
  BY <1>1, CompleteIs, AnswersStay
<1> HIDE DEF r
<1>5. Between(r, j, Len(r)) = 0
  <2>1. {k \in (j + 1)..j : r[k].role # "shown"} = {}
    BY <1>2
  <2> QED
    BY <1>2, <2>1, FS_EmptySet DEF Between
<1>6. Answering(r, ids, 0, j)
  <2>1. (j + 1)..Len(r) = {} /\ 1..0 = {}
    BY <1>2
  <2>2. Behind(r, j)
    BY <1>1, <1>2 DEF Behind
  <2>3. \A i \in 1..Len(r) : Behind(r, i) /\ (i # j => Answers(r, i))
    <3>1. 1..Len(r) = (1..Len(s)) \cup {j}
      BY <1>2
    <3> QED
      BY <1>4, <2>2, <3>1
  <2> QED
    BY <1>2, <1>5, <2>1, <2>3 DEF Answering
<1>7. Owing(r, ids, ids)
  <2>1. Len(ids) - Len(ids) = 0 /\ \A k \in 1..Len(ids) : ids[k] = ids[0 + k]
    OBVIOUS
  <2> HIDE DEF j
  <2> QED
    BY <1>2, <1>6, <2>1 DEF Owing
<1> QED
  BY <1>1, <1>3, <1>7 DEF r

\* An item that is not of the model's comes in while answers are owed.
LEMMA AnsweringAppend ==
  ASSUME NEW s \in Seq(Items), NEW ids \in Seq(CallIds), NEW d \in Nat, NEW j \in 1..Len(s),
         Answering(s, ids, d, j), NEW x \in Items, x.role # "model",
         x.role = "shown" => s[Len(s)].role = "result",
         x.role # "shown" => x = Result(ids[d + 1])
  PROVE  Answering(Append(s, x), ids, IF x.role = "shown" THEN d ELSE d + 1, j)
<1> DEFINE r == Append(s, x)
           n == Len(s)
           e == IF x.role = "shown" THEN d ELSE d + 1
<1>1. /\ n \in Nat /\ Len(r) = n + 1 /\ r[n + 1] = x /\ j \in 1..n
      /\ \A k \in 1..n : r[k] = s[k]
  OBVIOUS
<1>2. /\ s[j] = Says(ids) /\ Between(s, j, n) = d
      /\ \A i \in (j + 1)..n : s[i].role # "model"
      /\ \A k \in 1..d : \E p \in (j + 1)..n : s[p] = Result(ids[k]) /\ Between(s, j, p) = k
      /\ \A i \in 1..n : Behind(s, i) /\ (i # j => Answers(s, i))
  BY DEF Answering
<1>3. /\ \A p \in 1..n : Between(r, j, p) = Between(s, j, p)
      /\ Between(r, j, n + 1) = e
  <2>1. /\ \A p \in 1..n : Between(r, j, p) = Between(s, j, p)
        /\ Between(r, j, n + 1) = Between(s, j, n) + (IF x.role = "shown" THEN 0 ELSE 1)
    BY BetweenAppend
  <2> QED
    BY <1>2, <2>1
<1>4. \A i \in 1..n : Behind(r, i) /\ (i # j => Answers(r, i))
  BY <1>2, AnswersStay
<1> HIDE DEF r, n
<1>5. r[j] = Says(ids)
  BY <1>1, <1>2
<1>6. \A i \in (j + 1)..(n + 1) : r[i].role # "model"
  <2>1. (j + 1)..(n + 1) = ((j + 1)..n) \cup {n + 1} /\ (j + 1)..n \subseteq 1..n
    BY <1>1
  <2> QED
    BY <1>1, <1>2, <2>1
<1>7. ASSUME NEW k \in 1..e
      PROVE  \E p \in (j + 1)..(n + 1) : r[p] = Result(ids[k]) /\ Between(r, j, p) = k
  <2>1. CASE k \in 1..d
    <3>1. PICK p \in (j + 1)..n : s[p] = Result(ids[k]) /\ Between(s, j, p) = k
      BY <1>2, <2>1
    <3>2. p \in 1..n /\ p \in (j + 1)..(n + 1)
      BY <1>1
    <3> QED
      BY <1>1, <1>3, <3>1, <3>2
  <2>2. CASE k \notin 1..d
    <3>1. x.role # "shown" /\ k = d + 1 /\ e = d + 1
      BY <2>2
    <3>2. r[n + 1] = Result(ids[k]) /\ Between(r, j, n + 1) = k /\ n + 1 \in (j + 1)..(n + 1)
      BY <1>1, <1>3, <3>1
    <3> QED
      BY <3>2
  <2> QED
    BY <2>1, <2>2
<1>8. \A i \in 1..(n + 1) : Behind(r, i) /\ (i # j => Answers(r, i))
  <2>1. Behind(r, n + 1) /\ Answers(r, n + 1)
    <3>1. x.role = "shown" => n + 1 > 1 /\ r[(n + 1) - 1].role = "result"
      BY <1>1 DEF n
    <3> QED
      BY <1>1, <3>1 DEF Behind, Answers
  <2>2. 1..(n + 1) = (1..n) \cup {n + 1}
    BY <1>1
  <2> QED
    BY <1>4, <2>1, <2>2
<1> HIDE DEF e
<1>9. Answering(r, ids, e, j)
  BY <1>1, <1>3, <1>5, <1>6, <1>7, <1>8 DEF Answering
<1> QED
  BY <1>9 DEF r, e

\* A call is answered.
LEMMA ResultAnswers ==
  ASSUME NEW s \in Seq(Items), NEW ids, NEW rest, Owing(s, ids, rest), rest # <<>>
  PROVE  /\ Result(Head(rest)) \in Items /\ Tail(rest) \in Seq(CallIds)
         /\ Owing(Append(s, Result(Head(rest))), ids, Tail(rest))
<1>1. /\ ids \in Seq(CallIds) /\ rest \in Seq(CallIds) /\ Len(rest) \in Nat \ {0} /\ Head(rest) = rest[1]
      /\ Head(rest) \in CallIds
  BY DEF Owing
<1>2. Result(Head(rest)) \in Items /\ Result(Head(rest)).role = "result"
  BY <1>1 DEF Result, Items
<1> DEFINE x == Result(Head(rest))
           r == Append(s, x)
           p == Tail(rest)
           d == Len(ids) - Len(rest)
<1>3. Len(r) = Len(s) + 1 /\ Len(s) \in Nat
  BY <1>2
<1>4. p \in Seq(CallIds) /\ Len(p) = Len(rest) - 1 /\ \A k \in 1..Len(p) : p[k] = rest[k + 1]
  BY <1>1
<1>5. d \in Nat /\ \A k \in 1..Len(rest) : rest[k] = ids[d + k]
  BY <1>1 DEF Owing
<1>6. PICK j \in 1..Len(s) : Answering(s, ids, d, j)
  BY DEF Owing
<1>7. x = Result(ids[d + 1]) /\ x.role # "model" /\ x.role # "shown"
  BY <1>1, <1>2, <1>5
<1>8. Answering(r, ids, d + 1, j)
  <2> HIDE DEF d
  <2> QED
    BY <1>1, <1>2, <1>5, <1>6, <1>7, AnsweringAppend
<1> HIDE DEF r, p, x
<1>9. j \in 1..Len(r) /\ Len(ids) - Len(p) = d + 1
  BY <1>1, <1>3, <1>4
<1>10. \A k \in 1..Len(p) : p[k] = ids[(d + 1) + k]
  <2> SUFFICES ASSUME NEW k \in 1..Len(p) PROVE p[k] = ids[(d + 1) + k]
    OBVIOUS
  <2>1. k + 1 \in 1..Len(rest) /\ d + (k + 1) = (d + 1) + k
    BY <1>1, <1>4, <1>5
  <2> QED
    BY <1>4, <1>5, <2>1
<1>11. Owing(r, ids, p)
  <2> HIDE DEF d
  <2> QED
    BY <1>1, <1>4, <1>5, <1>8, <1>9, <1>10 DEF Owing
<1> QED
  BY <1>2, <1>4, <1>11 DEF r, p, x

\* What comes with an answer answers nothing.
LEMMA ShownAnswersNothing ==
  ASSUME NEW s \in Seq(Items), NEW ids, NEW rest, Owing(s, ids, rest), s[Len(s)].role = "result"
  PROVE  Shown \in Items /\ Owing(Append(s, Shown), ids, rest)
<1>1. Shown \in Items /\ Shown.role = "shown"
  BY DEF Shown, Items
<1> DEFINE d == Len(ids) - Len(rest)
           r == Append(s, Shown)
<1>2. /\ ids \in Seq(CallIds) /\ rest \in Seq(CallIds) /\ d \in Nat
      /\ \A k \in 1..Len(rest) : rest[k] = ids[d + k]
  BY DEF Owing
<1>3. PICK j \in 1..Len(s) : Answering(s, ids, d, j)
  BY DEF Owing
<1>4. Answering(r, ids, d, j) /\ j \in 1..Len(r)
  <2>1. j \in 1..Len(r)
    BY <1>1
  <2> HIDE DEF d
  <2> QED
    BY <1>1, <1>2, <1>3, <2>1, AnsweringAppend
<1>5. Owing(r, ids, rest)
  <2> HIDE DEF r
  <2> QED
    BY <1>2, <1>4 DEF Owing
<1> QED
  BY <1>1, <1>5 DEF r

\* When nothing is owed, all is answered.
LEMMA NothingOwed ==
  ASSUME NEW s \in Seq(Items), NEW ids, Owing(s, ids, <<>>)
  PROVE  Complete(s)
<1>1. ids \in Seq(CallIds) /\ Len(ids) - Len(<<>>) = Len(ids)
  BY DEF Owing
<1>2. PICK j \in 1..Len(s) : Answering(s, ids, Len(ids), j)
  BY <1>1 DEF Owing
<1>3. Answers(s, j)
  BY <1>2 DEF Answering, Answers, Says
<1> QED
  BY <1>2, <1>3, CompleteIs DEF Answering

\* An item added to the history is added to what the model will have been shown.
LEMMA RestOf ==
  ASSUME NEW f \in Seq(Items), NEW c \in Nat, NEW m \in Nat, Len(f) = m, c <= m
  PROVE  /\ SubSeq(f, c + 1, Len(f)) \in Seq(Items)
         /\ Len(SubSeq(f, c + 1, Len(f))) = m - c
         /\ \A i \in 1..(m - c) : SubSeq(f, c + 1, Len(f))[i] = f[c + i]
OBVIOUS

LEMMA SeenAppend ==
  ASSUME LoopType, NEW h \in Seq(Items), cursor <= Len(h), NEW x \in Items
  PROVE  /\ Seen(h) \in Seq(Items) /\ Seen(Append(h, x)) = Append(Seen(h), x)
         /\ Append(h, x) \in Seq(Items) /\ Len(Append(h, x)) = Len(h) + 1
<1> DEFINE g == Append(h, x)
           t == SubSeq(h, cursor + 1, Len(h))
           u == SubSeq(g, cursor + 1, Len(g))
           L == Len(h)
<1>1. /\ h \in Seq(Items) /\ chain \in Seq(Items) /\ L \in Nat /\ cursor \in Nat /\ cursor <= L
      /\ g \in Seq(Items) /\ Len(g) = L + 1 /\ g[L + 1] = x
      /\ \A i \in 1..L : g[i] = h[i]
  BY DEF LoopType
<1> HIDE DEF g
<1>2. /\ t \in Seq(Items) /\ Len(t) = L - cursor
      /\ \A i \in 1..(L - cursor) : t[i] = h[cursor + i]
  BY <1>1
<1>3. /\ u \in Seq(Items) /\ Len(u) = (L + 1) - cursor
      /\ \A i \in 1..((L + 1) - cursor) : u[i] = g[cursor + i]
  <2> HIDE DEF L
  <2>1. g \in Seq(Items) /\ Len(g) = L + 1 /\ L + 1 \in Nat /\ cursor \in Nat /\ cursor <= L + 1
    BY <1>1
  <2> QED
    BY <2>1, RestOf
<1>4. u = Append(t, x)
  <2> DEFINE a == Append(t, x)
  <2>1. /\ a \in Seq(Items) /\ Len(a) = Len(t) + 1 /\ a[Len(t) + 1] = x
        /\ \A i \in 1..Len(t) : a[i] = t[i]
    BY <1>2
  <2> HIDE DEF a, t, u, L
  <2>2. ASSUME NEW i \in 1..Len(u) PROVE u[i] = a[i]
    <3>1. CASE i = Len(t) + 1
      <4>1. cursor + i = L + 1
        BY <1>1, <1>2, <3>1
      <4> QED
        BY <1>1, <1>3, <2>1, <3>1, <4>1
    <3>2. CASE i # Len(t) + 1
      <4>1. i \in 1..Len(t) /\ cursor + i \in 1..L
        BY <1>1, <1>2, <1>3, <3>2
      <4> QED
        BY <1>1, <1>2, <1>3, <2>1, <4>1
    <3> QED
      BY <3>1, <3>2
  <2>3. Len(u) = Len(a)
    BY <1>1, <1>2, <1>3, <2>1
  <2> QED
    BY <1>3, <2>1, <2>2, <2>3, SeqEqual DEF a
<1> HIDE DEF t, u, L
<1>5. chain \o Append(t, x) = Append(chain \o t, x) /\ chain \o t \in Seq(Items)
  <2>1. Append(t, x) = t \o <<x>> /\ <<x>> \in Seq(Items)
    BY <1>2, AppendIsConcat
  <2>2. chain \o t \in Seq(Items)
    BY <1>1, <1>2, ConcatProperties
  <2>3. Append(chain \o t, x) = (chain \o t) \o <<x>>
    BY <2>2, AppendIsConcat
  <2>4. (chain \o t) \o <<x>> = chain \o (t \o <<x>>)
    <3>1. chain \in Seq(Items) /\ t \in Seq(Items) /\ <<x>> \in Seq(Items)
      BY <1>1, <1>2, <2>1
    <3> QED
      BY <3>1, ConcatAssociative
  <2> QED
    BY <2>1, <2>2, <2>3, <2>4
<1> QED
  BY <1>1, <1>4, <1>5 DEF Seen, t, u, L, g

\* So it is of the view, when it is added to the messages.
LEMMA ViewAppend ==
  ASSUME LoopType, NEW x \in Items, history' = Append(history, x), UNCHANGED <<provider, cursor, chain>>
  PROVE  /\ View \in Seq(Items) /\ View' = Append(View, x)
         /\ history' \in Seq(Items) /\ Len(history') = Len(history) + 1
<1>1. history \in Seq(Items) /\ cursor <= Len(history)
  BY DEF LoopType
<1>2. /\ Seen(history) \in Seq(Items) /\ Seen(Append(history, x)) = Append(Seen(history), x)
      /\ Append(history, x) \in Seq(Items) /\ Len(Append(history, x)) = Len(history) + 1
  BY <1>1, SeenAppend
<1>3. View = Seen(history) /\ View' = Seen(Append(history, x))
  BY DEF View, Seen
<1> QED
  BY <1>2, <1>3

\* When nothing is added, the view stays.
LEMMA ViewType == LoopType => View \in Seq(Items)
<1> SUFFICES ASSUME LoopType PROVE View \in Seq(Items)
  OBVIOUS
<1>1. SubSeq(history, cursor + 1, Len(history)) \in Seq(Items)
  BY DEF LoopType
<1> QED
  BY <1>1, ConcatProperties DEF LoopType, View, Seen

\* The prompt is the view, or the view and a blank.
LEMMA PromptComplete == ASSUME LoopType, Complete(View) PROVE Complete(Prompt) /\ Prompt \in Seq(Items)
<1>1. View \in Seq(Items)
  BY ViewType
<1>2. CASE provider # "openai" \/ history # <<>>
  BY <1>1, <1>2 DEF Prompt, View, Seen, NewItems
<1>3. CASE provider = "openai" /\ history = <<>>
  <2>1. chain \in Seq(Items) /\ cursor = 0 /\ Note \in Items /\ Note.role = "note"
    BY <1>3 DEF LoopType, Note, Items
  <2>2. SubSeq(history, cursor + 1, Len(history)) = <<>>
    BY <1>3, <2>1
  <2>3. View = chain
    BY <1>3, <2>1, <2>2, ConcatEmptySeq DEF View, Seen
  <2>4. Prompt = Append(chain, Note)
    BY <1>3, <2>1, AppendIsConcat DEF Prompt, NewItems
  <2> QED
    BY <2>1, <2>3, <2>4, CompleteAppend
<1> QED
  BY <1>2, <1>3

\* What ends the loop says why.
LEMMA ClosingSound ==
  ASSUME NEW s, s.error \in BOOLEAN, s.cutShort \in BOOLEAN, NEW hitMax \in BOOLEAN,
         NEW stopped \in {"none", "length", "malformed_tool_call"},
         stopped = "length" => s.cutShort,
         stopped = "none" /\ ~s.error /\ ~hitMax => s.calls = <<>>
  PROVE  LET v == Closing(s, stopped, hitMax) IN
         /\ v.status # "running" /\ (v.status = "completed" => ~s.error)
         /\ v.stop = "max_steps" => hitMax
         /\ v.stop = "done" => s.calls = <<>> /\ ~s.cutShort
         /\ v.stop = "length" => s.cutShort
BY DEF Closing

\* The model speaks: its turn is kept, and the answers to it are owed.
LEMMA KeepSays ==
  ASSUME LoopInv, pc = "request", NEW ids \in Seq(CallIds), Keep(ids), UNCHANGED provider
  PROVE  /\ history' \in Seq(Items) /\ chain' \in Seq(Items) /\ cont' \in Seq(Items)
         /\ cursor' \in Nat /\ cursor' <= Len(history') /\ Continuing'
         /\ IF ids = <<>> THEN Complete(View') ELSE Owing(View', ids, ids)
<1>1. LoopType /\ Complete(View) /\ Continuing /\ View \in Seq(Items)
  BY ViewType DEF LoopInv, Speaking
<1>2. Says(ids) \in Items
  BY DEF Says, Items
<1>3. Complete(Prompt) /\ Prompt \in Seq(Items)
  BY <1>1, PromptComplete
<1>4. CASE history' = Append(history, Says(ids)) /\ UNCHANGED <<cursor, chain>>
           /\ cont' \in {history', <<>>, cont}
  <2>1. View' = Append(View, Says(ids)) /\ history' \in Seq(Items) /\ Len(history') = Len(history) + 1
    BY <1>1, <1>2, <1>4, ViewAppend
  <2>2. \A k \in 1..Len(history) : history'[k] = history[k]
    BY <1>1, <1>2, <1>4 DEF LoopType
  <2>3. Continuing' /\ cont' \in Seq(Items)
    <3>1. CASE cont' = history'
      BY <2>1, <3>1 DEF Continuing
    <3>2. CASE cont' = <<>>
      BY <2>1, <3>2 DEF Continuing, LoopType
    <3>3. CASE cont' = cont
      BY <1>1, <2>1, <2>2, <3>3 DEF Continuing, LoopType
    <3> QED
      BY <1>4, <3>1, <3>2, <3>3
  <2> QED
    BY <1>1, <1>4, <2>1, <2>3, SaysOwes DEF LoopType
<1>5. CASE provider = "openai" /\ KeepOpenAI(ids)
  <2>1. /\ cursor' = Len(history) /\ chain' = Append(Prompt, Says(ids)) /\ UNCHANGED <<history, cont>>
    <3>1. (chain \o NewItems) \o <<Says(ids)>> = Append(Prompt, Says(ids))
      BY <1>2, <1>3, <1>5, AppendIsConcat DEF Prompt
    <3> QED
      BY <1>5, <3>1 DEF KeepOpenAI
  <2>2. chain' \in Seq(Items) /\ cursor' \in Nat /\ cursor' <= Len(history')
    BY <1>1, <1>2, <1>3, <2>1 DEF LoopType
  <2>3. SubSeq(history', cursor' + 1, Len(history')) = <<>>
    BY <1>1, <2>1 DEF LoopType
  <2>4. View' = chain'
    BY <1>5, <2>2, <2>3, ConcatEmptySeq DEF View, Seen
  <2> QED
    BY <1>1, <1>3, <2>1, <2>2, <2>4, SaysOwes DEF LoopType, Continuing
<1>6. CASE ids = <<>> /\ UNCHANGED <<history, cursor, chain, cont>>
  BY <1>1, <1>6 DEF LoopType, Continuing, View, Seen
<1> QED
  BY <1>4, <1>5, <1>6 DEF Keep, KeepClaude, KeepCompatible, KeepGemini

\* Before the model has spoken: a request is asked for, repeated, or fails.
LEMMA AskingKeeps ==
  ASSUME LoopInv, Ask \/ Restream \/ BadJSON \/ RequestFails \/ Degenerate
  PROVE  LoopInv'
<1>1. LoopType /\ Speaking /\ Continuing /\ LoopVerdict
  BY DEF LoopInv
<1>2. CASE Ask \/ Restream
  <2>1. View' = View
    BY <1>2 DEF Ask, Restream, View, Seen
  <2> QED
    BY <1>1, <1>2, <2>1 DEF Ask, Restream, LoopInv, LoopType, Speaking, Continuing, LoopVerdict, Complete
<1>3. CASE BadJSON
  <2>1. /\ pc = "request" /\ attempt' = [json |-> attempt.json + 1, stream |-> 0]
        /\ UNCHANGED <<provider, turn, cursor, chain, cont, step, pending, failures>>
        /\ history' = Append(history, Note) \/ history' = history
        /\ Raise \/ UNCHANGED <<pc, verdict>>
    BY <1>3 DEF BadJSON
  <2>2. Note \in Items /\ Note.role = "note"
    BY DEF Note, Items
  <2>3. /\ history' \in Seq(Items) /\ Len(history') >= Len(history) /\ Complete(View')
        /\ \A k \in 1..Len(history) : history'[k] = history[k]
    <3>1. CASE history' = Append(history, Note)
      <4>1. View' = Append(View, Note) /\ View \in Seq(Items)
        BY <1>1, <2>1, <2>2, <3>1, ViewAppend
      <4> QED
        BY <1>1, <2>1, <2>2, <3>1, <4>1, CompleteAppend DEF LoopType, Speaking
    <3>2. CASE history' = history
      <4>1. View' = View
        BY <2>1, <3>2 DEF View, Seen
      <4> QED
        BY <1>1, <2>1, <3>2, <4>1 DEF LoopType, Speaking
    <3> QED
      BY <2>1, <3>1, <3>2
  <2>4. LoopType'
    BY <1>1, <2>1, <2>3 DEF LoopType
  <2>5. Speaking' /\ Continuing'
    BY <1>1, <2>1, <2>3 DEF Speaking, Continuing, Raise, LoopType
  <2>6. LoopVerdict'
    BY <1>1, <2>1 DEF LoopVerdict, Raise, Running
  <2> QED
    BY <2>4, <2>5, <2>6 DEF LoopInv
<1>4. CASE RequestFails
  <2>1. /\ pc = "request" /\ UNCHANGED <<provider, turn, history, cursor, chain, cont, attempt, pending, failures>>
        /\ \/ step' = [NoStep EXCEPT !.error = TRUE] /\ pc' = "after" /\ UNCHANGED verdict
           \/ Raise /\ UNCHANGED step
    BY <1>4 DEF RequestFails, Take
  <2>2. View' = View
    BY <2>1 DEF View, Seen
  <2>3. step' = [NoStep EXCEPT !.error = TRUE] => step' \in Steps /\ step'.calls = <<>>
    <3>1. <<>> \in Seq(CallIds)
      OBVIOUS
    <3> SUFFICES ASSUME step' = [NoStep EXCEPT !.error = TRUE]
                 PROVE  step' \in Steps /\ step'.calls = <<>>
      OBVIOUS
    <3>2. step' = [error |-> TRUE, calls |-> <<>>, cutShort |-> FALSE, stop |-> "none", bad |-> FALSE]
      BY DEF NoStep
    <3>3. [error |-> TRUE, calls |-> <<>>, cutShort |-> FALSE, stop |-> "none", bad |-> FALSE] \in Steps
      BY <3>1 DEF Steps
    <3>4. step'.calls = <<>>
      BY <3>2
    <3>5. step' \in Steps
      BY <3>2, <3>3
    <3> QED
      BY <3>4, <3>5
  <2>4. LoopType' /\ Continuing'
    BY <1>1, <2>1, <2>3 DEF LoopType, Continuing
  <2>5. Speaking'
    BY <1>1, <2>1, <2>2, <2>3 DEF Speaking, Raise
  <2>6. LoopVerdict'
    BY <1>1, <2>1 DEF LoopVerdict, Raise, Running
  <2> QED
    BY <2>4, <2>5, <2>6 DEF LoopInv
<1>5. CASE Degenerate
  <2>1. /\ pc = "request" /\ UNCHANGED <<provider, history, cursor, chain, cont, attempt, step, pending, failures>>
        /\ \/ Raise /\ UNCHANGED turn
           \/ turn' = turn + 1 /\ pc' = "sample" /\ UNCHANGED verdict
    BY <1>5 DEF Degenerate
  <2>2. View' = View
    BY <2>1 DEF View, Seen
  <2>3. LoopType' /\ Continuing'
    BY <1>1, <2>1 DEF LoopType, Continuing
  <2>4. Speaking'
    BY <1>1, <2>1, <2>2 DEF Speaking, Raise
  <2>5. LoopVerdict'
    BY <1>1, <2>1 DEF LoopVerdict, Raise, Running
  <2> QED
    BY <2>3, <2>4, <2>5 DEF LoopInv
<1> QED
  BY <1>2, <1>3, <1>4, <1>5

\* The model speaks.
LEMMA SpokenKeeps == ASSUME LoopInv, Answered \/ Malformed PROVE LoopInv'
<1>1. LoopType /\ Speaking /\ Continuing /\ LoopVerdict /\ pc = "request"
  BY DEF LoopInv, Answered, Malformed
<1>2. PICK ids \in Seq(CallIds) :
        /\ Keep(ids) /\ step'.calls = ids
        /\ step' \in Steps
  <2>1. CASE Answered
    <3>1. PICK ids \in Calls, short \in BOOLEAN, bad \in BOOLEAN :
            Keep(ids) /\ step' = [NoStep EXCEPT !.calls = ids, !.cutShort = short, !.bad = bad]
      BY <2>1 DEF Answered, Take
    <3>2. ids \in Seq(CallIds)
      <4>1. <<turn, 1>> \in CallIds /\ <<turn, 2>> \in CallIds
        BY <1>1 DEF LoopType, CallIds
      <4>2. /\ <<>> \in Seq(CallIds) /\ << <<turn, 1>> >> \in Seq(CallIds)
            /\ << <<turn, 1>>, <<turn, 2>> >> \in Seq(CallIds)
        BY <4>1
      <4> QED
        BY <3>1, <4>2 DEF Calls
    <3>3. step' = [error |-> FALSE, calls |-> ids, cutShort |-> short, stop |-> "none", bad |-> bad]
      BY <3>1 DEF NoStep
    <3>4. step' \in Steps /\ step'.calls = ids
      BY <3>2, <3>3 DEF Steps
    <3> WITNESS ids \in Seq(CallIds)
    <3> QED
      BY <3>1, <3>4
  <2>2. CASE Malformed
    <3>1. Keep(<<>>) /\ step' = [error |-> TRUE, calls |-> <<>>, cutShort |-> FALSE,
                                 stop |-> "malformed_tool_call", bad |-> FALSE]
      BY <2>2 DEF Malformed, Take, NoStep
    <3>2. <<>> \in Seq(CallIds)
      OBVIOUS
    <3>3. step' \in Steps /\ step'.calls = <<>>
      BY <3>1, <3>2 DEF Steps
    <3> WITNESS <<>> \in Seq(CallIds)
    <3> QED
      BY <3>1, <3>3
  <2> QED
    BY <2>1, <2>2
<1>3. pc' = "after" /\ UNCHANGED <<provider, turn, attempt, pending, failures, verdict>>
  BY DEF Answered, Malformed, Take
<1>4. /\ history' \in Seq(Items) /\ chain' \in Seq(Items) /\ cont' \in Seq(Items)
      /\ cursor' \in Nat /\ cursor' <= Len(history') /\ Continuing'
      /\ IF ids = <<>> THEN Complete(View') ELSE Owing(View', ids, ids)
  BY <1>1, <1>2, <1>3, KeepSays
<1>5. LoopType'
  BY <1>1, <1>2, <1>3, <1>4 DEF LoopType
<1>6. Speaking'
  BY <1>1, <1>2, <1>3, <1>4 DEF Speaking
<1>7. LoopVerdict'
  BY <1>1, <1>3 DEF LoopVerdict, Running
<1> QED
  BY <1>4, <1>5, <1>6, <1>7 DEF LoopInv

\* The loop goes on to another turn or ends.
LEMMA TurnEnds ==
  ASSUME LoopInv, NEW hitMax \in BOOLEAN, NEW stopped \in {"none", "length", "malformed_tool_call"},
         pc \in {"after", "dispatch"},
         stopped = "length" => step.cutShort,
         stopped = "none" /\ ~step.error /\ ~hitMax => step.calls = <<>>,
         hitMax => step.calls # <<>> /\ pending = <<>>,
         \/ NextTurn(hitMax) /\ stopped = "none"
         \/ Close(stopped, hitMax) /\ ~hitMax,
         UNCHANGED <<step, failures, pending>>
  PROVE  LoopVerdict' /\ pc' \in {"sample", "ended"} /\ turn' \in Nat
<1>1. LoopType /\ LoopVerdict /\ failures < SSHLimit /\ turn \in Nat
  BY DEF LoopInv, Speaking, LoopType
<1>2. CASE turn' = turn + 1 /\ pc' = "sample" /\ verdict' = verdict
  BY <1>1, <1>2 DEF LoopVerdict, Running
<1>3. CASE Close(stopped, hitMax) /\ (hitMax => turn = MaxSteps)
  <2>1. LET v == Closing(step, stopped, hitMax) IN
         /\ v.status # "running" /\ (v.status = "completed" => ~step.error)
         /\ v.stop = "max_steps" => hitMax
         /\ v.stop = "done" => step.calls = <<>> /\ ~step.cutShort
         /\ v.stop = "length" => step.cutShort
    <3>1. step.error \in BOOLEAN /\ step.cutShort \in BOOLEAN
      BY <1>1 DEF LoopType, Steps
    <3> QED
      BY <3>1, ClosingSound
  <2>2. verdict' = Closing(step, stopped, hitMax) /\ pc' = "ended" /\ turn' = turn
    BY <1>3 DEF Close
  <2> QED
    BY <1>1, <1>3, <2>1, <2>2 DEF LoopVerdict
<1> QED
  BY <1>2, <1>3 DEF NextTurn

\* After a step: it ends the loop, a follow-up is made up, or its calls are next.
LEMMA JudgeKeeps == ASSUME LoopInv, Judge PROVE LoopInv'
<1>1. /\ LoopType /\ Speaking /\ Continuing /\ LoopVerdict /\ pc = "after"
      /\ UNCHANGED <<provider, cursor, chain, cont, attempt, step, failures>>
  BY DEF LoopInv, Judge
<1>2. step.stop \in {"none", "malformed_tool_call"} /\ step.calls \in Seq(CallIds) /\ step.error \in BOOLEAN
  BY <1>1 DEF LoopType, Steps
<1>3. ASSUME UNCHANGED <<history, pending>>, NEW stopped \in {"none", "length", "malformed_tool_call"},
             Close(stopped, FALSE), stopped = "length" => step.cutShort,
             stopped = "none" /\ ~step.error => step.calls = <<>>
      PROVE  LoopInv'
  <2>1. LoopVerdict' /\ pc' \in {"sample", "ended"} /\ turn' \in Nat
    BY <1>1, <1>3, TurnEnds
  <2>2. pc' = "ended"
    BY <1>3 DEF Close
  <2> QED
    BY <1>1, <1>3, <2>1, <2>2 DEF LoopInv, LoopType, Speaking, Continuing
<1>4. CASE step.error /\ Close(step.stop, FALSE) /\ UNCHANGED <<history, recorded, pending>>
  BY <1>2, <1>3, <1>4
<1>5. CASE ~step.error /\ step.calls = <<>> /\ Close("none", FALSE) /\ UNCHANGED <<history, recorded, pending>>
  BY <1>3, <1>5
<1>6. CASE /\ ~step.error /\ step.calls = <<>> /\ history' = Append(history, User)
           /\ NextTurn(FALSE) /\ UNCHANGED pending
  <2>1. User \in Items /\ User.role = "user"
    BY DEF User, Items
  <2>2. View \in Seq(Items) /\ View' = Append(View, User) /\ history' \in Seq(Items) /\ Len(history') = Len(history) + 1
    BY <1>1, <1>6, <2>1, ViewAppend
  <2>3. Complete(View')
    BY <1>1, <1>6, <2>1, <2>2, CompleteAppend DEF Speaking
  <2>4. LoopVerdict' /\ pc' \in {"sample", "ended"} /\ turn' \in Nat
    BY <1>1, <1>6, TurnEnds
  <2>5. Continuing' /\ LoopType'
    BY <1>1, <1>6, <2>2, <2>4 DEF Continuing, LoopType
  <2> QED
    BY <1>1, <2>3, <2>4, <2>5 DEF LoopInv, Speaking
<1>7. CASE /\ ~step.error /\ step.calls # <<>> /\ Tripped # "none"
           /\ Close(Tripped, FALSE) /\ UNCHANGED <<history, recorded, pending>>
  <2>1. Tripped \in {"none", "length", "malformed_tool_call"} /\ (Tripped = "length" => step.cutShort)
    BY DEF Tripped
  <2> QED
    BY <1>3, <1>7, <2>1
<1>8. CASE /\ ~step.error /\ step.calls # <<>> /\ pending' = step.calls /\ pc' = "dispatch"
           /\ UNCHANGED <<history, recorded, turn, verdict>>
  <2>1. View' = View
    BY <1>1, <1>8 DEF View, Seen
  <2> QED
    BY <1>1, <1>2, <1>8, <2>1 DEF LoopInv, LoopType, Speaking, Continuing, LoopVerdict, Running
<1> QED
  BY <1>4, <1>5, <1>6, <1>7, <1>8 DEF Judge

\* What _format_result adds: the answer, and perhaps the message that came with it.
LEMMA FormattedAnswers ==
  ASSUME LoopType, NEW ids, Owing(View, ids, pending), pending # <<>>, NEW more \in BOOLEAN,
         history' = history \o Formatted(Head(pending), more), UNCHANGED <<provider, cursor, chain>>
  PROVE  /\ Result(Head(pending)) \in Items /\ Tail(pending) \in Seq(CallIds)
         /\ history' \in Seq(Items) /\ Len(history') >= Len(history)
         /\ \A k \in 1..Len(history) : history'[k] = history[k]
         /\ Owing(View', ids, Tail(pending))
         /\ View' = (IF more THEN Append(Append(View, Result(Head(pending))), Shown)
                      ELSE Append(View, Result(Head(pending))))
<1> DEFINE x == Result(Head(pending))
           one == Append(history, x)
<1>1. View \in Seq(Items) /\ history \in Seq(Items)
  BY ViewType DEF LoopType
<1>2. x \in Items /\ x.role = "result" /\ Tail(pending) \in Seq(CallIds) /\ Owing(Append(View, x), ids, Tail(pending))
  BY <1>1, ResultAnswers DEF Result
<1>3. Shown \in Items /\ Shown.role = "shown"
  BY DEF Shown, Items
<1> HIDE DEF x
<1>4. /\ one \in Seq(Items) /\ Len(one) = Len(history) + 1
      /\ \A k \in 1..Len(history) : one[k] = history[k]
  BY <1>1, <1>2
<1>5. Seen(one) = Append(View, x)
  <2>1. cursor <= Len(history)
    BY DEF LoopType
  <2> QED
    BY <1>1, <1>2, <2>1, SeenAppend DEF View
<1>6. CASE ~more
  <2>1. history' = one
    BY <1>1, <1>2, <1>6, AppendIsConcat DEF Formatted, x
  <2>2. View' = Append(View, x)
    BY <1>5, <2>1 DEF View, Seen
  <2>3. Owing(View', ids, Tail(pending))
    BY <1>2, <2>2
  <2> QED
    <3>1. /\ history' \in Seq(Items) /\ Len(history') >= Len(history)
          /\ \A k \in 1..Len(history) : history'[k] = history[k]
      <4>1. Len(history) \in Nat /\ Len(history) + 1 >= Len(history)
        BY <1>1
      <4> HIDE DEF one
      <4>2. history' \in Seq(Items)
        BY <1>4, <2>1
      <4>3. Len(history') >= Len(history)
        BY <1>4, <2>1, <4>1
      <4>4. \A k \in 1..Len(history) : history'[k] = history[k]
        BY <1>4, <2>1
      <4> QED
        BY <4>2, <4>3, <4>4
    <3>2. View' = IF more THEN Append(Append(View, x), Shown) ELSE Append(View, x)
      BY <1>6, <2>2
    <3> QED
      BY <1>2, <2>3, <3>1, <3>2 DEF x
<1>7. CASE more
  <2> DEFINE two == Append(one, Shown)
  <2>1. /\ two \in Seq(Items) /\ Len(two) = Len(history) + 2
        /\ \A k \in 1..Len(history) : two[k] = history[k]
    BY <1>3, <1>4
  <2>2. history' = two
    <3>1. history' = history \o <<x, Shown>>
      BY <1>7 DEF Formatted, x
    <3>2. <<x, Shown>> = <<x>> \o <<Shown>> /\ <<x>> \in Seq(Items) /\ <<Shown>> \in Seq(Items)
      BY <1>2, <1>3
    <3>3. history \o (<<x>> \o <<Shown>>) = (history \o <<x>>) \o <<Shown>>
      BY <1>1, <3>2, ConcatAssociative
    <3>4. history \o <<x>> = one /\ one \o <<Shown>> = two
      BY <1>1, <1>2, <1>3, <1>4, AppendIsConcat
    <3> QED
      BY <3>1, <3>2, <3>3, <3>4
  <2> HIDE DEF one
  <2>3. Seen(two) = Append(Seen(one), Shown)
    <3>1. cursor <= Len(one)
      BY <1>4 DEF LoopType
    <3> QED
      BY <1>3, <1>4, <3>1, SeenAppend
  <2> HIDE DEF two
  <2>4. View' = Append(Append(View, x), Shown)
    BY <1>5, <2>2, <2>3 DEF View, Seen
  <2>5. Append(View, x)[Len(Append(View, x))].role = "result" /\ Append(View, x) \in Seq(Items)
    BY <1>1, <1>2
  <2>6. Owing(View', ids, Tail(pending))
    BY <1>2, <2>4, <2>5, ShownAnswersNothing
  <2>7. history' \in Seq(Items) /\ Len(history') >= Len(history) /\ \A k \in 1..Len(history) : history'[k] = history[k]
    <3>1. Len(history) \in Nat /\ Len(history) + 2 >= Len(history)
      BY <1>1
    <3>2. history' \in Seq(Items)
      BY <2>1, <2>2
    <3>3. Len(history') >= Len(history)
      BY <2>1, <2>2, <3>1
    <3>4. \A k \in 1..Len(history) : history'[k] = history[k]
      BY <2>1, <2>2
    <3> QED
      BY <3>2, <3>3, <3>4
  <2> QED
    BY <1>2, <1>7, <2>4, <2>6, <2>7 DEF x
<1> QED
  BY <1>6, <1>7

\* A call is dispatched: its result follows, and the next turn when it was the last.
LEMMA DispatchKeeps == ASSUME LoopInv, Dispatch \/ Unformatted \/ TurnDone PROVE LoopInv'
<1>1. LoopType /\ Speaking /\ Continuing /\ LoopVerdict /\ pc = "dispatch"
  BY DEF LoopInv, Dispatch, Unformatted, TurnDone
<1>2. /\ step.calls # <<>> /\ ~step.error /\ failures < SSHLimit /\ Owing(View, step.calls, pending)
      /\ View \in Seq(Items) /\ pending \in Seq(CallIds)
  BY <1>1, ViewType DEF Speaking, LoopType
<1>3. CASE Dispatch
  <2>1. PICK more \in BOOLEAN :
          /\ pending # <<>> /\ history' = history \o Formatted(Head(pending), more)
          /\ failures' \in {failures + 1, 0}
          /\ \/ Raise /\ pending' = pending
             \/ failures' < SSHLimit /\ pending' = Tail(pending) /\ UNCHANGED <<pc, verdict>>
          /\ UNCHANGED <<provider, stopOn, turn, cursor, chain, cont, attempt, step>>
    <3>1. failures \in Nat
      BY <1>1 DEF LoopType
    <3> QED
      BY <1>3, <3>1 DEF Dispatch, Counted, SSHLimit
  <2>2. /\ Tail(pending) \in Seq(CallIds) /\ Owing(View', step.calls, Tail(pending))
        /\ history' \in Seq(Items) /\ Len(history') >= Len(history)
        /\ \A k \in 1..Len(history) : history'[k] = history[k]
    BY <1>1, <1>2, <2>1, FormattedAnswers
  <2>5. failures' \in Nat /\ pending' \in Seq(CallIds)
    <3>1. failures \in Nat /\ pending \in Seq(CallIds)
      BY <1>1 DEF LoopType
    <3>2. failures' \in Nat
      BY <2>1, <3>1
    <3>3. pending' \in Seq(CallIds)
      BY <2>1, <2>2, <3>1
    <3> QED
      BY <3>2, <3>3
  <2>6. cont' \in Seq(Items) /\ cursor' <= Len(history')
    BY <1>1, <2>1, <2>2 DEF LoopType
  <2>7. LoopType'
    BY <1>1, <2>1, <2>2, <2>5, <2>6 DEF LoopType
  <2>8. Continuing'
    BY <1>1, <2>1, <2>2 DEF LoopType, Continuing
  <2>9. Speaking'
    <3>1. CASE Raise
      BY <3>1 DEF Speaking, Raise
    <3>2. CASE failures' < SSHLimit /\ pending' = Tail(pending) /\ UNCHANGED <<pc, verdict>>
      <4>1. pc' = "dispatch" /\ step' = step
        BY <1>1, <2>1, <3>2
      <4>2. Owing(View', step'.calls, pending')
        BY <2>2, <3>2, <4>1
      <4> QED
        BY <1>2, <3>2, <4>1, <4>2 DEF Speaking, SSHLimit
    <3> QED
      BY <2>1, <3>1, <3>2
  <2>10. LoopVerdict'
    BY <1>1, <2>1 DEF LoopVerdict, Raise, Running
  <2> QED
    BY <2>7, <2>8, <2>9, <2>10 DEF LoopInv
<1>4. CASE Unformatted
  <2>1. Raise /\ UNCHANGED <<provider, turn, history, cursor, chain, cont, attempt, step, pending, failures>>
    BY <1>4 DEF Unformatted
  <2> QED
    BY <1>1, <2>1 DEF LoopInv, LoopType, Speaking, Continuing, LoopVerdict, Raise, Running
<1>5. CASE TurnDone
  <2>1. /\ pending = <<>> /\ NextTurn(TRUE)
        /\ UNCHANGED <<provider, history, cursor, chain, cont, attempt, step, pending, failures>>
    BY <1>5 DEF TurnDone
  <2>2. View' = View
    BY <2>1 DEF View, Seen
  <2>3. Complete(View')
    BY <1>2, <2>1, <2>2, NothingOwed
  <2>4. LoopVerdict' /\ pc' \in {"sample", "ended"} /\ turn' \in Nat
    <3>1. "none" \in {"none", "length", "malformed_tool_call"} /\ TRUE \in BOOLEAN /\ "none" # "length"
      OBVIOUS
    <3>2. pc \in {"after", "dispatch"} /\ pending = <<>> /\ UNCHANGED <<step, failures, pending>>
      BY <1>1, <2>1
    <3> QED
      BY <1>2, <2>1, <3>1, <3>2, TurnEnds
  <2> QED
    BY <1>1, <1>2, <2>1, <2>3, <2>4 DEF LoopInv, LoopType, Speaking, Continuing
<1> QED
  BY <1>3, <1>4, <1>5

\* No step of the loop breaks it.
LEMMA LoopKeeps == LoopInv /\ [NextLoop]_loopVars => LoopInv'
<1> SUFFICES ASSUME LoopInv, [NextLoop]_loopVars PROVE LoopInv'
  OBVIOUS
<1>1. CASE UNCHANGED loopVars
  BY <1>1 DEF loopVars, LoopInv, LoopType, Speaking, Continuing, LoopVerdict, View, Seen
<1>2. CASE CutLoop
  BY <1>2 DEF CutLoop, LoopInv, LoopType, Speaking, Continuing, LoopVerdict
<1> QED
  BY <1>1, <1>2, AskingKeeps, SpokenKeeps, JudgeKeeps, DispatchKeeps DEF NextLoop, LoopStep

\* A loop starts with all answered: with nothing, or with the prompt.
LEMMA LoopInit == InitLoop => LoopInv
<1> SUFFICES ASSUME InitLoop PROVE LoopInv
  OBVIOUS
<1>1. User \in Items /\ User.role = "user"
  BY DEF User, Items
<1>2. history \in Seq(Items) /\ Complete(history)
  <2>1. CASE history = <<>>
    BY <2>1 DEF Complete
  <2>2. CASE history = <<User>>
    <3>1. Len(history) = 1 /\ history[1] = User /\ history \in Seq(Items)
      BY <1>1, <2>2
    <3> QED
      BY <1>1, <3>1 DEF Complete
  <2> QED
    BY <2>1, <2>2 DEF InitLoop
<1>3. LoopType
  <2>1. <<>> \in Seq(Items) /\ <<>> \in Seq(CallIds) /\ Len(history) \in Nat
    BY <1>2
  <2>2. step \in Steps
    BY <2>1 DEF InitLoop, NoStep, Steps
  <2> QED
    BY <1>2, <2>1, <2>2 DEF InitLoop, LoopType
<1>4. Complete(View)
  <2>1. CASE provider # "openai"
    BY <1>2, <2>1 DEF View, Seen
  <2>2. CASE provider = "openai"
    <3>1. SubSeq(history, cursor + 1, Len(history)) = history
      BY <1>2, SubSeqFull DEF InitLoop
    <3> QED
      BY <1>2, <2>2, <3>1, ConcatEmptySeq DEF View, Seen, InitLoop
  <2> QED
    BY <2>1, <2>2
<1> QED
  BY <1>3, <1>4 DEF InitLoop, LoopInv, Speaking, Continuing, LoopVerdict, Running, SSHLimit, NoStep

\* While the model can be asked again, it was shown what was recorded.  A step that
\* failed is recorded and not shown: it ends the loop.
RecordedInv ==
  /\ recorded \in Seq(Items)
  /\ \/ provider = "gemini"
     \/ pc \notin {"sample", "request", "dispatch"} /\ ~(pc = "after" /\ ~step.error)
     \/ Mirrors(View, recorded)

\* An item that is shown is recorded, and a note is not.
LEMMA MirrorsAppend ==
  ASSUME NEW s \in Seq(Items), NEW r \in Seq(Items), Mirrors(s, r), NEW x \in Items
  PROVE  /\ x.role \notin Own => Mirrors(Append(s, x), Append(r, x))
         /\ x.role \in Own => Mirrors(Append(s, x), r)
<1> DEFINE a == Append(s, x)
           b == Append(r, x)
           n == Len(s)
           In(t, i) == {j \in 1..i : t[j].role \notin Own}
<1>1. /\ n \in Nat /\ Len(a) = n + 1 /\ a[n + 1] = x /\ \A k \in 1..n : a[k] = s[k]
      /\ Len(r) \in Nat /\ Len(b) = Len(r) + 1 /\ b[Len(r) + 1] = x /\ \A k \in 1..Len(r) : b[k] = r[k]
  OBVIOUS
<1> HIDE DEF a, b, n
<1>2. /\ Cardinality(In(s, n)) = Len(r)
      /\ \A i \in 1..n : s[i].role \notin Own => r[Cardinality(In(s, i))] = s[i]
  BY DEF Mirrors, Rank, n
<1>3. ASSUME NEW i \in 1..n PROVE In(a, i) = In(s, i)
  BY <1>1
<1>4. IsFiniteSet(In(s, n))
  <2>1. IsFiniteSet(1..n)
    BY <1>1, FS_Interval
  <2>2. In(s, n) \subseteq 1..n
    OBVIOUS
  <2> QED
    BY <2>1, <2>2, FS_Subset
<1>5. ASSUME NEW i \in 1..n, s[i].role \notin Own
      PROVE  Cardinality(In(s, i)) \in 1..Len(r)
  <2>1. In(s, i) \subseteq In(s, n) /\ i \in In(s, i)
    BY <1>1, <1>5
  <2>2. IsFiniteSet(In(s, i)) /\ Cardinality(In(s, i)) <= Cardinality(In(s, n))
    BY <1>4, <2>1, FS_Subset
  <2>3. Cardinality(In(s, i)) \in Nat /\ Cardinality(In(s, i)) # 0
    BY <2>1, <2>2, FS_CardinalityType, FS_EmptySet
  <2> QED
    BY <1>1, <1>2, <2>2, <2>3
<1>6. CASE x.role \notin Own
  <2>1. In(a, n + 1) = In(s, n) \cup {n + 1} /\ n + 1 \notin In(s, n)
    <3>1. In(a, n) = In(s, n)
      BY <1>1
    <3> QED
      BY <1>1, <1>6, <3>1
  <2>2. Cardinality(In(a, n + 1)) = Len(r) + 1
    BY <1>2, <1>4, <2>1, FS_AddElement
  <2>3. ASSUME NEW i \in 1..Len(a), a[i].role \notin Own
        PROVE  b[Cardinality(In(a, i))] = a[i]
    <3>1. CASE i = n + 1
      BY <1>1, <2>2, <3>1
    <3>2. CASE i # n + 1
      <4>1. i \in 1..n /\ s[i].role \notin Own /\ a[i] = s[i]
        BY <1>1, <2>3, <3>2
      <4> QED
        BY <1>1, <1>2, <1>3, <1>5, <4>1
    <3> QED
      BY <3>1, <3>2
  <2> QED
    BY <1>1, <1>6, <2>2, <2>3 DEF Mirrors, Rank, a, b
<1>7. CASE x.role \in Own
  <2>1. In(a, n + 1) = In(s, n)
    <3>1. In(a, n) = In(s, n)
      BY <1>1
    <3> QED
      BY <1>1, <1>7, <3>1
  <2>2. ASSUME NEW i \in 1..Len(a), a[i].role \notin Own
        PROVE  r[Cardinality(In(a, i))] = a[i]
    <3>1. i \in 1..n /\ s[i].role \notin Own /\ a[i] = s[i]
      BY <1>1, <1>7, <2>2
    <3> QED
      BY <1>2, <1>3, <3>1
  <2> QED
    BY <1>1, <1>2, <1>7, <2>1, <2>2 DEF Mirrors, Rank, a
<1> QED
  BY <1>6, <1>7

\* The prompt adds at most a blank to the view.
LEMMA PromptMirrors ==
  ASSUME LoopType, recorded \in Seq(Items), Mirrors(View, recorded)
  PROVE  Mirrors(Prompt, recorded)
<1>1. CASE provider # "openai" \/ history # <<>>
  BY <1>1 DEF Prompt, View, Seen, NewItems
<1>2. CASE provider = "openai" /\ history = <<>>
  <2>1. chain \in Seq(Items) /\ cursor = 0 /\ Note \in Items /\ Note.role \in Own
    BY <1>2 DEF LoopType, Note, Items, Own
  <2>2. SubSeq(history, cursor + 1, Len(history)) = <<>>
    BY <1>2, <2>1
  <2>3. View = chain
    BY <1>2, <2>1, <2>2, ConcatEmptySeq DEF View, Seen
  <2>4. Prompt = Append(chain, Note)
    BY <1>2, <2>1, AppendIsConcat DEF Prompt, NewItems
  <2> QED
    BY <2>1, <2>3, <2>4, MirrorsAppend
<1> QED
  BY <1>1, <1>2

\* An answer that is kept is shown and recorded.
LEMMA KeepMirrors ==
  ASSUME LoopInv, RecordedInv, pc = "request", provider # "gemini",
         NEW ids \in Seq(CallIds), Keep(ids), UNCHANGED provider
  PROVE  Mirrors(View', Append(recorded, Says(ids)))
<1>1. /\ LoopType /\ Complete(View) /\ View \in Seq(Items)
      /\ recorded \in Seq(Items) /\ Mirrors(View, recorded)
  BY ViewType DEF LoopInv, Speaking, RecordedInv
<1>2. Says(ids) \in Items /\ Says(ids).role \notin Own
  BY DEF Says, Items, Own
<1>3. CASE history' = Append(history, Says(ids)) /\ UNCHANGED <<cursor, chain>>
  BY <1>1, <1>2, <1>3, ViewAppend, MirrorsAppend
<1>4. CASE KeepOpenAI(ids) /\ provider = "openai"
  <2>1. Prompt \in Seq(Items) /\ Mirrors(Prompt, recorded)
    BY <1>1, PromptComplete, PromptMirrors
  <2>2. cursor' = Len(history) /\ chain' = Append(Prompt, Says(ids)) /\ history' = history
    <3>1. (chain \o NewItems) \o <<Says(ids)>> = Append(Prompt, Says(ids))
      BY <1>2, <1>4, <2>1, AppendIsConcat DEF Prompt
    <3> QED
      BY <1>4, <3>1 DEF KeepOpenAI
  <2>3. chain' \in Seq(Items) /\ SubSeq(history', cursor' + 1, Len(history')) = <<>>
    BY <1>1, <1>2, <2>1, <2>2 DEF LoopType
  <2>4. View' = chain'
    BY <1>4, <2>3, ConcatEmptySeq DEF View, Seen
  <2> QED
    BY <1>1, <1>2, <2>1, <2>2, <2>4, MirrorsAppend
<1> QED
  BY <1>3, <1>4 DEF Keep, KeepClaude, KeepCompatible

\* No step of the loop lets what is shown and what is recorded part.
LEMMA RecordedKeeps == LoopInv /\ RecordedInv /\ [NextLoop]_loopVars => RecordedInv'
<1> SUFFICES ASSUME LoopInv, RecordedInv, [NextLoop]_loopVars PROVE RecordedInv'
  OBVIOUS
<1>1. LoopType /\ recorded \in Seq(Items) /\ View \in Seq(Items)
  BY ViewType DEF LoopInv, RecordedInv
<1>2. ASSUME UNCHANGED <<provider, history, cursor, chain, recorded>>,
             pc' \in {"ended", "cut"} \/ (pc' = pc /\ step' = step)
             \/ (pc' \in {"sample", "request", "dispatch"} /\ (pc = "after" => ~step.error)
                 /\ pc \in {"sample", "request", "after", "dispatch"})
      PROVE  RecordedInv'
  <2>1. View' = View
    BY <1>2 DEF View, Seen
  <2> QED
    BY <1>2, <2>1 DEF RecordedInv
<1>3. ASSUME NEW x \in Items, recorded' = Append(recorded, x), UNCHANGED provider, pc' \in {"ended", "cut"}
      PROVE  RecordedInv'
  BY <1>1, <1>3 DEF RecordedInv
<1>4. ASSUME NEW x \in Items, x.role \notin Own, history' = Append(history, x), recorded' = Append(recorded, x),
             UNCHANGED <<provider, cursor, chain>>, pc \in {"dispatch", "after"}, pc = "after" => ~step.error
      PROVE  RecordedInv'
  <2>1. View' = Append(View, x)
    BY <1>1, <1>4, ViewAppend
  <2>2. provider # "gemini" => Mirrors(View', recorded')
    BY <1>1, <1>4, <2>1, MirrorsAppend DEF RecordedInv
  <2> QED
    BY <1>1, <1>4, <2>2 DEF RecordedInv
<1>5. CASE Ask \/ Restream \/ Degenerate \/ CutLoop \/ TurnDone \/ UNCHANGED loopVars
  BY <1>2, <1>5 DEF Ask, Restream, Degenerate, Raise, CutLoop, TurnDone, NextTurn, Close, loopVars
<1>6. CASE BadJSON
  <2>1. CASE history' = history
    BY <1>2, <1>6, <2>1 DEF BadJSON, Raise
  <2>2. CASE history' = Append(history, Note) /\ UNCHANGED <<provider, cursor, chain, recorded>>
    <3>1. Note \in Items /\ Note.role \in Own
      BY DEF Note, Items, Own
    <3>2. View' = Append(View, Note)
      BY <1>1, <2>2, <3>1, ViewAppend
    <3>3. provider # "gemini" => Mirrors(View', recorded')
      BY <1>1, <1>6, <2>2, <3>1, <3>2, MirrorsAppend DEF RecordedInv, BadJSON
    <3> QED
      BY <1>1, <2>2, <3>3 DEF RecordedInv
  <2> QED
    BY <1>6, <2>1, <2>2 DEF BadJSON
<1>7. CASE RequestFails
  <2>1. CASE Raise /\ UNCHANGED <<step, recorded>>
    BY <1>2, <1>7, <2>1 DEF RequestFails, Raise
  <2>2. CASE Take([NoStep EXCEPT !.error = TRUE])
    <3>1. step'.error /\ step'.calls = <<>> /\ pc' = "after" /\ recorded' = Append(recorded, Says(<<>>))
      BY <2>2 DEF Take, NoStep
    <3>2. Says(<<>>) \in Items
      BY DEF Says, Items
    <3> QED
      BY <1>1, <3>1, <3>2 DEF RecordedInv
  <2> QED
    BY <1>7, <2>1, <2>2 DEF RequestFails
<1>8. CASE Malformed
  <2>1. provider' = "gemini" /\ recorded' = Append(recorded, Says(<<>>))
    BY <1>8 DEF Malformed, Take, NoStep
  <2>2. Says(<<>>) \in Items
    BY DEF Says, Items
  <2> QED
    BY <1>1, <2>1, <2>2 DEF RecordedInv
<1>9. CASE Answered
  <2>1. PICK ids \in Calls : Keep(ids) /\ recorded' = Append(recorded, Says(ids))
    BY <1>9 DEF Answered, Take, NoStep
  <2>2. ids \in Seq(CallIds)
    <3>1. <<turn, 1>> \in CallIds /\ <<turn, 2>> \in CallIds
      BY <1>1 DEF LoopType, CallIds
    <3>2. /\ <<>> \in Seq(CallIds) /\ << <<turn, 1>> >> \in Seq(CallIds)
          /\ << <<turn, 1>>, <<turn, 2>> >> \in Seq(CallIds)
      BY <3>1
    <3> QED
      BY <2>1, <3>2 DEF Calls
  <2>3. Says(ids) \in Items
    BY <2>2 DEF Says, Items
  <2>4. pc = "request" /\ UNCHANGED provider
    BY <1>9 DEF Answered
  <2>5. provider # "gemini" => Mirrors(View', recorded')
    BY <2>1, <2>2, <2>4, KeepMirrors
  <2> QED
    BY <1>1, <2>1, <2>3, <2>4, <2>5 DEF RecordedInv
<1>10. CASE Judge
  <2>1. CASE history' = Append(history, User)
    <3>1. User \in Items /\ User.role \notin Own
      BY DEF User, Items, Own
    <3>2. /\ recorded' = Append(recorded, User) /\ ~step.error /\ pc = "after"
          /\ UNCHANGED <<provider, cursor, chain>>
      <4>1. history' # history
        BY <1>1, <2>1, <3>1 DEF LoopType
      <4> QED
        BY <1>10, <4>1 DEF Judge
    <3> QED
      BY <1>4, <2>1, <3>1, <3>2
  <2>2. CASE UNCHANGED <<history, recorded>>
    BY <1>2, <1>10, <2>2 DEF Judge, Close, NextTurn
  <2> QED
    BY <1>10, <2>1, <2>2 DEF Judge
<1>11. ASSUME pc = "dispatch" PROVE pending # <<>> => Result(Head(pending)) \in Items
  BY <1>1 DEF LoopType, Result, Items
<1>12. CASE Dispatch
  <2>1. PICK more \in BOOLEAN :
          /\ history' = history \o Formatted(Head(pending), more) /\ pc = "dispatch" /\ pending # <<>>
          /\ recorded' = Append(recorded, Result(Head(pending))) /\ UNCHANGED <<provider, cursor, chain>>
    BY <1>12 DEF Dispatch
  <2> DEFINE x == Result(Head(pending))
  <2>2. Owing(View, step.calls, pending)
    BY <2>1 DEF LoopInv, Speaking
  <2>3. View' = IF more THEN Append(Append(View, x), Shown) ELSE Append(View, x)
    BY <1>1, <2>1, <2>2, FormattedAnswers
  <2>4. x \in Items /\ x.role \notin Own /\ Shown \in Items /\ Shown.role \in Own
    <3>1. x \in Items /\ x.role = "result"
      BY <1>11, <2>1 DEF Result
    <3> QED
      BY <3>1 DEF Shown, Items, Own
  <2> HIDE DEF x
  <2>5. ASSUME provider # "gemini" PROVE Mirrors(View', recorded')
    <3>1. Mirrors(View, recorded)
      BY <2>1, <2>5 DEF RecordedInv
    <3>2. Mirrors(Append(View, x), recorded')
      BY <1>1, <2>1, <2>4, <3>1, MirrorsAppend DEF x
    <3>3. Append(View, x) \in Seq(Items) /\ recorded' \in Seq(Items)
      BY <1>1, <2>1, <2>4 DEF x
    <3>4. Mirrors(Append(Append(View, x), Shown), recorded')
      BY <2>4, <3>2, <3>3, MirrorsAppend
    <3> QED
      BY <2>3, <3>2, <3>4
  <2>6. recorded' \in Seq(Items)
    BY <1>1, <2>1, <2>4 DEF x
  <2> QED
    BY <2>1, <2>5, <2>6 DEF RecordedInv
<1>13. CASE Unformatted
  BY <1>3, <1>11, <1>13 DEF Unformatted, Raise
<1> QED
  BY <1>5, <1>6, <1>7, <1>8, <1>9, <1>10, <1>12, <1>13 DEF NextLoop, LoopStep

\* The prompt that a loop starts with is recorded.
LEMMA RecordedInit == InitLoop => RecordedInv
<1> SUFFICES ASSUME InitLoop PROVE RecordedInv
  OBVIOUS
<1>1. recorded = history /\ cursor = 0 /\ chain = <<>> /\ history \in {<<>>, <<User>>}
  BY DEF InitLoop
<1>2. User \in Items /\ User.role \notin Own
  BY DEF User, Items, Own
<1>3. history \in Seq(Items)
  <2>1. <<>> \in Seq(Items) /\ <<User>> \in Seq(Items)
    BY <1>2
  <2> QED
    BY <1>1, <2>1
<1>4. View = history
  <2>1. SubSeq(history, 1, Len(history)) = history
    BY <1>3, SubSeqFull
  <2> QED
    BY <1>1, <1>3, <2>1, ConcatEmptySeq DEF View, Seen
<1>5. Mirrors(<<>>, <<>>)
  <2>1. {j \in 1..0 : (<<>>)[j].role \notin Own} = {}
    OBVIOUS
  <2> QED
    BY <2>1, FS_EmptySet DEF Mirrors, Rank
<1>6. Mirrors(<<User>>, <<User>>)
  <2>1. <<User>> = Append(<<>>, User) /\ <<>> \in Seq(Items)
    OBVIOUS
  <2> QED
    BY <1>2, <1>5, <2>1, MirrorsAppend
<1> QED
  BY <1>1, <1>3, <1>4, <1>5, <1>6 DEF RecordedInv

\* Gemini takes an answer as it is: nothing is put behind one.
PlainInv == provider = "gemini" => \A i \in 1..Len(history) : history[i].role # "shown"

\* So it starts, and no step of the loop changes it.
LEMMA PlainInit == InitLoop => PlainInv
BY DEF InitLoop, PlainInv, User

LEMMA PlainKeeps == LoopInv /\ PlainInv /\ [NextLoop]_loopVars => PlainInv'
<1> SUFFICES ASSUME LoopInv, PlainInv, [NextLoop]_loopVars, provider' = "gemini"
             PROVE  \A i \in 1..Len(history') : history'[i].role # "shown"
  BY DEF PlainInv
<1>1. /\ history \in Seq(Items) /\ provider = "gemini" /\ pending \in Seq(CallIds)
      /\ \A i \in 1..Len(history) : history[i].role # "shown"
  <2>1. provider = "gemini"
    BY DEF NextLoop, LoopStep, CutLoop, Ask, Restream, BadJSON, Answered, Malformed, RequestFails,
           Degenerate, Judge, Dispatch, Unformatted, TurnDone, loopVars
  <2> QED
    BY <2>1 DEF LoopInv, LoopType, PlainInv
<1>2. ASSUME NEW x, x.role # "shown", history' = Append(history, x)
      PROVE  \A i \in 1..Len(history') : history'[i].role # "shown"
  BY <1>1, <1>2
<1>3. CASE UNCHANGED history
  BY <1>1, <1>3
<1>4. CASE Answered \/ Malformed
  <2>1. PICK ids : Keep(ids)
    BY <1>4 DEF Answered, Malformed
  <2>2. history' = Append(history, Says(ids)) \/ history' = history
    BY <1>1, <2>1 DEF Keep, KeepGemini
  <2> QED
    BY <1>2, <1>3, <2>2 DEF Says
<1>5. CASE Judge
  BY <1>2, <1>3, <1>5 DEF Judge, User
<1>6. CASE Dispatch
  <2>1. history' = history \o <<Result(Head(pending))>> /\ pending # <<>>
    BY <1>1, <1>6 DEF Dispatch, Formatted
  <2>2. Result(Head(pending)) \in Items /\ Result(Head(pending)).role = "result"
    BY <1>1, <2>1 DEF Result, Items
  <2>3. history' = Append(history, Result(Head(pending)))
    BY <1>1, <2>1, <2>2, AppendIsConcat
  <2> QED
    BY <1>2, <2>2, <2>3
<1> QED
  BY <1>1, <1>3, <1>4, <1>5, <1>6 DEF NextLoop, LoopStep, CutLoop, Ask, Restream, BadJSON, RequestFails,
     Degenerate, Unformatted, TurnDone, loopVars

\* With Gemini the prompt is the history.
LEMMA PromptPlain ==
  ASSUME PlainInv, provider = "gemini" PROVE \A i \in 1..Len(Prompt) : Prompt[i].role # "shown"
BY DEF PlainInv, Prompt

\* Whatever a provider answers, and however often a request is repeated or
\* thrown away: each call is answered once and in order before the model is
\* asked again, the continuation ids stand for a beginning of the messages, and
\* the verdict says why the loop ended (hud/agents/tool_agent.py).
THEOREM LoopAlways == InitLoop /\ [][NextLoop]_loopVars => []LoopSound
<1>0. LoopInv /\ RecordedInv => ShownIsRecorded
  BY PromptMirrors DEF LoopInv, RecordedInv, ShownIsRecorded
<1>1. LoopInv /\ PlainInv => AllAnswered
  BY PromptComplete, PromptPlain DEF LoopInv, Speaking, AllAnswered
<1>2. LoopInv => ContinuesPrefix
  <2> SUFFICES ASSUME LoopInv PROVE ContinuesPrefix
    OBVIOUS
  <2>1. /\ cont \in Seq(Items) /\ history \in Seq(Items) /\ Len(cont) <= Len(history)
        /\ \A k \in 1..Len(cont) : cont[k] = history[k]
    BY DEF LoopInv, LoopType, Continuing
  <2>2. SubSeq(cont, 1, Len(cont)) = SubSeq(history, 1, Len(cont))
    <3>1. /\ SubSeq(history, 1, Len(cont)) \in Seq(Items) /\ Len(SubSeq(history, 1, Len(cont))) = Len(cont)
          /\ \A k \in 1..Len(cont) : SubSeq(history, 1, Len(cont))[k] = history[k]
      BY <2>1
    <3>2. SubSeq(cont, 1, Len(cont)) = cont
      BY <2>1, SubSeqFull
    <3> QED
      BY <2>1, <3>1, <3>2, SeqEqual
  <2> QED
    BY <2>1, <2>2 DEF ContinuesPrefix, IsPrefix
<1> QED
  BY <1>0, <1>1, <1>2, LoopInit, LoopKeeps, RecordedInit, RecordedKeeps, PlainInit, PlainKeeps, PTL DEF LoopInv, LoopSound

-----------------------------------------------------------------------------
(* What a scan of the workspace sees and keeps, each for every file.           *)
FileRule == INSTANCE FileRules

\* What an entry holds of the size and the time of a file, and of nothing else.
Stats(f) == {<<kind, f.size, f.mtime>> : kind \in {"redacted", "overlimit", "budget"}}

\* The entry of a file that did not change since the one before.
LEMMA EntryKept ==
  ASSUME NEW f, NEW prev, NEW loaded \in Nat, NEW secret, FileRule!Unchanged(f, prev)
  PROVE  LET e == FileRule!BuildEntry(f, prev, loaded, secret)
         IN e.lines = prev.lines /\ e.redacted = prev.redacted /\ e.hash = prev.hash /\ e.mtime = f.mtime /\ e.loaded = loaded
  BY SMT DEF FileRule!BuildEntry

\* The entry of a file that is new or changed: without its content under a
\* secret name, and else within the budget of the scan.
LEMMA EntryRead ==
  ASSUME NEW f, f.size \in Nat, NEW prev, NEW loaded \in Nat, NEW secret, ~FileRule!Unchanged(f, prev)
  PROVE  LET e == FileRule!BuildEntry(f, prev, loaded, secret)
         IN /\ e.mtime = f.mtime /\ e.loaded \in Nat
            /\ e.hash \in Stats(f) \cup {FileRule!Hash(f)}
            /\ FileRule!Matches(f.path, FALSE, secret) => e.lines = "none" /\ e.redacted = TRUE
            /\ loaded <= FileRule!ScanLimit => e.loaded <= FileRule!ScanLimit
<1> DEFINE e == FileRule!BuildEntry(f, prev, loaded, secret)
           entry(hash, lines, redacted, bytes) ==
             [size |-> f.size, mtime |-> f.mtime, hash |-> hash, lines |-> lines, redacted |-> redacted, loaded |-> loaded + bytes]
           stat(kind) == <<kind, f.size, f.mtime>>
           secretly == FileRule!Matches(f.path, FALSE, secret)
<1>1. secretly => e = entry(stat("redacted"), "none", TRUE, 0)
  BY Zenon DEF FileRule!BuildEntry
<1>2. ~secretly /\ f.size > FileRule!DiffLimit => e = entry(stat("overlimit"), "none", FALSE, 0)
  BY Zenon DEF FileRule!BuildEntry
<1>3. ~secretly /\ ~(f.size > FileRule!DiffLimit) =>
        e = IF loaded + f.size > FileRule!ScanLimit THEN entry(stat("budget"), "none", FALSE, 0)
            ELSE entry(FileRule!Hash(f), FileRule!Content(f), FALSE, f.size)
  BY Zenon DEF FileRule!BuildEntry
<1> HIDE DEF e, secretly
<1>4. e.mtime = f.mtime /\ e.loaded \in Nat
  BY <1>1, <1>2, <1>3
<1>5. e.hash \in Stats(f) \cup {FileRule!Hash(f)}
  BY <1>1, <1>2, <1>3 DEF Stats
<1>6. secretly => e.lines = "none" /\ e.redacted = TRUE
  BY <1>1
<1>7. loaded <= FileRule!ScanLimit => e.loaded <= FileRule!ScanLimit
  BY <1>1, <1>2, <1>3 DEF FileRule!ScanLimit
<1> QED
  BY <1>4, <1>5, <1>6, <1>7 DEF e, secretly

\* Two scans of any file (file_tracker.py:574): nothing of a secret one is read,
\* kept or shown, the budget of a scan is never passed, and a file that was read
\* and then written at another time has another hash.  (A file of time 0 and size
\* 0 passes for one seen before.)
THEOREM ScansKeptApart ==
  ASSUME NEW f, NEW g, f.path = g.path, f.size \in Nat, g.size \in Nat, f.mtime # 0, NEW loaded \in Nat, NEW secret
  PROVE  FileRule!ScansApart(f, g, loaded, secret)
<1> DEFINE one == FileRule!BuildEntry(f, FileRule!NoEntry, loaded, secret)
           two == FileRule!BuildEntry(g, one, loaded, secret)
           secretly == FileRule!Matches(f.path, FALSE, secret)
<1>1. ~FileRule!Unchanged(f, FileRule!NoEntry)
  BY DEF FileRule!Unchanged, FileRule!NoEntry
<1>2. /\ one.mtime = f.mtime /\ one.loaded \in Nat
      /\ one.hash \in Stats(f) \cup {FileRule!Hash(f)}
      /\ secretly => one.lines = "none" /\ one.redacted = TRUE
      /\ loaded <= FileRule!ScanLimit => one.loaded <= FileRule!ScanLimit
  BY <1>1, EntryRead
<1> HIDE DEF one
<1>3. CASE FileRule!Unchanged(g, one)
  <2>1. /\ two.lines = one.lines /\ two.redacted = one.redacted /\ two.loaded = loaded
    BY <1>3, EntryKept
  <2>2. f.mtime = g.mtime
    BY <1>2, <1>3 DEF FileRule!Unchanged
  <2> HIDE DEF two
  <2>3. secretly => FileRule!PatchText(one, two) = "secret"
    BY <1>2, <2>1 DEF FileRule!PatchText
  <2> QED
    BY <1>2, <2>1, <2>2, <2>3, Zenon DEF FileRule!ScansApart, one, two, secretly
<1>4. CASE ~FileRule!Unchanged(g, one)
  <2>1. /\ two.hash \in Stats(g) \cup {FileRule!Hash(g)}
        /\ secretly => two.lines = "none" /\ two.redacted = TRUE
        /\ loaded <= FileRule!ScanLimit => two.loaded <= FileRule!ScanLimit
    BY <1>4, EntryRead
  <2> HIDE DEF two
  <2>2. f.mtime # g.mtime /\ f.version # g.version /\ f.readable /\ g.readable => one.hash # two.hash
    BY <1>2, <2>1 DEF Stats, FileRule!Hash
  <2>3. secretly => FileRule!PatchText(one, two) = "secret"
    BY <1>2, <2>1 DEF FileRule!PatchText
  <2> QED
    BY <1>2, <2>1, <2>2, <2>3, Zenon DEF FileRule!ScansApart, one, two, secretly
<1> QED
  BY <1>3, <1>4

\* A path of any depth is visited exactly where neither it nor a directory above
\* it is excluded (file_tracker.py:533).
THEOREM NothingIsHidden ==
  ASSUME NEW Name, NEW path \in Seq(Name), path # <<>>, NEW exclude
  PROVE  FileRule!NothingHidden(path, exclude)
<1>1. SubSeq(path, 1, Len(path)) = path
  OBVIOUS
<1>2. FileRule!Visited(path, exclude) <=> \A i \in 1..Len(path) : ~FileRule!Matches(SubSeq(path, 1, i), i < Len(path), exclude)
  BY DEF FileRule!Visited
<1>3. \A i \in 1..Len(path) : i = Len(path) \/ (i \in 1..Len(path) - 1 /\ (i < Len(path)) = TRUE)
  OBVIOUS
<1>4. FileRule!NothingHidden(path, exclude) <=> (FileRule!Visited(path, exclude) <=> ~FileRule!Matches(path, FALSE, exclude)
        /\ \A i \in 1..Len(path) - 1 : ~FileRule!Matches(SubSeq(path, 1, i), TRUE, exclude))
  BY Zenon DEF FileRule!NothingHidden
<1>5. (Len(path) < Len(path)) = FALSE /\ Len(path) \in 1..Len(path) /\ \A i \in 1..Len(path) - 1 : i \in 1..Len(path) /\ (i < Len(path)) = TRUE
  OBVIOUS
<1> QED
  BY <1>1, <1>2, <1>3, <1>4, <1>5, Zenon

-----------------------------------------------------------------------------
(* The pages an agent's tool reads a file by.                                  *)
EditRule == INSTANCE EditRules

\* A set of numbers has a least one.
LEMMA LeastOf == ASSUME NEW S \in SUBSET Nat, S # {} PROVE \E m \in S : \A n \in S : m <= n
<1>1. PICK m \in S : \A n \in S : ~(<<n, m>> \in OpToRel(<, Nat))
  BY NatLessThanWellFounded, WFMin
<1>2. \A n \in S : ~(n < m)
  BY <1>1 DEF OpToRel
<1> QED
  BY <1>2

\* Pages of one size lie one behind the other.
LEMMA PagesStack ==
  ASSUME NEW limit \in Nat \ {0}, NEW k \in Nat
  PROVE  /\ k * limit \in Nat /\ (k + 1) * limit = k * limit + limit /\ k <= k * limit
         /\ \A j \in Nat : k < j => k * limit + limit <= j * limit
<1>1. k * limit \in Nat /\ (k + 1) * limit = k * limit + limit
  OBVIOUS
<1>2. k <= k * limit
  <2>1. PICK d \in Nat : limit = 1 + d
    <3>1. limit - 1 \in Nat /\ limit = 1 + (limit - 1)
      OBVIOUS
    <3> QED
      BY <3>1
  <2>2. k * (1 + d) = k + k * d /\ k * d \in Nat
    OBVIOUS
  <2> QED
    BY <2>1, <2>2
<1>3. ASSUME NEW j \in Nat, k < j PROVE k * limit + limit <= j * limit
  <2>1. PICK d \in Nat : j = k + 1 + d
    <3>1. j - k - 1 \in Nat /\ j = k + 1 + (j - k - 1)
      BY <1>3
    <3> QED
      BY <3>1
  <2>2. (k + 1 + d) * limit = k * limit + limit + d * limit /\ d * limit \in Nat
    OBVIOUS
  <2> QED
    BY <2>1, <2>2
<1> QED
  BY <1>1, <1>2, <1>3

\* A page of a file: up to its size, or to the last line.
LEMMA PageFields ==
  ASSUME NEW n \in Nat, NEW offset \in Nat \ {0}, NEW limit \in Nat \ {0}
  PROVE  LET p == EditRule!Page(n, offset, limit) IN
         /\ offset = 1 \/ offset <= n =>
              p.shown = offset..(IF offset + limit - 1 <= n THEN offset + limit - 1 ELSE n)
         /\ p.more <=> offset + limit - 1 < n
         /\ p.more => p.next = offset + limit
<1> DEFINE p == EditRule!Page(n, offset, limit)
           last == IF offset + limit - 1 < n THEN offset + limit - 1 ELSE IF offset > n THEN offset - 1 ELSE n
<1>1. p = [shown |-> offset..last, more |-> last < n, next |-> last + 1]
  BY Zenon DEF EditRule!Page
<1>2. offset = 1 \/ offset <= n => last = IF offset + limit - 1 <= n THEN offset + limit - 1 ELSE n
  OBVIOUS
<1>3. (last < n <=> offset + limit - 1 < n) /\ (last < n => last + 1 = offset + limit)
  OBVIOUS
<1> HIDE DEF p, last
<1>4. p.shown = offset..last /\ (p.more <=> last < n) /\ p.next = last + 1
  BY <1>1
<1> QED
  BY <1>2, <1>3, <1>4 DEF p

\* A file is read where the page begins in it.
LEMMA FileRead ==
  ASSUME NEW n, NEW offset, NEW limit, ~(offset - 1 > n)
  PROVE  EditRule!ReadFile(n, offset, limit).ok
<1>1. EditRule!ReadFile(n, offset, limit) = [ok |-> TRUE, page |-> EditRule!Page(n, offset, limit)]
  BY Zenon DEF EditRule!ReadFile
<1> QED
  BY <1>1

\* Whoever reads a file of any length by pages of any size, each from the offset
\* the page before it named, sees every line once, to the last, and is refused no
\* page on the way (filesystem.py:65).
THEOREM PagesCoverAll ==
  ASSUME NEW n \in Nat, NEW limit \in Nat \ {0}
  PROVE  EditRule!PagesCover(n, limit)
<1> DEFINE page(k) == EditRule!Page(n, 1 + k * limit, limit)
           pages == {k \in 0..n : k = 0 \/ page(k - 1).more}
           Upto(k) == IF (k + 1) * limit <= n THEN (k + 1) * limit ELSE n
<1>1. ASSUME NEW k \in Nat
      PROVE  /\ page(k).more <=> (k + 1) * limit < n
             /\ k = 0 \/ k * limit < n =>
                  /\ page(k).shown = 1 + k * limit..Upto(k)
                  /\ page(k).more => page(k).next = 1 + (k + 1) * limit
  <2> DEFINE offset == 1 + k * limit
  <2>1. /\ k * limit \in Nat /\ (k + 1) * limit = k * limit + limit /\ (k = 0 => k * limit = 0)
    BY PagesStack
  <2>2. offset \in Nat \ {0} /\ offset + limit - 1 = (k + 1) * limit /\ offset + limit = 1 + (k + 1) * limit
    BY <2>1
  <2>3. k = 0 \/ k * limit < n => offset = 1 \/ offset <= n
    BY <2>1
  <2> HIDE DEF offset
  <2>4. LET p == EditRule!Page(n, offset, limit) IN
        /\ offset = 1 \/ offset <= n =>
             p.shown = offset..(IF offset + limit - 1 <= n THEN offset + limit - 1 ELSE n)
        /\ p.more <=> offset + limit - 1 < n
        /\ p.more => p.next = offset + limit
    BY <2>2, PageFields
  <2>5. LET p == EditRule!Page(n, offset, limit) IN
        /\ k = 0 \/ k * limit < n => p.shown = offset..Upto(k)
        /\ p.more <=> (k + 1) * limit < n
        /\ p.more => p.next = 1 + (k + 1) * limit
    BY <2>2, <2>3, <2>4
  <2> QED
    BY <2>5, Zenon DEF offset
<1>2. ASSUME NEW k \in Nat
      PROVE  k \in pages <=> k = 0 \/ k * limit < n
  <2>1. CASE k = 0
    BY <2>1
  <2>2. CASE k # 0
    <3>1. k - 1 \in Nat /\ k - 1 + 1 = k
      BY <2>2
    <3>2. page(k - 1).more <=> k * limit < n
      BY <1>1, <3>1
    <3>3. k <= k * limit /\ k * limit \in Nat
      BY PagesStack
    <3> HIDE DEF page
    <3> QED
      BY <2>2, <3>2, <3>3
  <2> QED
    BY <2>1, <2>2
<1>3. pages \subseteq Nat
  OBVIOUS
<1> HIDE DEF pages
\* A place lies on the first page that reaches it.
<1>4. ASSUME NEW x \in 1..n
      PROVE  \E k \in pages : x \in 1 + k * limit..Upto(k)
  <2> DEFINE reach == {k \in Nat : x <= (k + 1) * limit}
  <2>1. x \in reach
    <3>1. x <= x * limit /\ (x + 1) * limit = x * limit + limit /\ x * limit \in Nat
      BY PagesStack
    <3> QED
      BY <3>1
  <2>2. PICK k \in reach : \A j \in reach : k <= j
    BY <2>1, LeastOf
  <2>3. k # 0 => k * limit < x
    <3>1. SUFFICES ASSUME k # 0 PROVE k * limit < x
      OBVIOUS
    <3>2. k - 1 \in Nat /\ k - 1 + 1 = k /\ k - 1 \notin reach
      BY <2>2, <3>1
    <3>3. k * limit \in Nat
      BY PagesStack
    <3> QED
      BY <3>2, <3>3
  <2>4. k * limit \in Nat /\ (k + 1) * limit \in Nat /\ x <= (k + 1) * limit /\ (k = 0 => k * limit = 0)
    BY <2>2, PagesStack
  <2>5. k \in pages
    BY <1>2, <2>2, <2>3, <2>4
  <2>6. x \in 1 + k * limit..Upto(k)
    BY <2>3, <2>4
  <2> QED
    BY <2>5, <2>6
<1>5. ASSUME NEW k \in pages
      PROVE  1 + k * limit..Upto(k) \subseteq 1..n
  <2>1. k \in Nat /\ k * limit \in Nat /\ (k + 1) * limit \in Nat
    BY <1>3, PagesStack
  <2> QED
    BY <2>1
<1>6. ASSUME NEW k \in pages
      PROVE  page(k).shown = 1 + k * limit..Upto(k)
  BY <1>1, <1>2, <1>3
<1>7. UNION {page(k).shown : k \in pages} = 1..n
  <2> HIDE DEF page, Upto
  <2> QED
    BY <1>4, <1>5, <1>6
<1>8. ASSUME NEW j \in pages, NEW k \in pages, j < k
      PROVE  page(j).shown \cap page(k).shown = {}
  <2>1. /\ j * limit \in Nat /\ k * limit \in Nat
        /\ (j + 1) * limit = j * limit + limit /\ j * limit + limit <= k * limit
    BY <1>3, <1>8, PagesStack
  <2>2. \A x \in 1 + j * limit..Upto(j) : x <= k * limit
    BY <2>1
  <2>3. \A x \in 1 + k * limit..Upto(k) : ~(x <= k * limit)
    BY <2>1
  <2> HIDE DEF page, Upto
  <2> QED
    BY <1>6, <2>2, <2>3
<1>9. \A j, k \in pages : j # k => page(j).shown \cap page(k).shown = {}
  <2> HIDE DEF page
  <2>1. \A j, k \in pages : j # k => j < k \/ k < j
    BY <1>3
  <2> QED
    BY <1>8, <2>1
<1>10. ASSUME NEW k \in pages
       PROVE  /\ EditRule!ReadFile(n, 1 + k * limit, limit).ok
              /\ page(k).more => page(k).next = 1 + (k + 1) * limit
  <2>1. k \in Nat /\ k * limit \in Nat /\ (k = 0 => k * limit = 0) /\ (k = 0 \/ k * limit < n)
    BY <1>2, <1>3, PagesStack
  <2>2. EditRule!ReadFile(n, 1 + k * limit, limit).ok
    <3> DEFINE offset == 1 + k * limit
    <3>1. ~(offset - 1 > n)
      BY <2>1
    <3> HIDE DEF offset
    <3>2. EditRule!ReadFile(n, offset, limit).ok
      BY <3>1, FileRead
    <3> QED
      BY <3>2 DEF offset
  <2> QED
    BY <1>1, <2>1, <2>2
<1> QED
  BY <1>7, <1>9, <1>10, Zenon DEF EditRule!PagesCover, pages
=============================================================================
