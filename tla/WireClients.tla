------------------------------ MODULE WireClients ------------------------------
(***************************************************************************)
(* The two socket clients whose replies a task of their own reads: CDPClient           *)
(* (capabilities/cdp.py), whose commands wait for the frame with their number, and     *)
(* RobotClient (capabilities/robot.py), whose agent takes the newest observation.      *)
(***************************************************************************)
EXTENDS SshLink, Sequences

CONSTANTS CdpCalls,        \* bound on the commands of a CDP session
          RobotFrames        \* bound on the frames a robot's environment sends

VARIABLES
  future,     \* each command's: "none", "waits", "result", "error", "closed", "cut"
  pending,    \* _pending: the commands a reply would find
  caller,     \* each command's send(): [pc, with, late]; with: the command whose reply it took
  browser,    \* the commands the browser has and has not answered
  inbox,      \* frames on the way to the client: [is, of]
  socket,     \* the CDP WebSocket is open
  reader,     \* _read_loop: "reads", "ended", or "failed" of a frame that is no JSON
  closes,     \* close(): "out", "awaits" the reader, "socket", "done", "raised"
  env,        \* the robot's environment: [sent, ends]
  wire,       \* its frames on the way: numbers, 0 being an error string
  queue,      \* RobotClient._queue, of at most one
  mailman,    \* _recv_loop: "reads", "ended"
  taken       \* what get_observation returned, in order; 0 raised

cdpVars == <<future, pending, caller, browser, inbox, socket, reader, closes>>
robotVars == <<env, wire, queue, mailman, taken>>

Ids == 1..CdpCalls
InitCdp ==
  /\ future = [i \in Ids |-> "none"] /\ pending = {} /\ browser = {} /\ inbox = <<>>
  /\ caller = [i \in Ids |-> [pc |-> "out", with |-> 0, late |-> FALSE]]
  /\ socket = TRUE /\ reader = "reads" /\ closes = "out"
\* connect has put the first observation of the claim into the queue.
InitRobot ==
  /\ env = [sent |-> 1, ends |-> FALSE] /\ wire = <<>> /\ queue = <<1>> /\ mailman = "reads" /\ taken = <<>>

---------------------------------------------------------------------------
(* CDP.                                                                         *)

\* send: the numbers come from one counter; on a closed socket it raises, and cut
\* while the frame drains it is gone: either way its entry stays.
Command(i) ==
  /\ caller[i].pc = "out" /\ \A k \in 1..i - 1 : caller[k].pc # "out"
  /\ future' = [future EXCEPT ![i] = "waits"] /\ pending' = pending \cup {i}
  /\ \E pc \in {"waits", "raised"} :
       /\ pc = "waits" => socket
       /\ caller' = [caller EXCEPT ![i].pc = pc, ![i].late = reader # "reads"]
  /\ browser' = IF socket THEN browser \cup {i} ELSE browser
  /\ UNCHANGED <<inbox, socket, reader, closes, robotVars>>
\* The browser: replies in any order, events, frames that are no JSON, the end.
Responds(i) ==
  /\ i \in browser /\ socket
  /\ \E is \in {"result", "error"} : inbox' = Append(inbox, [is |-> is, of |-> i])
  /\ browser' = browser \ {i} /\ UNCHANGED <<future, pending, caller, socket, reader, closes, robotVars>>
Notifies ==
  /\ socket /\ inbox = <<>> /\ browser # {}
  /\ \E is \in {"event", "garbled"} : inbox' = <<[is |-> is, of |-> 0]>>
  /\ UNCHANGED <<future, pending, caller, browser, socket, reader, closes, robotVars>>
Hangs ==
  /\ socket /\ socket' = FALSE
  /\ UNCHANGED <<future, pending, caller, browser, inbox, reader, closes, robotVars>>

\* _read_loop: a frame for the command that bears its number, if one waits ...
Asker(frame) == {frame.of} \cap pending
Read ==
  /\ reader = "reads" /\ closes # "awaits" /\ inbox # <<>> /\ Head(inbox).is # "garbled"
  /\ future' = [i \in Ids |-> IF i \in Asker(Head(inbox)) /\ future[i] = "waits" THEN Head(inbox).is ELSE future[i]]
  /\ caller' = [i \in Ids |-> IF i \in Asker(Head(inbox)) /\ future[i] = "waits" THEN [caller[i] EXCEPT !.with = Head(inbox).of] ELSE caller[i]]
  /\ inbox' = Tail(inbox) /\ UNCHANGED <<pending, browser, socket, reader, closes, robotVars>>
\* ... and its end, which wakes whoever waits.
\* Mutant: it only ends.
Roused_None(i) == FALSE
Roused(i) == i \in pending
Wakes == future' = [i \in Ids |-> IF Roused(i) /\ future[i] = "waits" THEN "closed" ELSE future[i]]
ReaderEnds ==
  /\ reader = "reads" /\ closes # "awaits" /\ Wakes
  /\ \/ inbox # <<>> /\ Head(inbox).is = "garbled" /\ inbox' = Tail(inbox) /\ reader' = "failed"
     \/ inbox = <<>> /\ ~socket /\ UNCHANGED inbox /\ reader' = "ended"
  /\ UNCHANGED <<pending, caller, browser, socket, closes, robotVars>>
\* close: the reader is cancelled, so that it reads no more, ...
CloseCdp ==
  /\ closes = "out" /\ closes' = "awaits"
  /\ UNCHANGED <<future, pending, caller, browser, inbox, socket, reader, robotVars>>
\* ... and awaited: what it raised of a frame ends close() with the socket open.
ReaderCut ==
  /\ closes = "awaits"
  /\ IF reader = "reads" THEN reader' = "ended" /\ Wakes ELSE UNCHANGED <<reader, future>>
  /\ closes' = IF reader = "failed" THEN "raised" ELSE "socket"
  /\ UNCHANGED <<pending, caller, browser, inbox, socket, robotVars>>
\* The socket closes, or close() is cut in its handshake.
ClosesSocket ==
  /\ closes = "socket" /\ closes' = "done" /\ socket' \in {FALSE, socket}
  /\ UNCHANGED <<future, pending, caller, browser, inbox, reader, robotVars>>
\* The waiter goes on, or is cancelled.
Resumes(i) ==
  /\ caller[i].pc = "waits" /\ future[i] # "waits"
  /\ caller' = [caller EXCEPT ![i].pc = IF future[i] = "result" THEN "done" ELSE "raised"]
  /\ pending' = pending \ {i} /\ UNCHANGED <<future, browser, inbox, socket, reader, closes, robotVars>>
CutCommand(i) ==
  /\ caller[i].pc = "waits"
  /\ caller' = [caller EXCEPT ![i].pc = "cut"] /\ pending' = pending \ {i}
  /\ future' = [future EXCEPT ![i] = IF @ = "waits" THEN "cut" ELSE @]
  /\ UNCHANGED <<browser, inbox, socket, reader, closes, robotVars>>

---------------------------------------------------------------------------
(* The robot.                                                                     *)

\* The environment sends its next observation, or an error, after which it ends.
EnvSends ==
  /\ ~env.ends /\ env.sent < RobotFrames
  /\ \/ env' = [env EXCEPT !.sent = @ + 1] /\ wire' = Append(wire, env.sent + 1)
     \/ env' = [env EXCEPT !.ends = TRUE] /\ wire' = Append(wire, 0)
     \/ env' = [env EXCEPT !.ends = TRUE] /\ UNCHANGED wire
  /\ UNCHANGED <<cdpVars, queue, mailman, taken>>
\* _recv_loop: what nobody took makes room.
Delivers ==
  /\ mailman = "reads" /\ wire # <<>>
  /\ queue' = <<Head(wire)>> /\ wire' = Tail(wire)
  /\ UNCHANGED <<cdpVars, env, mailman, taken>>
MailEnds ==
  /\ mailman = "reads" /\ wire = <<>> /\ env.ends /\ mailman' = "ended"
  /\ UNCHANGED <<cdpVars, env, wire, queue, taken>>
\* get_observation.
Observes ==
  /\ queue # <<>> /\ taken' = Append(taken, Head(queue)) /\ queue' = <<>>
  /\ UNCHANGED <<cdpVars, env, wire, mailman>>
CloseRobot ==
  /\ mailman = "reads" /\ mailman' = "ended"
  /\ UNCHANGED <<cdpVars, env, wire, queue, taken>>

NextCdp ==
  \/ \E i \in Ids : Command(i) \/ Responds(i) \/ Resumes(i) \/ CutCommand(i)
  \/ Notifies \/ Hangs \/ Read \/ ReaderEnds \/ CloseCdp \/ ReaderCut \/ ClosesSocket
NextRobot == EnvSends \/ Delivers \/ MailEnds \/ Observes \/ CloseRobot

\* A command ends with the reply to it or with the connection's end, in whatever
\* order replies come and whoever gave up meanwhile; whoever waited when the
\* reader ended is woken.  Only a command sent after a reader that ended over an
\* open socket is left waiting (cdp.py:117-138).
CommandsAnswered ==
  \A i \in Ids :
    /\ caller[i].with # 0 => caller[i].with = i
    /\ caller[i].pc = "done" => caller[i].with = i
    /\ future[i] = "waits" /\ caller[i].pc = "waits" => reader = "reads" \/ caller[i].late
    /\ caller[i].pc = "waits" => i \in pending
\* The agent never sees an observation older than one it saw, nor one while a
\* newer one has arrived; the environment's error is the last thing it takes
\* (robot.py:_recv_loop, get_observation).
NewestTaken ==
  LET seen == {taken[k] : k \in 1..Len(taken)} \ {0}
      waiting == {queue[k] : k \in 1..Len(queue)} \cup {wire[k] : k \in 1..Len(wire)}
  IN /\ \A k \in 1..Len(taken) - 1 : taken[k] # 0 /\ (taken[k + 1] # 0 => taken[k] < taken[k + 1])
     /\ \A a \in seen, b \in waiting \ {0} : a < b
     /\ \E b \in {taken[k] : k \in 1..Len(taken)} \cup waiting : b = env.sent \/ b = 0
WireSound == CommandsAnswered /\ NewestTaken
\* What each of the three clients promises those who use its connection: SSHClient that
\* one connection is open and a command is sent once (ssh.py), CDPClient that an answer
\* reaches the call with its number (cdp.py), RobotClient that an observation taken is
\* never older than one seen (capabilities/robot.py).
ClientsSound == LinkSound /\ WireSound
=============================================================================
