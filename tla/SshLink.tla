-------------------------------- MODULE SshLink --------------------------------
(***************************************************************************)
(* The SSH client an agent's tools share (capabilities/ssh.py): one          *)
(* connection, put back by whoever finds it gone, commands over it that may  *)
(* be cut short, and close().  A connection is a number; 0 is none.  The     *)
(* server or the network may drop it at any time, at most Breakages times.   *)
(***************************************************************************)
EXTENDS Naturals, FiniteSets

CONSTANTS Tools,        \* the concurrent callers of run() and create_process()
          Breakages,    \* bound on what the network breaks
          Reconnects    \* SSH_RECONNECT_ATTEMPTS

VARIABLES
  conn,       \* _conn
  open,       \* the connections that are not closed
  fresh,      \* how many were ever made
  broken,     \* how often one broke
  closing,    \* _closing
  relock,     \* who holds _reconnect_lock: {} or {a tool} or {"close"}
  closer,     \* close(): "out", "lock", "done"
  call        \* each tool's call: [pc, on, tries, sent, channel, process, cuts]

linkVars == <<conn, open, fresh, broken, closing, relock, closer, call>>

\* process: run() has it; cuts: how often the call was cut short.
NoCall == [pc |-> "out", on |-> 0, tries |-> 0, sent |-> 0, channel |-> FALSE, process |-> FALSE, cuts |-> 0]
InitLink ==
  /\ conn = 1 /\ open = {1} /\ fresh = 1 /\ broken = 0
  /\ closing = FALSE /\ relock = {} /\ closer = "out"
  /\ call = [t \in Tools |-> NoCall]

Goes(t, pc) == call' = [call EXCEPT ![t].pc = pc]
Quits(t, how) == call' = [call EXCEPT ![t].pc = how, ![t].channel = FALSE]
Frees(t) == relock' = relock \ {t}

\* _connection: the connection if it is there, else the lock.
Looks(t) ==
  /\ call[t].pc = "out"
  /\ IF closing THEN Quits(t, "lost")
     ELSE IF conn \in open THEN call' = [call EXCEPT ![t].pc = "opens", ![t].on = conn]
     ELSE Goes(t, "waits")
  /\ UNCHANGED <<conn, open, fresh, broken, closing, relock, closer>>
Enters(t) ==
  /\ call[t].pc = "waits" /\ relock = {}
  /\ IF closing THEN Quits(t, "lost") /\ UNCHANGED relock
     ELSE IF conn \in open THEN call' = [call EXCEPT ![t].pc = "opens", ![t].on = conn] /\ UNCHANGED relock
     ELSE relock' = {t} /\ call' = [call EXCEPT ![t].pc = "dials", ![t].tries = 1]
  /\ UNCHANGED <<conn, open, fresh, broken, closing, closer>>
\* One attempt: a new connection, closed again if close() came meanwhile, ...
Dropped(t) == closing
Dials(t) ==
  /\ call[t].pc = "dials"
  /\ fresh' = fresh + 1
  /\ IF Dropped(t) THEN Quits(t, "lost") /\ UNCHANGED <<conn, open>>
     ELSE /\ conn' = fresh' /\ open' = open \cup {fresh'}
          /\ call' = [call EXCEPT ![t].pc = "opens", ![t].on = fresh']
  /\ Frees(t) /\ UNCHANGED <<broken, closing, closer>>
\* ... or an error, and the next after a pause, which looks at _closing again.
DialFails(t) ==
  /\ call[t].pc = "dials" /\ broken < Breakages
  /\ broken' = broken + 1
  /\ IF closing \/ call[t].tries = Reconnects THEN Quits(t, "lost") /\ Frees(t)
     ELSE call' = [call EXCEPT ![t].pc = "pauses", ![t].tries = @ + 1] /\ UNCHANGED relock
  /\ UNCHANGED <<conn, open, fresh, closing, closer>>
Redials(t) ==
  /\ call[t].pc = "pauses"
  /\ IF closing THEN Quits(t, "lost") /\ Frees(t) ELSE Goes(t, "dials") /\ UNCHANGED relock
  /\ UNCHANGED <<conn, open, fresh, broken, closing, closer>>

\* run: one command on the connection it got, never a second time.
Sends(t) ==
  /\ call[t].pc = "opens"
  /\ IF call[t].on \in open
     THEN call' = [call EXCEPT ![t].pc = "runs", ![t].sent = @ + 1, ![t].channel = TRUE, ![t].process = TRUE]
     ELSE Quits(t, "lost")
  /\ UNCHANGED <<conn, open, fresh, broken, closing, relock, closer>>
Rejected(t) ==
  /\ call[t].pc = "opens" /\ broken < Breakages
  /\ broken' = broken + 1 /\ Quits(t, "lost")
  /\ UNCHANGED <<conn, open, fresh, closing, relock, closer>>
\* It ends with a status, or without: then the connection is closed.
Answers(t) ==
  /\ call[t].pc = "runs" /\ call[t].on \in open /\ Quits(t, "done")
  /\ UNCHANGED <<conn, open, fresh, broken, closing, relock, closer>>
Unanswered(t) ==
  /\ call[t].pc = "runs" /\ (call[t].on \in open => broken < Breakages)
  /\ broken' = IF call[t].on \in open THEN broken + 1 ELSE broken
  /\ open' = open \ {call[t].on} /\ Quits(t, "lost")
  /\ UNCHANGED <<conn, fresh, closing, relock, closer>>
\* A timeout or a cancellation: what waits is left, the lock it held is free.
CutShort(t) ==
  /\ call[t].pc \in {"waits", "dials", "pauses"}
  /\ call' = [call EXCEPT ![t].pc = "cut", ![t].cuts = 1] /\ Frees(t)
  /\ UNCHANGED <<conn, open, fresh, broken, closing, closer>>
\* While the channel is being opened, nobody has it to close it, whether or not the
\* server has its command by then (external).
CutOpening(t) ==
  /\ call[t].pc = "opens"
  /\ \E got \in BOOLEAN :
       /\ got => call[t].on \in open
       /\ call' = [call EXCEPT ![t].pc = "cut", ![t].cuts = 1, ![t].channel = got, ![t].sent = IF got THEN 1 ELSE 0]
  /\ UNCHANGED <<conn, open, fresh, broken, closing, relock, closer>>
\* A command that runs is told to end, ...
CutRunning(t) ==
  /\ call[t].pc = "runs"
  /\ call' = [call EXCEPT ![t].pc = "ends", ![t].cuts = 1]
  /\ UNCHANGED <<conn, open, fresh, broken, closing, relock, closer>>
\* ... and run() waits 5 s for its channel, ...
SessionCloses(t) ==
  /\ call[t].pc \in {"ends", "closes"} /\ Quits(t, "cut")
  /\ UNCHANGED <<conn, open, fresh, broken, closing, relock, closer>>
\* ... closes it when they are over or it cannot wait, and waits 5 s again.
\* Mutant: the channel is left open.
Overdue_Open(t) == call[t].channel
Overdue(t) == FALSE
Forces(t) ==
  /\ call[t].pc = "ends"
  /\ call' = [call EXCEPT ![t].pc = "closes", ![t].channel = Overdue(t)]
  /\ UNCHANGED <<conn, open, fresh, broken, closing, relock, closer>>
\* A cancellation in either wait ends the call there and then.
CutAgain(t) ==
  /\ call[t].pc \in {"ends", "closes"}
  /\ call' = [call EXCEPT ![t].pc = "cut", ![t].cuts = 2]
  /\ UNCHANGED <<conn, open, fresh, broken, closing, relock, closer>>

\* The network breaks what is open.
Breaks ==
  /\ broken < Breakages /\ conn \in open
  /\ open' = open \ {conn} /\ broken' = broken + 1
  /\ UNCHANGED <<conn, fresh, closing, relock, closer, call>>

\* close: the flag at once, the connection once nobody puts one back.
Closes ==
  /\ closer = "out" /\ closing' = TRUE /\ closer' = "lock"
  /\ UNCHANGED <<conn, open, fresh, broken, relock, call>>
Shut ==
  /\ closer = "lock" /\ relock = {}
  /\ open' = open \ {conn} /\ closer' = "done"
  /\ UNCHANGED <<conn, fresh, broken, closing, relock, call>>

NextLink ==
  \/ \E t \in Tools :
       \/ Looks(t) \/ Enters(t) \/ Dials(t) \/ DialFails(t) \/ Redials(t) \/ Sends(t) \/ Rejected(t)
       \/ Answers(t) \/ Unanswered(t)
       \/ CutShort(t) \/ CutOpening(t) \/ CutRunning(t) \/ SessionCloses(t) \/ Forces(t) \/ CutAgain(t)
  \/ Breaks \/ Closes \/ Shut

\* At most one connection is open and it is the client's; one caller at a time
\* puts it back; a command is sent once at most, and no channel stays open for a
\* caller that has its answer.  For one that was cut short a channel stays open only
\* if it was cut before it had the process, or cut once more while it waited for the
\* command to end (ssh.py:110-124).  After close() no connection is open or comes back
\* (capabilities/ssh.py:94-169, 239-243).
LinkSound ==
  /\ open \subseteq {conn} /\ Cardinality(relock) <= 1
  /\ \A t \in Tools : call[t].pc \in {"dials", "pauses"} <=> relock = {t}
  /\ \A t \in Tools :
       /\ call[t].sent <= 1
       /\ call[t].channel =>
            \/ call[t].pc \in {"runs", "ends"}
            \/ call[t].pc = "cut" /\ (call[t].process => call[t].cuts = 2)
  /\ closer = "done" => open = {} /\ \A t \in Tools : call[t].pc \notin {"dials", "pauses"}
=============================================================================
