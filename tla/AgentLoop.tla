------------------------------- MODULE AgentLoop -------------------------------
(* One rollout of a tool agent: the loop of tool_agent.py over get_response   *)
(* of each provider.  `history` is RunState.messages; OpenAI keeps the        *)
(* model's own output on the server (`chain`) and sends only what lies past   *)
(* `cursor`; the compatible agent can continue from recorded token ids.       *)
EXTENDS Naturals, FiniteSets, Sequences, SequencesExt

CONSTANTS MaxSteps,   \* config.max_steps
          Kinds       \* the providers, among {"claude", "openai", "compatible", "gemini"}

SSHLimit == 3         \* MAX_CONSECUTIVE_SSH_FAILURES
StreamAttempts == 3   \* _STREAM_MAX_ATTEMPTS
ASSUME LoopAssumption == MaxSteps \in Nat \ {0}

VARIABLES provider,   \* which agent runs, and its stop_on
          stopOn,
          pc,         \* "sample", "request", "dispatch", "after", "ended", "cut"
          turn,
          history,
          cursor,     \* OpenAIRunState.message_cursor
          chain,      \* what the response of last_response_id was built from
          cont,       \* the messages continuation_token_ids stand for
          attempt,      \* get_response's failures so far: [json, stream]
          step,       \* the last AgentStep of the loop
          pending,    \* its calls still to dispatch
          failures,   \* consecutive_ssh_failures
          recorded,   \* run.record, as the items a model would be shown
          verdict     \* trace.status and trace.stop_reason

loopVars == <<provider, stopOn, pc, turn, history, cursor, chain, cont, attempt, step,
              pending, failures, recorded, verdict>>

User == [role |-> "user", calls |-> <<>>]
Note == [role |-> "note", calls |-> <<>>]   \* put in by an agent itself
Says(calls) == [role |-> "model", calls |-> calls]
Result(call) == [role |-> "result", calls |-> <<call>>]
Shown == [role |-> "shown", calls |-> <<>>] \* in the user's name, behind a result
NoStep == [error |-> FALSE, calls |-> <<>>, cutShort |-> FALSE, stop |-> "none", bad |-> FALSE]
Running == [status |-> "running", stop |-> "none"]

\* The calls of a turn: none, one or two, numbered by the turn.
Calls == {<<>>, << <<turn, 1>> >>, << <<turn, 1>>, <<turn, 2>> >>}

InitLoop ==
  /\ provider \in Kinds
  /\ stopOn \in SUBSET {"length", "malformed_tool_call"}
  /\ pc = "sample" /\ turn = 1
  /\ history \in {<<>>, <<User>>} /\ cursor = 0 /\ chain = <<>> /\ cont = <<>>
  /\ attempt = [json |-> 0, stream |-> 0]
  /\ step = NoStep /\ pending = <<>> /\ failures = 0
  /\ recorded = history
  /\ verdict = Running

\* What the model is shown when it is sampled: without any prompt the OpenAI
\* agent sends a blank one.
NewItems == IF history = <<>> THEN <<Note>> ELSE SubSeq(history, cursor + 1, Len(history))
Prompt == IF provider = "openai" THEN chain \o NewItems ELSE history

\* The loop's `except Exception`; stop_reason stays unset.
Raise == /\ verdict' = [status |-> "error", stop |-> "none"]
         /\ pc' = "ended"

\* get_response is entered.  Every call has an id, and so an answer: there is
\* always something new to send.
Ask ==
  /\ pc = "sample"
  /\ attempt' = [json |-> 0, stream |-> 0]
  /\ pc' = "request"
  /\ UNCHANGED <<provider, stopOn, turn, history, cursor, chain, cont, step, pending, failures,
                 recorded, verdict>>

\* A stream that failed after it opened, or with an inline error of a retryable
\* type, is asked for again; nothing of it was kept.
Restream ==
  /\ pc = "request" /\ provider = "claude" /\ attempt.stream + 1 < StreamAttempts
  /\ attempt' = [attempt EXCEPT !.stream = @ + 1]
  /\ UNCHANGED <<provider, stopOn, pc, turn, history, cursor, chain, cont, step, pending,
                 failures, recorded, verdict>>

\* Tool arguments that do not parse: once silently again, once with a plea.
BadJSON ==
  /\ pc = "request" /\ provider = "claude"
  /\ attempt' = [json |-> attempt.json + 1, stream |-> 0]
  /\ history' = IF attempt.json = 1 THEN Append(history, Note) ELSE history
  /\ IF attempt.json = 2 THEN Raise ELSE UNCHANGED <<pc, verdict>>
  /\ UNCHANGED <<provider, stopOn, turn, cursor, chain, cont, step, pending, failures, recorded>>

\* The provider's answer is taken into the state the next request is built from.
KeepClaude(calls) == /\ history' = Append(history, Says(calls))
                     /\ UNCHANGED <<cursor, chain, cont>>
KeepOpenAI(calls) == /\ cursor' = Len(history)
                     /\ chain' = (chain \o NewItems) \o <<Says(calls)>>
                     /\ UNCHANGED <<history, cont>>
KeepCompatible(calls) ==
  /\ history' = Append(history, Says(calls))
  /\ cont' \in {history', <<>>, cont}    \* flat ids, chunks only, no ids returned
  /\ UNCHANGED <<cursor, chain>>

\* A candidate without content leaves no message.
KeepGemini(calls) == /\ \/ history' = Append(history, Says(calls))
                        \/ calls = <<>> /\ history' = history
                     /\ UNCHANGED <<cursor, chain, cont>>
Keep(calls) == \/ provider = "claude" /\ KeepClaude(calls)
               \/ provider = "openai" /\ KeepOpenAI(calls)
               \/ provider = "compatible" /\ KeepCompatible(calls)
               \/ provider = "gemini" /\ KeepGemini(calls)

\* A step is recorded; one with an error ends the loop.
Take(s) == /\ step' = s
           /\ recorded' = Append(recorded, Says(s.calls))
           /\ pc' = "after"

\* Arguments stay unparsed text only with the OpenAI agents.
Answered ==
  /\ pc = "request"
  /\ \E calls \in Calls, short, bad \in BOOLEAN :
       /\ bad => calls # <<>> /\ provider \in {"openai", "compatible"}
       /\ Keep(calls)
       /\ Take([NoStep EXCEPT !.calls = calls, !.cutShort = short, !.bad = bad])
  /\ UNCHANGED <<provider, stopOn, turn, attempt, pending, failures, verdict>>

\* Gemini's malformed call is an error of the step; its content is kept.
Malformed ==
  /\ pc = "request" /\ provider = "gemini"
  /\ Keep(<<>>)
  /\ Take([NoStep EXCEPT !.error = TRUE, !.stop = "malformed_tool_call"])
  /\ UNCHANGED <<provider, stopOn, turn, attempt, pending, failures, verdict>>

\* The compatible agent reports a failed request as a step; the others raise.
RequestFails ==
  /\ pc = "request"
  /\ IF provider = "compatible"
     THEN Take([NoStep EXCEPT !.error = TRUE]) /\ UNCHANGED verdict
     ELSE Raise /\ UNCHANGED <<step, recorded>>
  /\ UNCHANGED <<provider, stopOn, turn, history, cursor, chain, cont, attempt, pending, failures>>

\* The end of the range: max_steps only if the last turn's calls were dispatched.
Closing(s, stopped, hitMax) ==
  [status |-> IF s.error THEN "error" ELSE "completed",
   stop |-> CASE stopped # "none" -> stopped
              [] s.error -> "none"
              [] hitMax -> "max_steps"
              [] s.cutShort -> "length"
              [] OTHER -> "done"]
Close(stopped, hitMax) == /\ verdict' = Closing(step, stopped, hitMax)
                          /\ pc' = "ended" /\ turn' = turn
NextTurn(hitMax) == IF turn = MaxSteps THEN Close("none", hitMax)
                    ELSE turn' = turn + 1 /\ pc' = "sample" /\ verdict' = verdict

\* Mutant: the response is committed before it is looked at.
Degenerate_Kept ==
  /\ pc = "request" /\ provider = "openai" /\ turn < MaxSteps
  /\ KeepOpenAI(<< <<turn, 1>> >>)
  /\ turn' = turn + 1 /\ pc' = "sample"
  /\ UNCHANGED <<provider, stopOn, attempt, step, pending, failures, recorded, verdict>>

\* A turn with an empty shell call is thrown away before anything of it is kept.
Degenerate ==
  /\ pc = "request" /\ provider = "openai"
  /\ IF turn = MaxSteps THEN Raise /\ UNCHANGED turn
     ELSE turn' = turn + 1 /\ pc' = "sample" /\ UNCHANGED verdict
  /\ UNCHANGED <<provider, stopOn, history, cursor, chain, cont, attempt, step, pending, failures, recorded>>

\* _stop_condition
Tripped == CASE step.cutShort /\ "length" \in stopOn -> "length"
             [] step.bad /\ "malformed_tool_call" \in stopOn -> "malformed_tool_call"
             [] OTHER -> "none"

\* After the step is recorded: an error or a stop ends the loop, calls are
\* dispatched, and a turn without calls ends it unless a follow-up is made up.
Judge ==
  /\ pc = "after"
  /\ \/ step.error /\ Close(step.stop, FALSE) /\ UNCHANGED <<history, recorded, pending>>
     \/ ~step.error /\ step.calls = <<>> /\ Close("none", FALSE) /\ UNCHANGED <<history, recorded, pending>>
     \/ /\ ~step.error /\ step.calls = <<>>                                \* auto_respond
        /\ history' = Append(history, User) /\ recorded' = Append(recorded, User)
        /\ NextTurn(FALSE) /\ UNCHANGED pending
     \/ /\ ~step.error /\ step.calls # <<>> /\ Tripped # "none"
        /\ Close(Tripped, FALSE) /\ UNCHANGED <<history, recorded, pending>>
     \/ /\ ~step.error /\ step.calls # <<>> /\ Tripped = "none"
        /\ pending' = step.calls /\ pc' = "dispatch"
        /\ UNCHANGED <<history, recorded, turn, verdict>>
  /\ UNCHANGED <<provider, stopOn, cursor, chain, cont, attempt, step, failures>>

\* _dispatch_call: an infrastructure failure counts, whatever else comes back
\* (a result, a tool's error, its own deadline, an unknown name) ends the count.
Counted(down) == IF down THEN failures + 1 ELSE 0

\* Mutant: the messages are appended the wrong way round.
Formatted_Swapped(call, more) == IF more THEN <<Shown, Result(call)>> ELSE <<Result(call)>>

\* _format_result: the answer to a call and, of some results, a message more: an
\* image a tool message cannot carry, a computer call's error, the documents to
\* cite.  It goes in at once, before the answer to the turn's next call.
Formatted(call, more) == IF more THEN <<Result(call), Shown>> ELSE <<Result(call)>>

Dispatch ==
  /\ pc = "dispatch" /\ pending # <<>>
  /\ \E down, more \in BOOLEAN :
       /\ step.bad /\ Len(step.calls) = 1 => ~down /\ ~more
       /\ more => provider # "gemini" /\ ~down
       /\ failures' = Counted(down)
       /\ history' = history \o Formatted(Head(pending), more)
       /\ recorded' = Append(recorded, Result(Head(pending)))
       /\ IF failures' >= SSHLimit
          THEN Raise /\ pending' = pending
          ELSE pending' = Tail(pending) /\ UNCHANGED <<pc, verdict>>
  /\ UNCHANGED <<provider, stopOn, turn, cursor, chain, cont, attempt, step>>

\* A result that cannot be formatted: a computer call without a screenshot, a
\* block of an unknown type, data that is not base64.
Unformatted ==
  /\ pc = "dispatch" /\ pending # <<>> /\ provider # "compatible"
  /\ recorded' = Append(recorded, Result(Head(pending)))
  /\ Raise
  /\ UNCHANGED <<provider, stopOn, turn, history, cursor, chain, cont, attempt, step, pending, failures>>

TurnDone ==
  /\ pc = "dispatch" /\ pending = <<>>
  /\ NextTurn(TRUE)
  /\ UNCHANGED <<provider, stopOn, history, cursor, chain, cont, attempt, step, pending, failures, recorded>>

\* A timeout or a cancellation leaves the loop with the trace as it stands.
CutLoop == /\ pc \notin {"ended", "cut"}
           /\ pc' = "cut"
           /\ UNCHANGED <<provider, stopOn, turn, history, cursor, chain, cont, attempt, step,
                          pending, failures, recorded, verdict>>

LoopStep == \/ Ask \/ Restream \/ BadJSON \/ Answered \/ Malformed \/ RequestFails
            \/ Degenerate \/ Judge \/ Dispatch \/ Unformatted \/ TurnDone
NextLoop == LoopStep \/ CutLoop

---------------------------------------------------------------------------
\* What was recorded is what is shown, without the agent's own messages.
Own == {"note", "shown"}
Rank(items, i) == Cardinality({j \in 1..i : items[j].role \notin Own})
Mirrors(items, record) ==
  /\ Rank(items, Len(items)) = Len(record)
  /\ \A i \in 1..Len(items) : items[i].role \notin Own => record[Rank(items, i)] = items[i]

\* The model is shown what was recorded of the run, each item once and in its
\* order, though turns are thrown away, requests repeated, and the OpenAI
\* agent sends only the items past its cursor.  (A Gemini turn without content
\* is recorded and not shown.)
ShownIsRecorded ==
  pc \in {"sample", "request"} /\ provider # "gemini" => Mirrors(Prompt, recorded)

\* The messages from i to p, but for those put behind a result.
Between(items, i, p) == Cardinality({j \in (i + 1)..p : items[j].role # "shown"})

\* The k-th message after a turn of the model is the answer to its k-th call,
\* those aside that stand behind an answer and are not one.
Complete(items) ==
  \A i \in 1..Len(items) :
    /\ items[i].role = "model" =>
         \A k \in 1..Len(items[i].calls) : \E p \in (i + 1)..Len(items) :
           items[p] = Result(items[i].calls[k]) /\ Between(items, i, p) = k
    /\ items[i].role = "shown" => i > 1 /\ items[i - 1].role = "result"

\* Every call of an earlier turn is answered once, in order and before the
\* model speaks again: providers refuse a history where it is not.  Nothing
\* stands between two answers but the message that came with the first of them
\* (an image, an error of a computer call, documents), and with Gemini nothing.
AllAnswered ==
  pc \in {"sample", "request"} =>
    /\ Complete(Prompt)
    /\ provider = "gemini" => \A i \in 1..Len(Prompt) : Prompt[i].role # "shown"

\* The token ids sent as a continuation stand for a beginning of the messages.
ContinuesPrefix == IsPrefix(cont, history)

\* The verdict of a loop that ran to its end agrees with what was recorded: an
\* error is never completed, "max_steps" means the last turn's calls were all
\* answered on the last turn, "done" that the model stopped calling, and an
\* error without a reason comes from a failed request, SSH or formatting.
LoopVerdict ==
  /\ pc = "ended" => verdict.status # "running"
  /\ pc # "ended" => verdict = Running
  /\ verdict.status = "completed" => failures < SSHLimit /\ ~step.error
  /\ verdict.stop = "max_steps" => turn = MaxSteps /\ step.calls # <<>> /\ pending = <<>>
  /\ verdict.stop = "done" => step.calls = <<>> /\ ~step.cutShort
  /\ verdict.stop = "length" => step.cutShort

\* What the loop promises of its requests, its record and its verdict, together.
LoopSound == AllAnswered /\ ContinuesPrefix /\ LoopVerdict /\ ShownIsRecorded

\* A loop whose requests and tools come back ends within its budget.
LoopEnded == pc \in {"ended", "cut"}
=============================================================================
