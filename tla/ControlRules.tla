------------------------------ MODULE ControlRules ------------------------------
(***************************************************************************)
(* What the two ends of a control channel make of what the other one says:   *)
(* a task's arguments, prompt, answer and grade; the capabilities that are     *)
(* published, found, tunnelled and dialled; the wait for an environment that   *)
(* is not ready yet; and the time limits a rollout accepts.                    *)
(***************************************************************************)
EXTENDS Integers, Sequences, FiniteSets, SequencesExt

None == "none"
Wrong == [refused |-> TRUE]
Made(x) == [refused |-> FALSE, value |-> x]

---------------------------------------------------------------------------
(* Templates and their arguments.  A parameter: [kind, required], its kind     *)
(* "plain", "only" for one before a /, "args" for *args, "kwargs" for           *)
(* **kwargs; params: name -> it.                                               *)

\* _args_json_schema: the contract published in the manifest.
Fields(params) == {n \in DOMAIN params : params[n].kind \in {"plain", "only"}}
ArgsSchema(params) ==
  [properties |-> Fields(params), required |-> {n \in Fields(params) : params[n].required},
   additional |-> \E n \in DOMAIN params : params[n].kind = "kwargs"]
Validates(schema, names) == schema.required \subseteq names /\ (schema.additional \/ names \subseteq schema.properties)

\* Environment.template: one factory per id, of an asynchronous generator.
Templates(decorated) ==
  IF \E i \in 1..Len(decorated) : ~decorated[i].generator \/ \E j \in 1..i - 1 : decorated[j].id = decorated[i].id
  THEN Wrong ELSE Made({decorated[i].id : i \in 1..Len(decorated)})

\* TaskRunner.__init__: sig.bind(**args), before anything runs.  A name is never
\* bound to a parameter that is only positional: without a default that is an
\* error, and with one the name is another unknown one - before Python 3.12.4 an
\* error even where **kwargs takes those (external: lenient is the newer version).
Binds(params, names, lenient) ==
  LET byName == {n \in DOMAIN params : params[n].kind = "plain"}
      only == {n \in DOMAIN params : params[n].kind = "only"}
  IN /\ \A n \in byName : params[n].required => n \in names
     /\ \A n \in only : ~params[n].required /\ (n \in names => lenient)
     /\ names \subseteq byName \/ \E k \in DOMAIN params : params[k].kind = "kwargs"

\* _coerce_args: the value itself where it fits or nothing fits, the JSON it
\* spells where that is what fits.  value: [text, fits, spells], annotated a flag.
Coerced(value, annotated) ==
  CASE ~annotated \/ value.fits -> "itself"
    [] annotated /\ ~value.fits /\ value.text /\ value.spells -> "parsed"
    [] OTHER -> "itself"

---------------------------------------------------------------------------
(* Prompt, answer and grade.                                                 *)

\* TaskRunner.start: a first yield that is no frame becomes one.
\* first: [dict, prompt], prompt a sequence of turns or [text].
StartFrame(first) == IF first.dict /\ first.prompt THEN "itself" ELSE "wrapped"

\* _prompt_message, prompt_messages: one turn of the agent's vocabulary for each
\* of the wire's.  turn: [form, role, content], content "text", "block" or "odd".
PromptMessage(turn) ==
  CASE turn.form = "message" -> Made([role |-> turn.role, content |-> turn.content])
    [] turn.form = "other" -> Made([role |-> "user", content |-> "text"])
    [] turn.form = "dict" ->
         IF turn.content = "odd" THEN Wrong
         ELSE Made([role |-> IF turn.role = "assistant" THEN "assistant" ELSE "user", content |-> turn.content])
PromptMessages(prompt) ==
  IF prompt.turns THEN [i \in 1..Len(prompt.of) |-> PromptMessage(prompt.of[i])]
  ELSE <<Made([role |-> "user", content |-> "text"])>>
\* prompt_text: the turns that are text.
PromptText(prompt) ==
  SelectSeq(PromptMessages(prompt), LAMBDA t : ~t.refused /\ t.value.content = "text")

\* _episode_bindings: none, or an object for each capability.
EpisodeBindings(raw) == CASE raw = "none" -> Made({}) [] raw = "objects" -> Made({"slot"}) [] OTHER -> Wrong

\* _build_answer.  answer: [given, text, parses], parses under the declared type.
BuildAnswer(declared, answer) ==
  IF ~declared THEN [form |-> "plain", content |-> IF answer.given THEN "raw" ELSE None, raw |-> None]
  ELSE [form |-> "answer", content |-> IF answer.parses THEN "parsed" ELSE "raw", raw |-> "text"]

\* TaskRunner.grade and _score_value: what the generator's second yield becomes
\* on the wire.  evaluation: [form, is, score, error]: the form "ended" (it
\* yields nothing more), "number", "dict", "result", "object" with a reward, or
\* "other"; its score is a "number", a "bool" or "missing".
GradeFrame(evaluation) ==
  CASE evaluation.form = "ended" -> Made([is |-> "number", score |-> 0, error |-> FALSE])
    [] evaluation.form = "dict" -> IF evaluation.is = "missing" THEN Wrong
         ELSE Made([is |-> evaluation.is, score |-> evaluation.score, error |-> evaluation.error])
    [] evaluation.form = "result" -> Made([is |-> "number", score |-> evaluation.score, error |-> evaluation.error])
    [] evaluation.form \in {"number", "object"} -> IF evaluation.is = "missing" THEN Wrong
         ELSE Made([is |-> "number", score |-> evaluation.score, error |-> FALSE])
    [] OTHER -> Wrong
\* Grade.from_dict.
FromDict(frame) ==
  IF frame.is # "number" THEN Wrong ELSE Made([reward |-> frame.score, is_error |-> frame.error])

---------------------------------------------------------------------------
(* Frames and streams.                                                       *)

\* _send_control_error: the error, or the reason it does not fit, or that
\* without the id.  Sizes of a message, an id and the reason; at most limit.
ErrorFrame(message, id, reason, limit) ==
  CASE message + id <= limit -> [id |-> TRUE, size |-> message + id, says |-> "error"]
    [] message + id > limit /\ reason + id <= limit -> [id |-> TRUE, size |-> reason + id, says |-> "too large"]
    [] OTHER -> [id |-> FALSE, size |-> reason, says |-> "too large"]

\* _stream: the daemon that the name stands for, or the reason there is none.
\* msg: [id, capability], the capability None when it is no string;
\* published: name -> [address, answers].
Stream(msg, published) ==
  CASE msg.capability = None -> [code |-> -32602, to |-> None]
    [] msg.capability # None /\ msg.capability \notin DOMAIN published -> [code |-> -32000, to |-> None]
    [] OTHER -> LET cap == published[msg.capability] IN
         IF ~cap.address THEN [code |-> -32602, to |-> None]
         ELSE IF ~cap.answers THEN [code |-> -32000, to |-> None]
         ELSE [code |-> 0, to |-> msg.capability]
StreamReply(msg, published) ==
  IF ~msg.id THEN {} ELSE {[code |-> Stream(msg, published).code]}
\* forward, in the client: it splices only once the peer has accepted.
Forwarded(dials, reply) == dials /\ reply # {} /\ \A r \in reply : r.code = 0

---------------------------------------------------------------------------
(* Capabilities.                                                             *)

\* normalize_url: [scheme, host, port], the scheme None and the port 0 when not
\* written; the default port where one is known.
NormalizeUrl(url, scheme, port) ==
  IF ~url.host THEN Wrong
  ELSE Made([scheme |-> IF url.scheme = None THEN scheme ELSE url.scheme, host |-> TRUE,
             port |-> IF url.port # 0 THEN url.port ELSE port])

\* The factories: each a protocol, with the scheme and the port it stands for.
Ssh(name, url) == [name |-> name, protocol |-> "ssh/2", url |-> NormalizeUrl(url, "ssh", 22), transport |-> None]
Cdp(name, url) == [name |-> name, protocol |-> "cdp/1.3", url |-> NormalizeUrl(url, "ws", 9222), transport |-> None]
Rfb(name, url, display) == [name |-> name, protocol |-> "rfb/3.8", url |-> NormalizeUrl(url, "rfb", 5900 + display), transport |-> None]
Robot(name, url) == [name |-> name, protocol |-> "openpi/0", url |-> NormalizeUrl(url, "ws", 9091), transport |-> None]
Sockets == {"ws", "wss"}
Webs == {"http", "https"}
Transport(scheme) == IF scheme \in Sockets THEN "websocket" ELSE "streamable-http"
\* url.lettered: the host begins with a letter, so that a port behind it, where no
\* scheme is written, makes SCHEME_RE take the host for one.
Mcp(name, url, transport) ==
  LET first == NormalizeUrl(url, "ws", 0)
      scheme == first.value.scheme
      whole == NormalizeUrl(first.value, "ws", IF scheme \in {"https", "wss"} THEN 443 ELSE 80)
  IN IF \/ url.scheme = None /\ url.port # 0 /\ url.lettered
        \/ first.refused
        \/ scheme \notin Sockets \cup Webs
        \/ transport = "websocket" /\ scheme \notin Sockets
        \/ transport \in {"sse", "streamable-http"} /\ scheme \notin Webs
     THEN [name |-> name, protocol |-> "mcp/2025-11-25", url |-> Wrong, transport |-> None]
     ELSE [name |-> name, protocol |-> "mcp/2025-11-25", url |-> whole,
           transport |-> IF transport = None THEN Transport(scheme) ELSE transport]
Family(protocol) == CASE protocol = "ssh/2" -> "ssh" [] protocol = "cdp/1.3" -> "cdp" [] protocol = "rfb/3.8" -> "rfb"
                      [] protocol = "openpi/0" -> "openpi" [] protocol = "mcp/2025-11-25" -> "mcp" [] OTHER -> protocol

\* Capability.from_manifest: what an environment of another hand leaves out.
FromManifest(cap) ==
  IF Family(cap.protocol) = "mcp" /\ cap.transport = None /\ ~cap.url.refused
  THEN [cap EXCEPT !.transport = Transport(cap.url.value.scheme)] ELSE cap

\* Environment.add_capability: the last of a name, in the order they came.
AddCapability(published, cap) == Append(SelectSeq(published, LAMBDA c : c.name # cap.name), cap)
PublishedBy(calls) == FoldLeft(AddCapability, <<>>, calls)

\* HudClient.binding: the one capability that answers to ref, through the
\* route that hello opened for it.  routed: whether the client can dial.
Matches(bindings, ref) ==
  {i \in 1..Len(bindings) : ref \in {bindings[i].name, bindings[i].protocol, Family(bindings[i].protocol)}}
Binding(bindings, ref, routed) ==
  IF Cardinality(Matches(bindings, ref)) # 1 THEN Wrong
  ELSE LET cap == bindings[CHOOSE i \in Matches(bindings, ref) : TRUE] IN
       Made([name |-> cap.name, protocol |-> cap.protocol, through |-> IF routed THEN "tunnel" ELSE "direct"])

\* HudClient.open: a client of a protocol it knows, kept by name.
Registry == {"ssh/2", "rfb/3.8", "mcp/2025-11-25", "cdp/1.3", "openpi/0"}
OpenedAs(bindings, ref, routed) ==
  LET cap == Binding(bindings, ref, routed) IN
  IF cap.refused \/ cap.value.protocol \notin Registry THEN Wrong ELSE Made(cap.value.name)

---------------------------------------------------------------------------
(* Connecting.                                                               *)

\* _connect_capability: tries of which each is "ok", "refused" (a connection
\* error) or "broken" (any other).
CapabilityAttempts == 3
ConnectCapability(outcomes) ==
  LET stops == {i \in 1..CapabilityAttempts : outcomes[i] # "refused" \/ i = CapabilityAttempts}
      last == CHOOSE i \in stops : \A j \in stops : i <= j
  IN [tries |-> last, ok |-> outcomes[last] = "ok"]

\* _connect_ready: until hello succeeds.  Each try ends "refused" (nothing
\* listens), "eof" (a proxy accepts), "error" (an error frame), "cancelled" or
\* "ok"; the n-th is made at time n, and the deadline is one of them.
NotReady == {"refused", "eof"}
ConnectReady(outcomes, deadline) ==
  LET stops == {i \in 1..Len(outcomes) : outcomes[i] \notin NotReady \/ i >= deadline}
      last == CHOOSE i \in stops : \A j \in stops : i <= j
  IN [tries |-> last, client |-> outcomes[last] = "ok",
      opened |-> {i \in 1..last : outcomes[i] # "refused"},
      closed |-> {i \in 1..last : outcomes[i] \notin {"refused", "ok"}}]

\* _runtime_ready_timeout: the runtime's own, when it is a number of seconds.
ReadyTimeout(param, default) ==
  CASE param = "absent" -> Made(default) [] param = "positive" -> Made("own") [] OTHER -> Wrong

---------------------------------------------------------------------------
(* Time limits.                                                              *)

\* validate_rollout_timeouts.  A limit is {} or {seconds}; configs: the
\* actor's and the verifier's limits, [startup, run].
AgentTimeout(agent, ofTask) == IF ofTask.given THEN ofTask.seconds ELSE agent
Over(inner, outer) == \E a \in inner, b \in outer : a >= b
Timeouts(agent, rollout, actor, verifier) ==
  IF \/ Over(agent, actor.run)
     \/ \E r \in rollout : r <= 0
     \/ Over(agent, rollout)
     \/ \E c \in {actor, verifier} : Over(c.startup, rollout) \/ Over(c.run, rollout)
  THEN Wrong ELSE Made(agent)

\* rollout's preamble: a job of its own when none is given, and the trace it
\* runs in, unless that is its own.
JobOf(job) == IF job = {} THEN {"minted"} ELSE job
ParentTrace(context, trace) == context \ {trace}

---------------------------------------------------------------------------
(* Properties.                                                               *)

\* A grade arrives as the task gave it: the same score, an error still an
\* error; and what carries no number is refused somewhere, never read as zero.
\* (A dict whose score is a bool passes the server and is refused here.)
GradeKept(evaluation) ==
  LET sent == GradeFrame(evaluation)
      kept == IF sent.refused THEN Wrong ELSE FromDict(sent.value)
      numeric == evaluation.form # "other" /\ evaluation.is = "number"
  IN /\ (evaluation.form \notin {"ended", "other"} /\ numeric) => ~kept.refused
     /\ (~kept.refused /\ evaluation.form # "ended") =>
          /\ evaluation.is # "missing" /\ kept.value.reward = evaluation.score
          /\ evaluation.form \in {"dict", "result"} => (kept.value.is_error <=> evaluation.error)

\* What the manifest says of a template's arguments is what starting it takes: what
\* binds is valid, and a row the platform validated is not refused by the
\* environment, but for a name whose parameter is positional only.
SchemaIsContract(params, names, lenient) ==
  LET valid == Validates(ArgsSchema(params), names)
  IN /\ Binds(params, names, lenient) => valid
     /\ valid /\ ~Binds(params, names, lenient) => \E n \in names \cap DOMAIN params : params[n].kind = "only"

\* Every turn reaches the agent, under one of the two roles it knows; an answer
\* that does not parse is still graded, as it was written.
TurnsKept(prompt) ==
  /\ Len(PromptMessages(prompt)) >= IF prompt.turns THEN Len(prompt.of) ELSE 1
  /\ \A i \in 1..Len(PromptMessages(prompt)) : LET t == PromptMessages(prompt)[i] IN ~t.refused => t.value.role \in {"user", "assistant"}
AnswerKept(declared, answer) ==
  LET built == BuildAnswer(declared, answer) IN
  (answer.given /\ ~(declared /\ answer.parses)) => built.content = "raw"

\* An error can always be told: within the limit, and under the id it is about
\* unless the id itself leaves no room.
ErrorFits(message, id, reason, limit) ==
  LET f == ErrorFrame(message, id, reason, limit) IN
  reason <= limit => f.size <= limit /\ (reason + id <= limit => f.id)

\* Bytes are spliced only between a client that asked and the daemon it named,
\* and it hears of every refusal.
StreamsApart(msg, published) ==
  LET s == Stream(msg, published) IN
  /\ s.to # None => s.to = msg.capability /\ published[s.to].answers
  /\ Forwarded(TRUE, StreamReply(msg, published)) => s.to = msg.capability
  /\ msg.id => \E r \in StreamReply(msg, published) : (r.code = 0) <=> (s.to # None)

\* A capability that comes up within the tries is connected, and one that is
\* broken is not tried again.
CapabilityAwaited(outcomes) ==
  LET c == ConnectCapability(outcomes) IN
  /\ c.ok <=> \E i \in 1..CapabilityAttempts : outcomes[i] = "ok" /\ \A j \in 1..i - 1 : outcomes[j] = "refused"
  /\ \A i \in 1..c.tries - 1 : outcomes[i] = "refused"

\* A transport speaks over its own scheme, through the manifest and back.
TransportFits(name, url, transport) ==
  LET cap == Mcp(name, url, transport) IN
  ~cap.url.refused =>
    /\ FromManifest(cap) = cap /\ FromManifest([cap EXCEPT !.transport = None]).transport \in {cap.transport, "streamable-http"}
    /\ (cap.transport = "websocket") <=> (cap.url.value.scheme \in Sockets)
    /\ cap.url.value.port # 0

\* A name finds the capability last published under it, unless it is also
\* another one's protocol; what is opened is what was asked for.
BindingResolves(calls, ref, routed) ==
  LET bindings == PublishedBy(calls)
      cap == Binding(bindings, ref, routed)
      of == {i \in 1..Len(calls) : calls[i].name = ref}
  IN /\ \A i, j \in 1..Len(bindings) : bindings[i].name = bindings[j].name => i = j
     /\ ~cap.refused => /\ ref \in {cap.value.name, cap.value.protocol, Family(cap.value.protocol)}
                        /\ (of # {}) => /\ cap.value.name = ref
                                        /\ cap.value.protocol = calls[CHOOSE i \in of : \A j \in of : j <= i].protocol
     /\ (cap.refused /\ of # {}) => \E i \in 1..Len(calls) : calls[i].name # ref /\ ref \in {calls[i].protocol, Family(calls[i].protocol)}
     /\ ~OpenedAs(bindings, ref, routed).refused => OpenedAs(bindings, ref, routed).value = cap.value.name

\* Waiting ends with one connection that answered, or with none left open; it
\* is given up only when time is out, or for something that is no delay.
ReadyCloses(outcomes, deadline) ==
  LET r == ConnectReady(outcomes, deadline) IN
  /\ r.opened \ r.closed = IF r.client THEN {r.tries} ELSE {}
  /\ ~r.client => r.tries >= deadline \/ outcomes[r.tries] \notin NotReady
  /\ \A i \in 1..r.tries - 1 : outcomes[i] \in NotReady

\* Limits that are accepted nest: the agent ends before its sandbox does, and
\* everything before the rollout.
TimeoutsNest(agent, ofTask, rollout, actor, verifier) ==
  LET t == Timeouts(AgentTimeout(agent, ofTask), rollout, actor, verifier) IN
  ~t.refused =>
    /\ ofTask.given => t.value = ofTask.seconds
    /\ \A a \in t.value, r \in rollout \cup actor.run : a < r
    /\ \A r \in rollout, l \in UNION {actor.startup, actor.run, verifier.startup, verifier.run} : l < r
=============================================================================
