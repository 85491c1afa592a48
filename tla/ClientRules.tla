------------------------------ MODULE ClientRules ------------------------------
(***************************************************************************)
(* What the SDK's clients make of services that fail: the retries of the platform's  *)
(* requests and of the patched MCP transport, the keys of the model clients, the      *)
(* model catalog, a tool's answer put in shape, and where settings come from.        *)
(***************************************************************************)
EXTENDS Integers, Sequences, FiniteSets, SequencesExt, FiniteSetsExt

LOCAL Total(f, S) == FoldSet(LAMBDA k, acc : acc + f[k], 0, S)

---------------------------------------------------------------------------
(* make_request and make_request_sync.  An attempt: [how, code, body]; `how` is       *)
(* "status", "timeout", "network" (SSL errors too) or "other".                       *)

RetryStatus == {502, 503, 504}
Retried(attempt, n, retries) ==
  n <= retries /\ (attempt.how = "network" \/ (attempt.how = "status" /\ attempt.code \in RetryStatus))
RetryDelay(n, delay) == delay * 2^(n - 1)
ResponsePayload(attempt) == IF attempt.code = 204 \/ attempt.body = "empty" THEN "{}" ELSE attempt.body
Outcome(attempt) ==
  CASE attempt.how = "timeout" -> "HudTimeoutError"
    [] attempt.how = "network" -> "HudNetworkError"
    [] attempt.how = "status" /\ attempt.code \in 200..299 /\ ResponsePayload(attempt) # "garbled" -> "ok"
    [] OTHER -> "HudRequestError"
MakeRequest(key, retries, delay, attempts) ==
  IF ~key THEN [sent |-> 0, waited |-> 0, end |-> "HudAuthenticationError"]
  ELSE LET last == CHOOSE n \in 1..retries + 1 : ~Retried(attempts[n], n, retries) /\ \A k \in 1..n - 1 : Retried(attempts[k], k, retries)
       IN [sent |-> last, waited |-> Total([n \in 1..last - 1 |-> RetryDelay(n, delay)], 1..last - 1), end |-> Outcome(attempts[last])]

---------------------------------------------------------------------------
(* The patched StreamableHTTPTransport.post_writer.  Time is in half seconds; an     *)
(* attempt is [how, took], `how` of "ok", "retryable", "fatal" and "cancelled".       *)

MaxBackoff == 120
GlobalTimeout(configured, default) == IF configured > 0 THEN configured ELSE default
SendErrorResponse(kind) == IF kind = "request" THEN "JSONRPCError" ELSE "exception"
\* One attempt of handle_request_async; `answers` is what the reader is given.
Try(kind, timeout, acc, attempt) ==
  LET now == acc.at + attempt.took
      tried == [acc EXCEPT !.starts = Append(@, acc.at), !.at = now]
  IN CASE acc.done -> acc
       [] ~acc.done /\ attempt.how = "ok" -> [tried EXCEPT !.done = TRUE, !.answers = IF kind = "request" THEN Append(@, "server") ELSE @]
       [] ~acc.done /\ attempt.how = "cancelled" -> [tried EXCEPT !.done = TRUE, !.cut = TRUE]
       [] ~acc.done /\ (attempt.how = "fatal" \/ (attempt.how = "retryable" /\ now >= timeout)) ->
            [tried EXCEPT !.done = TRUE, !.answers = Append(@, SendErrorResponse(kind))]
       [] OTHER -> [tried EXCEPT !.at = now + acc.backoff, !.backoff = Min({2 * acc.backoff, MaxBackoff})]
Untried == [at |-> 0, backoff |-> 1, starts |-> <<>>, done |-> FALSE, cut |-> FALSE, answers |-> <<>>]
HandleRequest(kind, timeout, attempts) ==
  FoldLeft(LAMBDA acc, attempt : Try(kind, timeout, acc, attempt), Untried, attempts)
\* post_writer: requests are tasks of their own, anything else is awaited where it stands.
\* A message: [kind, comes, takes].
WriteOne(acc, m) ==
  LET start == Max({acc.free, m.comes}) IN
  [free |-> IF m.kind = "request" THEN start ELSE start + m.takes, spans |-> Append(acc.spans, <<start, start + m.takes>>)]
Unwritten == [free |-> 0, spans |-> <<>>]
PostWriter(messages) == FoldLeft(WriteOne, Unwritten, messages).spans

---------------------------------------------------------------------------
(* A tool's answer: the patched Server.call_tool on one side, MCPClient on the other. *)
(* A result: [form, blocks, structured]; a block is [text, of].                     *)

TextOf(x) == <<[text |-> TRUE, of |-> x]>>
ErrorResult == [error |-> TRUE, content |-> TextOf("error"), structured |-> {}]
Scalars == {"text", "bytes", "number"}
CallTool(tool, valid, raises, result) ==
  LET content == CASE result.form = "dict" -> TextOf("json")
                   [] result.form \in Scalars -> TextOf(result.form)
                   [] result.form = "none" -> <<>>
                   [] OTHER -> result.blocks
      given == CASE result.form = "pair" -> result.structured
                 [] result.form = "dict" -> {"json"}
                 [] OTHER -> {}
      texts == SelectSeq(content, LAMBDA b : b.text)
      wrapped == IF tool.known /\ tool.wraps /\ given = {} /\ texts # <<>> THEN {texts[1].of} ELSE given
  IN CASE tool.known /\ ~valid -> ErrorResult
       [] ~(tool.known /\ ~valid) /\ (raises \/ result.form = "odd") -> ErrorResult
       [] ~(tool.known /\ ~valid) /\ ~raises /\ result.form = "result" -> [error |-> FALSE, content |-> result.blocks, structured |-> result.structured]
       [] OTHER -> [error |-> FALSE, content |-> content, structured |-> wrapped]

\* MCPClient.call_tool: both spellings of a field; the canonical one wins.
Alternate == [isError |-> "is_error", structuredContent |-> "structured_content"]
Canonical(data) ==
  LET moved == {f \in DOMAIN Alternate : f \notin DOMAIN data /\ Alternate[f] \in DOMAIN data}
      fields == (DOMAIN data \ {Alternate[f] : f \in moved}) \cup moved \cup {"content"}
  IN [f \in fields |-> CASE f \in moved -> data[Alternate[f]] [] f \in DOMAIN data \ moved -> data[f] [] OTHER -> "empty"]
\* get_mcp_trace_id; a trace is {} or {id}.
McpTraceId(inside, meta, header) == IF ~inside THEN {} ELSE IF meta # {} THEN meta ELSE header

---------------------------------------------------------------------------
(* Model clients and the catalog.                                                *)

BuildGatewayClient(keys) == IF "hud" \in keys THEN [ok |-> TRUE, to |-> "gateway", key |-> "hud"] ELSE [ok |-> FALSE]
BuildModelClient(provider, arn, gateway, keys) ==
  LET bedrock == provider = "anthropic" /\ arn IN
  CASE bedrock /\ gateway -> [ok |-> FALSE]
    [] bedrock /\ ~gateway -> IF {"aws id", "aws secret", "aws region"} \subseteq keys THEN [ok |-> TRUE, to |-> "bedrock", key |-> "aws id"] ELSE [ok |-> FALSE]
    [] ~bedrock /\ (gateway \/ provider \notin keys) -> BuildGatewayClient(keys)
    [] OTHER -> [ok |-> TRUE, to |-> provider, key |-> provider]

\* list_gateway_models: request k finds the catalog as it is then (`catalogs`, the
\* last one from there on; [models, total]), `limit` entries to a page.
PageOf(catalog, offset, limit) == SubSeq(catalog, offset + 1, Min({offset + limit, Len(catalog)}))
ListGatewayModels(catalogs, limit) ==
  LET ask(acc, k) ==
        LET now == catalogs[Min({k, Len(catalogs)})]
            page == PageOf(now.models, Len(acc.models), limit)
            models == acc.models \o page
        IN CASE acc.end # "asking" -> acc
             [] acc.end = "asking" /\ Len(models) >= now.total -> [models |-> models, asked |-> k, end |-> "listed"]
             [] acc.end = "asking" /\ Len(models) < now.total /\ page = <<>> -> [models |-> models, asked |-> k, end |-> "ValueError"]
             [] OTHER -> [acc EXCEPT !.models = models, !.asked = k]
  IN FoldLeft(ask, [models |-> <<>>, asked |-> 0, end |-> "asking"], [k \in 1..Len(catalogs) + Len(Last(catalogs).models) + 1 |-> k])

\* resolve_gateway_model: entries [id, name, slug], a slug being <<name>> or <<provider, name>>.
EntryNames(entry) == <<<<entry.id>>, <<entry.name>>, entry.slug>> \o (IF entry.slug = <<>> THEN <<>> ELSE <<<<Last(entry.slug)>>>>)
ResolveGatewayModel(entries, model) ==
  LET named == SelectSeq([i \in 1..Len(entries) |-> i], LAMBDA i : model # <<>> /\ model \in Range(EntryNames(entries[i]))) IN
  IF named = <<>> THEN {} ELSE {entries[named[1]]}
\* BaseTrainingClient._resolve_model_id: looked up once.
ResolveModelId(held, uuid, key, entries, model) ==
  CASE held # {} -> [ok |-> TRUE, id |-> held]
    [] held = {} /\ uuid -> [ok |-> TRUE, id |-> {model[1]}]
    [] held = {} /\ ~uuid /\ key -> LET e == ResolveGatewayModel(entries, model) IN [ok |-> e # {}, id |-> {x.id : x \in e}]
    [] OTHER -> [ok |-> FALSE, id |-> {}]

---------------------------------------------------------------------------
(* Settings: arguments, the environment, .env, ~/.hud/.env, secrets, defaults.       *)

Sources == <<"init", "env", "dotenv", "user", "secrets", "default">>
Setting(has) == Sources[CHOOSE i \in 1..Len(Sources) : Sources[i] \in has \cup {"default"} /\ \A j \in 1..i - 1 : Sources[j] \notin has]
SpanDir(local, enabled) == CASE local -> "local" [] ~local /\ ~enabled -> "home" [] OTHER -> "none"

---------------------------------------------------------------------------
(* Trace.record and Trace._number_steps; a step is [id, ended].                    *)

NumberSteps(steps) == [i \in 1..Len(steps) |-> [steps[i] EXCEPT !.id = i]]
Record(steps, step) == Append(steps, [id |-> Len(steps) + 1, ended |-> IF step.ended = 0 THEN 1 ELSE step.ended])

---------------------------------------------------------------------------
(* Properties.                                                                   *)

\* A request is tried until an answer that is not a passing failure, and no more
\* than its retries and one; what is told is the last try's; one that may not be
\* retried (the trainer's) goes out once, and one that timed out is not sent again.
RequestBounded(key, retries, delay, attempts) ==
  LET r == MakeRequest(key, retries, delay, attempts) IN
  /\ r.sent <= retries + 1 /\ (r.sent = 0 <=> ~key)
  /\ r.waited < delay * 2^retries /\ (r.sent <= 1 => r.waited = 0)
  /\ \A n \in 1..r.sent - 1 : attempts[n].how = "network" \/ (attempts[n].how = "status" /\ attempts[n].code >= 500)
  /\ r.end = "ok" => attempts[r.sent].how = "status" /\ attempts[r.sent].code < 300
  /\ key /\ r.end # "ok" /\ r.sent <= retries => attempts[r.sent].how # "network" /\ attempts[r.sent].code \notin RetryStatus

\* A request that the transport gave up is answered, once, and by an error it can
\* read; nothing is sent after the end, and no try begins later than twice the
\* limit: a caller is never left to wait for good.
PostAnswered(kind, timeout, attempts) ==
  LET h == HandleRequest(kind, timeout, attempts) IN
  /\ Len(h.answers) <= 1
  /\ h.done /\ ~h.cut /\ kind = "request" => Len(h.answers) = 1
  /\ h.done /\ ~h.cut => (h.answers = <<"server">> <=> attempts[Len(h.starts)].how = "ok" /\ kind = "request")
  /\ h.cut => h.answers = <<>>
  /\ \A i \in 1..Len(h.starts) : h.starts[i] < 2 * timeout
  /\ ~h.done => Len(h.starts) = Len(attempts)

\* What is not a request (the word that the session is ready) is out before the
\* message after it is begun, and requests do not wait for one another.
WriterOrdered(messages) ==
  LET s == PostWriter(messages) IN
  /\ \A i, j \in 1..Len(messages) : i < j /\ messages[i].kind # "request" => s[i][2] <= s[j][1]
  /\ (\A i \in 1..Len(messages) : messages[i].kind = "request") /\ (\A i, j \in 1..Len(messages) : i <= j => messages[i].comes <= messages[j].comes)
       => \A i \in 1..Len(messages) : s[i][1] = messages[i].comes

\* Whatever a tool does, its caller has an answer; a failure brings nothing that
\* could be read as a result, a scalar is one text and not its characters, and a
\* wrapped tool's first text is its structured result unless it gave one.
ToolAnswered(tool, valid, raises, result) ==
  LET r == CallTool(tool, valid, raises, result) IN
  /\ r.error <=> (tool.known /\ ~valid) \/ raises \/ result.form = "odd"
  /\ r.error => r.structured = {}
  /\ ~r.error /\ result.form \in Scalars \cup {"dict"} => Len(r.content) = 1 /\ r.content[1].text
  /\ ~r.error /\ result.form \in {"pair", "result"} => r.content = result.blocks /\ result.structured \subseteq r.structured
  /\ ~r.error /\ tool.known /\ tool.wraps /\ result.form # "result" /\ (\E i \in 1..Len(r.content) : r.content[i].text) => r.structured # {}
  /\ Cardinality(r.structured) <= 1

\* Each field of an answer arrives under its canonical name, once and with its own value.
FieldsKept(data) ==
  LET c == Canonical(data) IN
  /\ "content" \in DOMAIN c /\ ("content" \in DOMAIN data => c["content"] = data["content"])
  /\ \A f \in DOMAIN Alternate :
       /\ f \in DOMAIN c <=> f \in DOMAIN data \/ Alternate[f] \in DOMAIN data
       /\ f \in DOMAIN c => c[f] = (IF f \in DOMAIN data THEN data[f] ELSE data[Alternate[f]])

\* No key leaves for a service it is not of, a caller that asks for the gateway
\* gets nothing else, and a Bedrock profile is reached by Bedrock alone.
KeysAtHome(provider, arn, gateway, keys) ==
  LET c == BuildModelClient(provider, arn, gateway, keys) IN
  c.ok => /\ c.key \in keys
          /\ c.to = "gateway" <=> c.key = "hud"
          /\ c.to = "bedrock" <=> c.key = "aws id"
          /\ c.to \in {"gateway", "bedrock", provider}
          /\ gateway => c.to = "gateway"
          /\ provider = "anthropic" /\ arn => c.to = "bedrock"

\* The listing ends whatever the catalog does meanwhile; one that stands still is
\* listed whole, in order and each entry once, with no more requests than pages.
CatalogListed(catalogs, limit) ==
  LET r == ListGatewayModels(catalogs, limit)
      still == \A i \in 1..Len(catalogs) : catalogs[i] = catalogs[1]
  IN /\ r.end \in {"listed", "ValueError"}
     /\ still => r.models = catalogs[1].models /\ (r.end = "listed" <=> catalogs[1].total = Len(r.models))
     /\ still => r.asked <= Len(r.models) \div limit + (IF r.end = "listed" THEN 1 ELSE 2)

\* A name leads to an entry that bears it, the first of them; a training client
\* keeps the id it found and asks no more.
ModelNamed(held, uuid, key, entries, model) ==
  LET e == ResolveGatewayModel(entries, model)
      r == ResolveModelId(held, uuid, key, entries, model)
  IN /\ e # {} => \E i \in 1..Len(entries) : /\ e = {entries[i]} /\ model \in Range(EntryNames(entries[i]))
                                            /\ \A j \in 1..i - 1 : model \notin Range(EntryNames(entries[j]))
     /\ r.ok => Cardinality(r.id) = 1 /\ ResolveModelId(r.id, uuid, key, <<>>, model) = r
     /\ (\E i \in 1..Len(entries) : model = <<entries[i].id>>) /\ key /\ ~uuid /\ held = {} => r.ok

\* What is closer to the caller wins; spans go to a file wherever nothing else takes them.
SettingNearest(has, local, enabled) ==
  /\ Setting(has) \in has \cup {"default"}
  /\ \A s \in has : s = Setting(has) \/ \E i, j \in 1..Len(Sources) : i < j /\ Sources[i] = Setting(has) /\ Sources[j] = s
  /\ ~enabled => SpanDir(local, enabled) # "none"

\* A recorded step is the last, numbered in its place, and ended.
StepsNumbered(steps, step) ==
  LET all == Record(NumberSteps(steps), step) IN
  /\ \A i \in 1..Len(all) : all[i].id = i
  /\ Last(all).ended # 0 /\ (step.ended # 0 => Last(all).ended = step.ended) /\ NumberSteps(all) = all

\* The trace a call is made in is the trace its server sees, a proxy's header aside.
TraceCarried(current, header) == McpTraceId(TRUE, current, header) = (IF current # {} THEN current ELSE header)
=============================================================================
