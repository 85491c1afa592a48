------------------------------- MODULE AgentRules -------------------------------
(***************************************************************************)
(* What a tool agent makes of what crosses it, by provider: which capabilities    *)
(* it opens and under which names their tools are offered, what becomes of a call,  *)
(* what the model is shown of a result, and what is kept of its answer.              *)
(***************************************************************************)
EXTENDS Integers, Sequences, FiniteSets, SequencesExt, FiniteSetsExt

---------------------------------------------------------------------------
(* Names.  A name is a sequence of characters <<"char", c>>; those of a digest    *)
(* stand for what was digested.                                                    *)

Char(c) == <<"char", c>>
Plain(c) == c[1] = "hex" \/ c[2] # "."
DigestSize == 2     \* 8 of the 64 characters a name may have
Digest(name) == [i \in 1..DigestSize |-> <<"hex", i, name>>]
Tool == <<Char("t")>>

\* provider_tool_name: runs of other characters become one underscore, and a
\* name that had to change ends in a digest of what it was.
Underlined(name) ==
  FlattenSeq([i \in 1..Len(name) |->
    IF Plain(name[i]) THEN <<name[i]>> ELSE IF i > 1 /\ ~Plain(name[i - 1]) THEN <<>> ELSE <<Char("_")>>])
Kept(name) == {i \in 1..Len(name) : name[i] # Char("_")}
RStrip(name) == IF Kept(name) = {} THEN <<>> ELSE SubSeq(name, 1, Max(Kept(name)))
Strip(name) == IF Kept(name) = {} THEN <<>> ELSE SubSeq(name, Min(Kept(name)), Max(Kept(name)))
OrTool(name) == IF name = <<>> THEN Tool ELSE name
ProviderToolName(name, limit) ==
  LET sanitized == OrTool(Strip(Underlined(name)))
      cut == limit - DigestSize - 1
      prefix == OrTool(RStrip(SubSeq(sanitized, 1, IF cut < Len(sanitized) THEN cut ELSE Len(sanitized))))
  IN IF sanitized = name /\ Len(sanitized) <= limit THEN name ELSE prefix \o <<Char("_")>> \o Digest(name)

---------------------------------------------------------------------------
(* Capabilities and tools.                                                        *)

\* ToolAgent.__call__: every MCP server of the manifest, the first of the rest.
Opened(bindings, wanted) ==
  FoldLeft(LAMBDA acc, b : IF b.protocol \in wanted /\ (b.protocol = "mcp" \/ \A i \in 1..Len(acc) : acc[i].protocol # b.protocol)
                           THEN Append(acc, b) ELSE acc, <<>>, bindings)

\* ToolAgent._build_tools: the tools of each class of the catalog, as
\* [name, by], in the order the model sees them.  Names are sequences.
McpCount(connections) == Cardinality({i \in 1..Len(connections) : connections[i].protocol = "mcp"})
ToolsOf(class, connection, qualified) ==
  IF class.client # connection.protocol THEN <<>>
  ELSE IF class.client # "mcp" THEN <<[name |-> class.name, by |-> <<class.name, connection.name>>]>>
  ELSE [i \in 1..Len(connection.tools) |->
         [name |-> IF qualified THEN connection.name \o <<"__">> \o connection.tools[i] ELSE connection.tools[i],
          by |-> <<connection.tools[i], connection.name>>]]
Offered(catalog, connections) ==
  FlattenSeq([c \in 1..Len(catalog) |-> FlattenSeq([k \in 1..Len(connections) |->
    ToolsOf(catalog[c], connections[k], McpCount(connections) > 1)])])
BuildTools(catalog, connections) ==
  LET all == Offered(catalog, connections)
      taken(i) == \E j \in 1..i - 1 : all[j].name = all[i].name
      mcp(i) == \E k \in 1..Len(connections) : connections[k].protocol = "mcp" /\ connections[k].name = all[i].by[2]
  IN IF \E i \in 1..Len(all) : mcp(i) /\ taken(i) THEN [ok |-> FALSE]
     ELSE [ok |-> TRUE, params |-> [i \in 1..Len(all) |-> all[i].name],
           tools |-> [n \in {all[i].name : i \in 1..Len(all)} |-> all[Max({i \in 1..Len(all) : all[i].name = n})].by]]

\* ToolAgent._dispatch_call.  A tool ends [how, took]; only those over SSH have
\* a deadline, {} or {d}.
Answer(ran, error, infra) == [is |-> "result", ran |-> ran, error |-> error, infra |-> infra]
Escapes(how) == [is |-> how]
DispatchCall(call, tool, deadline, end) ==
  LET late == tool.ssh /\ \E d \in deadline : end.took > d IN
  CASE call.malformed \/ ~tool.known -> Answer(FALSE, TRUE, FALSE)
    [] ~call.malformed /\ tool.known /\ late -> Answer(TRUE, TRUE, FALSE)
    [] OTHER -> CASE end.how \in {"timeout", "cancelled"} -> Escapes(end.how)
                  [] end.how = "lost" -> Answer(TRUE, TRUE, TRUE)
                  [] end.how = "raises" -> Answer(TRUE, TRUE, FALSE)
                  [] OTHER -> Answer(TRUE, end.how = "error", FALSE)

---------------------------------------------------------------------------
(* Results, as [error, content, structured]; a block is [kind, id].  What is sent *)
(* is a sequence of what was made of them.                                         *)

Of(content, kinds) == SelectSeq(content, LAMBDA b : b.kind \in kinds)
FirstText(content) == SubSeq(Of(content, {"text"}), 1, IF Of(content, {"text"}) = <<>> THEN 0 ELSE 1)
Mark(m) == [mark |-> m]
Show(b) == [mark |-> "block", block |-> b]
ShowAll(blocks) == [i \in 1..Len(blocks) |-> Show(blocks[i])]

\* ClaudeAgent._format_result: an error is its first text alone; with citations
\* texts and documents come again as documents of their own.
ClaudeResult(call, result) ==
  LET content == IF result.error THEN FirstText(result.content) ELSE result.content
      known == {"text", "image", "pdf"}
      cited == IF call.citations /\ ~result.error THEN Of(content, {"text", "pdf"}) ELSE <<>>
  IN CASE ~call.id -> [is |-> "nothing"]
       [] call.id /\ \E i \in 1..Len(content) : content[i].kind \notin known -> [is |-> "raises"]
       [] OTHER -> [is |-> "reply", docs |-> cited,
                    shown |-> (IF result.error THEN <<Mark("error")>> ELSE <<>>) \o ShowAll(content)]

\* format_openai_result.
OpenAIResult(call, result) ==
  LET known == {"text", "image", "link", "resource", "pdf"}
      items == (IF result.error THEN <<Mark("error")>> ELSE <<>>)
                 \o (IF result.structured # "none" THEN <<Mark("structured")>> ELSE <<>>)
                 \o ShowAll(Of(result.content, known))
  IN IF ~call.id THEN [is |-> "nothing"]
     ELSE [is |-> "reply", docs |-> <<>>, shown |-> IF items = <<>> THEN <<Mark("blank")>> ELSE items]

\* format_chat_result: texts in one message, the last image in another.
ChatResult(call, result) ==
  LET content == IF result.content = <<>> /\ result.structured = "text" THEN <<[kind |-> "text", id |-> 0]>> ELSE result.content
      texts == Of(content, {"text"})
      images == Of(content, {"image"})
  IN [is |-> "reply", docs |-> <<>>,
      shown |-> (IF texts = <<>> THEN <<Mark("success")>> ELSE ShowAll(texts))
                  \o (IF images = <<>> THEN <<>> ELSE <<Show(images[Len(images)])>>)]

\* GeminiAgent._format_result: the first text, every image.
GeminiResult(call, result) ==
  [is |-> "reply", docs |-> <<>>,
   shown |-> (IF result.error THEN <<Mark("error")>> ELSE <<Mark("success")>>)
               \o ShowAll(FirstText(result.content)) \o ShowAll(Of(result.content, {"image"}))]

\* GeminiAgent.get_response: screenshots of older turns are dropped, the newest
\* `keep` turns with any keep theirs.  turns: the screenshots of each.
Pruned(turns, keep) ==
  [i \in 1..Len(turns) |->
    IF Cardinality({j \in i + 1..Len(turns) : turns[j] # {}}) < keep THEN turns[i] ELSE {}]
\* GeminiAgent._make_tool_call and the name its result goes back under.
MakeToolCall(name, predefined, computer) ==
  IF computer /\ name \in predefined THEN [name |-> "computer", action |-> name, answers |-> name]
  ELSE [name |-> name, action |-> "none", answers |-> name]

\* _grounding_citations: the chunks each support names, then those with a source
\* nobody named.  chunks: whether each has a source; a citation is the chunk's
\* number, counted from 0.
GroundingCitations(chunks, supports) ==
  FlattenSeq(supports)
    \o SelectSeq([i \in 1..Len(chunks) |-> i - 1], LAMBDA i : chunks[i + 1] /\ \A s \in 1..Len(supports) : i \notin Range(supports[s]))
SourceOf(chunks, i) == i >= 0 /\ i < Len(chunks) /\ chunks[i + 1]

\* _stream_retry_delay, in milliseconds: the first header that is a number, or
\* anything up to the backoff.
RetryMax == 5000
Backoff(attempt) == Min({1000 * 2^(attempt - 1), RetryMax})
Header(h) == IF h.is # "number" THEN {} ELSE {Min({Max({h.of, 0}), RetryMax})}
StreamRetryDelay(attempt, status, headers) ==
  LET told == {i \in 1..Len(headers) : Header(headers[i]) # {}} IN
  IF status /\ told # {} THEN Header(headers[Min(told)]) ELSE 0..Backoff(attempt)

---------------------------------------------------------------------------
(* ObservationStep.from_obs: a vector of n numbers and the features that may name *)
(* its parts, [under, exact, key, order, labels]; order is {} or {<<from, to>>}.   *)
Slices(features) == {i \in 1..Len(features) : features[i].under /\ features[i].order # {}}
From(f) == (CHOOSE o \in f.order : TRUE)[1]
To(f) == (CHOOSE o \in f.order : TRUE)[2]
Tiles(n, features) ==
  /\ \A i \in 0..n - 1 : Cardinality({s \in Slices(features) : From(features[s]) <= i /\ i <= To(features[s])}) = 1
  /\ \A s \in Slices(features) : From(features[s]) <= To(features[s]) => To(features[s]) < n
Direct(n, features) == \E i \in 1..Len(features) : LET f == features[i] IN f.under /\ f.order = {} /\ f.exact /\ f.labels = n
Group(f) == [from |-> From(f), to |-> To(f), labelled |-> f.labels = To(f) - From(f) + 1]
FromObs(n, features) ==
  IF Tiles(n, features)
  THEN LET named(k) == {s \in Slices(features) : features[s].key = k}
           last(k) == CHOOSE s \in named(k) : \A r \in named(k) : From(features[r]) <= From(features[s])
       IN [k \in {features[s].key : s \in Slices(features)} |-> Group(features[last(k)])]
  ELSE [k \in {"vector"} |-> [from |-> 0, to |-> n - 1, labelled |-> Direct(n, features)]]

---------------------------------------------------------------------------
(* Properties.                                                                   *)

\* Two tools keep two names, whatever is not allowed in them and however long
\* they are; and a name that is made twice is the one made once.
NamesApart(a, b, limit) ==
  LET name == ProviderToolName(a, limit) IN
  /\ Len(name) \in 1..limit /\ \A i \in 1..Len(name) : Plain(name[i])
  /\ ProviderToolName(name, limit) = name
  /\ a # b => ProviderToolName(b, limit) # name

\* Every tool of every server opened is offered once, under a name that calls
\* it and nothing else; where that cannot be, nothing is.
NoToolHidden(catalog, bindings, wanted) ==
  LET connections == Opened(bindings, wanted)
      built == BuildTools(catalog, connections)
      all == Offered(catalog, connections)
      full(t) == t.by[2] \o <<"__">> \o t.by[1]
  IN /\ \A i \in 1..Len(bindings) : (bindings[i].protocol = "mcp" /\ "mcp" \in wanted) => \E j \in 1..Len(connections) : connections[j] = bindings[i]
     /\ \A i \in 1..Len(bindings) : (bindings[i].protocol \in wanted /\ \A j \in 1..Len(connections) : connections[j] # bindings[i]) =>
          \E j \in 1..Len(connections) : connections[j].protocol = bindings[i].protocol
     /\ built.ok <=> \A i, j \in 1..Len(all) : all[i].name = all[j].name => i = j
     /\ (McpCount(connections) > 1 /\ ~built.ok) => \E i, j \in 1..Len(all) : i # j /\ full(all[i]) = full(all[j])
     /\ built.ok => /\ Len(built.params) = Len(all)
                    /\ \A i \in 1..Len(all) : built.tools[all[i].name] = all[i].by

\* A call is answered, unless what stops it is not the tool's own deadline; what
\* could not be carried out says so, and only a lost connection counts as lost.
CallAnswered(call, tool, deadline, end) ==
  LET r == DispatchCall(call, tool, deadline, end) IN
  IF r.is = "result"
  THEN /\ (r.infra => end.how = "lost" /\ r.ran) /\ (~r.error => r.ran /\ end.how = "ok")
       /\ (r.ran => ~call.malformed) /\ (tool.ssh /\ deadline # {} /\ r.ran /\ ~r.error) => \A d \in deadline : end.took <= d
  ELSE ~call.malformed /\ tool.known /\ end.how \in {"timeout", "cancelled"}

\* A result is shown for what it is: an error is never taken for a success where
\* there is a mark for it, the first text of either is always seen, and nothing
\* is shown that the tool did not return.
ResultShown(call, result) ==
  LET shown(r) == {r.shown[i] : i \in 1..Len(r.shown)}
      replies == {ClaudeResult(call, result), OpenAIResult(call, result), GeminiResult(call, result)}
      marked == {r \in replies : r.is = "reply"}
      chat == ChatResult(call, result)
      texts == FirstText(result.content)
  IN /\ call.id => \A r \in replies : r.is = "nothing" => FALSE
     /\ \A r \in marked : result.error <=> Mark("error") \in shown(r)
     /\ \A r \in marked \cup {chat} : Range(ShowAll(texts)) \subseteq shown(r)
     /\ \A r \in marked : \A s \in shown(r) : s.mark = "block" => s.block \in Range(result.content)
     /\ (call.id /\ ~result.error /\ ClaudeResult(call, result).is = "reply") =>
          /\ Range(ShowAll(result.content)) \subseteq shown(ClaudeResult(call, result))
          /\ Range(ClaudeResult(call, result).docs) \subseteq Range(result.content)
     /\ Range(ShowAll(Of(result.content, {"text"}))) \subseteq shown(chat)
     /\ (Mark("success") \in shown(chat) /\ result.error) => texts = <<>>

\* A call made by one name is answered by it, and the newest screenshots stay
\* while the request carries no more turns of them than it may.
ScreenshotsBounded(turns, keep) ==
  LET p == Pruned(turns, keep)
      with(t) == {i \in 1..Len(t) : t[i] # {}}
  IN /\ Cardinality(with(p)) = Min({keep, Cardinality(with(turns))})
     /\ \A i \in with(turns), j \in with(p) : i > j => i \in with(p)
     /\ Pruned(p, keep) = p
     /\ \A name \in {"click", "other"}, computer \in BOOLEAN : MakeToolCall(name, {"click"}, computer).answers = name

\* Every source the model was given is cited, and none both as named and not.
CitedOnce(chunks, supports) ==
  LET cited == GroundingCitations(chunks, supports)
      named == FlattenSeq(supports)
  IN /\ \A i \in 0..Len(chunks) - 1 : chunks[i + 1] => i \in Range(cited)
     /\ \A i \in 1..Len(cited) : i > Len(named) => cited[i] \notin Range(named) /\ SourceOf(chunks, cited[i])
     /\ Len(cited) - Len(named) <= Len(chunks)

\* No wait between tries is negative or long, whatever the service asks for.
RetryBounded(attempt, status, headers) == StreamRetryDelay(attempt, status, headers) \subseteq 0..RetryMax /\ StreamRetryDelay(attempt, status, headers) # {}

\* Every number of the vector is in one group, unless two parts share a name;
\* a group is labelled only by as many labels as it has numbers.
StateCovered(n, features) ==
  LET groups == FromObs(n, features) IN
  (\A r, s \in Slices(features) : features[r].key = features[s].key => r = s) =>
    /\ \A i \in 0..n - 1 : Cardinality({k \in DOMAIN groups : groups[k].from <= i /\ i <= groups[k].to}) = 1
    /\ \A k \in DOMAIN groups : groups[k].labelled => \E f \in Range(features) : f.labels = groups[k].to - groups[k].from + 1

-----------------------------------------------------------------------------
(* How the schema of an MCP tool's arguments is bent to what a provider takes.    *)
(* A schema is a tree: [type, addl, props, required, items, prefix, anyOf, oneOf,    *)
(* allOf, ref, extra]; what is absent is "none", <<>> or {}; `items` is {} or {node}, *)
(* `props` a function, `prefix` the types of its items, `extra` whether it has a      *)
(* default or a keyword strict mode does not know.                                    *)

Nothing == [type |-> "none", addl |-> "none", props |-> <<>>, required |-> {}, items |-> {}, prefix |-> <<>>,
            anyOf |-> <<>>, oneOf |-> <<>>, allOf |-> <<>>, ref |-> "none", extra |-> FALSE]
Parts(s) == {s.props[k] : k \in DOMAIN s.props} \cup s.items \cup Range(s.anyOf) \cup Range(s.oneOf) \cup Range(s.allOf)
RECURSIVE Nodes(_)
Nodes(s) == {s} \cup UNION {Nodes(p) : p \in Parts(s)}

\* json_schema.update(over): what `over` has replaces what was there.
Updated(s, over) ==
  [type |-> IF over.type = "none" THEN s.type ELSE over.type, addl |-> IF over.addl = "none" THEN s.addl ELSE over.addl,
   props |-> IF over.props = <<>> THEN s.props ELSE over.props, required |-> IF over.props = <<>> THEN s.required ELSE over.required,
   items |-> IF over.items = {} THEN s.items ELSE over.items, prefix |-> <<>>,
   anyOf |-> IF over.anyOf = <<>> THEN s.anyOf ELSE over.anyOf, oneOf |-> <<>>,
   allOf |-> IF over.allOf = <<>> THEN s.allOf ELSE over.allOf,
   ref |-> IF over.ref = "none" THEN s.ref ELSE over.ref, extra |-> FALSE]

\* ensure_strict_json_schema; defs are the root's own, made strict before.
ItemOf(prefix) ==
  LET types == Range(prefix) \ {""} IN
  [Nothing EXCEPT !.type = IF Cardinality(types) = 1 THEN CHOOSE t \in types : TRUE ELSE "integer"]
RECURSIVE EnsureStrict(_, _)
EnsureStrict(s, defs) ==
  LET all(seq) == [i \in 1..Len(seq) |-> EnsureStrict(seq[i], defs)]
      own == [s EXCEPT
        !.addl = IF s.type = "object" /\ @ \in {"none", "true"} THEN "false" ELSE @,
        !.props = [k \in DOMAIN @ |-> EnsureStrict(@[k], defs)],
        !.required = IF s.props = <<>> THEN @ ELSE DOMAIN s.props,
        !.items = IF s.prefix # <<>> THEN {ItemOf(s.prefix)} ELSE {EnsureStrict(i, defs) : i \in @},
        !.prefix = <<>>,
        !.anyOf = all(@) \o all(s.oneOf),
        !.oneOf = <<>>,
        !.allOf = IF Len(@) = 1 THEN <<>> ELSE all(@),
        !.extra = FALSE]
      merged == IF Len(s.allOf) = 1 THEN Updated(own, EnsureStrict(s.allOf[1], defs)) ELSE own
  IN IF merged.ref # "none" /\ merged # [Nothing EXCEPT !.ref = merged.ref]
     THEN EnsureStrict([Updated(EnsureStrict(defs[merged.ref], defs), merged) EXCEPT !.ref = "none"], defs)
     ELSE merged
Refused(s) == \E n \in Nodes(s) : n.type = "object" /\ n.addl = "schema"
\* OpenAIMCPProxyTool.to_params: what cannot be made strict is sent as it is.
Parameters(s, defs) ==
  CASE s = Nothing -> [Nothing EXCEPT !.type = "object", !.addl = "false"]
    [] s # Nothing /\ Refused(s) -> s
    [] OTHER -> EnsureStrict(s, defs)

\* _sanitize_schema_for_openai: the first alternative that is not null, and
\* only what the chat format knows.  An empty schema takes any object.
RECURSIVE Sanitized(_)
Sanitized(s) ==
  LET some == SelectSeq(s.anyOf, LAMBDA o : o.type # "null")
      base == CASE s.anyOf = <<>> -> Nothing
                [] s.anyOf # <<>> /\ some = <<>> -> [Nothing EXCEPT !.type = "string"]
                [] OTHER -> Sanitized(some[1])
      own == [Nothing EXCEPT !.type = IF s.prefix # <<>> THEN "array" ELSE s.type,
                !.props = [k \in DOMAIN s.props |-> Sanitized(s.props[k])], !.required = s.required,
                !.items = IF s.prefix # <<>> THEN {[Nothing EXCEPT !.type = IF s.prefix[1] = "" THEN "string" ELSE s.prefix[1]]}
                          ELSE {Sanitized(i) : i \in s.items}]
      both == [Updated(base, own) EXCEPT !.required = IF s.required = {} THEN base.required ELSE s.required]
  IN IF both = Nothing THEN [Nothing EXCEPT !.type = "object"] ELSE both

\* Whatever strict mode is promised holds of every part that is sent: objects
\* are closed and all of their properties required, nothing is left that it does
\* not know; and no argument of the tool is lost but where a single allOf, or a
\* definition it stands for, has properties of its own.  (Two things escape it:
\* additionalProperties {} and a tuple of objects.)
Regular(s) == \A n \in Nodes(s) : n.addl # "empty" /\ "object" \notin Range(n.prefix)
StrictHolds(s, defs) ==
  LET strict == Parameters(s, defs) IN
  /\ (~Refused(s) /\ Regular(s)) => \A n \in Nodes(strict) :
       /\ n.type = "object" => n.addl = "false"
       /\ n.props # <<>> => n.required = DOMAIN n.props
       /\ n.oneOf = <<>> /\ n.prefix = <<>> /\ ~n.extra /\ Len(n.allOf) # 1
       /\ n.ref # "none" => n = [Nothing EXCEPT !.ref = n.ref]
  /\ (s.allOf = <<>> /\ s.props # <<>>) => DOMAIN strict.props = DOMAIN s.props
  /\ Refused(s) => strict = s
\* The chat format is offered no alternative and no tuple, every argument of the
\* tool still, and an optional one with the type it has when given.
ChatHolds(s) ==
  LET chat == Sanitized(s) IN
  /\ \A n \in Nodes(chat) : n.anyOf = <<>> /\ n.oneOf = <<>> /\ n.allOf = <<>> /\ n.prefix = <<>> /\ n.ref = "none" /\ n # Nothing
  /\ s.props # <<>> => DOMAIN chat.props = DOMAIN s.props
  /\ \A k \in DOMAIN s.props : LET o == s.props[k].anyOf IN
       \A i \in 1..Len(o) : (s.props[k] = [Nothing EXCEPT !.anyOf = o] /\ Len(o) = 2 /\ o[3 - i].type = "null" /\ o[i].type \notin {"null", "none"}) =>
         chat.props[k].type = o[i].type
=============================================================================
