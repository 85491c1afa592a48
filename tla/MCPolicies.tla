------------------------------ MODULE MCPolicies ------------------------------
(* The pure rules of the system over bounded inputs, one state per input, and *)
(* the commands that keep a directory and the platform in step.               *)
EXTENDS SessionLaunch, PlatformSync, HarborServing, WireClients, BatchedModel

Edits == INSTANCE EditRules
Agent == INSTANCE AgentRules
Screen == INSTANCE ScreenRules
Eval == INSTANCE EvalRules
Client == INSTANCE ClientRules
File == INSTANCE FileRules
Compose == INSTANCE ComposeRules
Cli == INSTANCE CliRules
Harbor == INSTANCE HarborRules
Ctl == INSTANCE ControlRules

VARIABLE input

(* The agents' side: texts and patches, calls, results, answers, screens; then *)
(* tasksets, graders and the SDK's clients.                                    *)
SeqsOf(S, lengths) == UNION {[1..n -> S] : n \in lengths}
CaseOf(rule, domain) == {[rule |-> rule, of |-> x] : x \in domain}

\* Texts and patches of them.
TextLine(b, i, t) == [body |-> b, indent |-> i, trail |-> t]
TextLines == {TextLine("a", 0, 0), TextLine("a", 1, 0), TextLine("b", 0, 0), TextLine("b", 0, 1)}
PatchLines == [mode : {"keep", "delete", "add"}, line : {TextLine("a", 0, 0), TextLine("b", 0, 0)}]
Anchors == {[is |-> "none"], [is |-> "mark"], [is |-> "at", line |-> TextLine("a", 0, 0)]}
Sections(lengths) == [anchor : Anchors, lines : SeqsOf(PatchLines, lengths), eof : BOOLEAN]
Marked(lengths) == [anchor : {[is |-> "mark"]}, lines : SeqsOf(PatchLines, lengths), eof : {FALSE}]
PatchedFiles == {[f \in F |-> <<TextLine("a", 0, 0)>>] : F \in SUBSET {"f", "g"}}
PatchActions ==
  [kind : {"add", "delete"}, path : {"f", "g"}, to : {{}}, sections : {<<>>}, lines : {<<TextLine("b", 0, 0)>>}] \cup
  [kind : {"update"}, path : {"f", "g"}, to : {{}, {"g"}, {"h"}}, lines : {<<>>},
   sections : {<<[anchor |-> [is |-> "mark"], lines |-> <<[mode |-> "delete", line |-> TextLine(b, 0, 0)]>>, eof |-> FALSE]>> : b \in {"a", "b"}}]
EndedTexts == {t \in SeqsOf([body : {"a", "b"}, ended : BOOLEAN], 0..2) : \A i \in 1..Len(t) - 1 : t[i].ended}
Texts(lengths) == SeqsOf({"x", "y"}, lengths)
Printed(c, n) == [i \in 1..n |-> <<c, i>>]
Marker == Printed("marker", 2)

PickEdit ==
  \/ input' \in CaseOf("patch", SeqsOf(TextLines, 0..3) \X SeqsOf(Sections(0..2), {1}))
  \/ input' \in CaseOf("patch", SeqsOf(TextLines, {3}) \X (SeqsOf(Marked({3}), {1}) \cup SeqsOf(Marked({2}), {1, 2})))
  \/ input' \in CaseOf("patches", SeqsOf(PatchActions, 0..2) \X PatchedFiles)
  \/ input' \in CaseOf("edit", [there : BOOLEAN, text : Texts(0..4)] \X Texts(0..2) \X Texts(0..2) \X BOOLEAN)
  \/ input' \in CaseOf("insert", EndedTexts \X (-1..3) \X {"", "a", "c"})
  \/ input' \in CaseOf("pages", (0..6) \X (1..4))
  \/ input' \in CaseOf("output", (0..6) \X (0..6) \X (1..7))

EditsSound ==
  CASE input.rule = "patch" -> Edits!PatchFaithful(input.of[1], input.of[2])
    [] input.rule = "patches" -> Edits!PatchWhole(input.of[1], input.of[2])
    [] input.rule = "edit" -> Edits!EditsExact(input.of[1], input.of[2], input.of[3], input.of[4])
    [] input.rule = "insert" -> Edits!InsertKeeps(input.of[1], input.of[2], input.of[3])
    [] input.rule = "pages" -> Edits!PagesCover(input.of[1], input.of[2])
    [] input.rule = "output" -> Edits!BoundKeepsEnds(Printed("out", input.of[1]), Printed("err", input.of[2]), input.of[3], Marker)
    [] OTHER -> TRUE

\* Names, manifests, calls and results.
Spellings(lengths) == SeqsOf({Agent!Char(c) : c \in {"a", "_", "."}}, lengths)
Shell == [name |-> <<"shell">>, protocol |-> "ssh", tools |-> <<>>]
Server(n, tools) == [name |-> n, protocol |-> "mcp", tools |-> tools]
ToolNames == {<<"shell">>, <<"b">>, <<"a", "__", "b">>}
Bindings == SeqsOf({Shell, [Shell EXCEPT !.name = <<"other">>], [Shell EXCEPT !.protocol = "rfb"]}
                   \cup {Server(n, t) : n \in {<<"a">>, <<"a", "__", "a">>}, t \in SeqsOf(ToolNames, 0..2)}, 0..3)
Manifests == {m \in Bindings : \A i, j \in DOMAIN m : m[i].name = m[j].name => (i = j \/ m[i].protocol # m[j].protocol)}
Catalog == <<[client |-> "ssh", name |-> <<"shell">>], [client |-> "ssh", name |-> <<"edit">>],
             [client |-> "rfb", name |-> <<"computer">>], [client |-> "mcp", name |-> <<>>]>>
CallEnds == [how : {"ok", "error", "raises", "lost", "timeout", "cancelled"}, took : 0..2]
Blocks == [kind : {"text", "image", "pdf", "link", "resource", "audio"}, id : {1, 2}]
ToolResults == [error : BOOLEAN, structured : {"none", "text", "other"}, content : SeqsOf(Blocks, 0..3)]
Features == [under : {TRUE}, exact : BOOLEAN, key : {"p", "q"}, order : {{}} \cup {{<<a, b>>} : a \in 0..1, b \in 0..2}, labels : 0..2]
RetryHeaders == SeqsOf({[is |-> "absent"], [is |-> "garbled"]} \cup [is : {"number"}, of : {-1, 0, 700, 9000}], {2})

\* Schemas: leaves, nodes over leaves, and nodes over those.
Leaves == {[Agent!Nothing EXCEPT !.type = t, !.extra = e] : t \in {"string", "null"}, e \in BOOLEAN}
            \cup {[Agent!Nothing EXCEPT !.type = "object", !.addl = a] : a \in {"none", "true", "empty", "schema"}}
            \cup {[Agent!Nothing EXCEPT !.ref = "D", !.extra = e] : e \in BOOLEAN}
Properties(S) == {<<>>} \cup [{"x"} -> S]
Over(S, one) ==
  {[Agent!Nothing EXCEPT !.type = t, !.props = p, !.required = r, !.items = i, !.prefix = x] :
     t \in {"object", "none"}, p \in Properties(S), r \in {{}, {"x"}}, i \in {{}} \cup {{c} : c \in one}, x \in {<<>>, <<"string", "">>, <<"string", "object">>, <<"object">>}}
  \cup {[Agent!Nothing EXCEPT !.type = t, !.props = p, !.anyOf = a, !.oneOf = o, !.allOf = l] :
     t \in {"object", "none"}, p \in Properties(one), a \in SeqsOf(S, {0, 2}), o \in SeqsOf(one, 0..1), l \in SeqsOf(one, {0, 1, 2})}
OneLeaf == {[Agent!Nothing EXCEPT !.type = "string", !.extra = TRUE], [Agent!Nothing EXCEPT !.ref = "D", !.extra = TRUE]}
Trees(S) == Over(S \cup {[Agent!Nothing EXCEPT !.type = "object", !.props = [k \in {"y"} |-> l]] : l \in S}, OneLeaf)
Deep(S) == {[Agent!Nothing EXCEPT !.type = "object", !.props = [k \in {"x"} |-> t]] : t \in Over(S, OneLeaf)}
Definitions == [D |-> [Agent!Nothing EXCEPT !.type = "object", !.props = [k \in {"z"} |-> [Agent!Nothing EXCEPT !.type = "string"]]]]

PickAgent ==
  \/ input' \in CaseOf("schema", Trees(Leaves)) \/ input' \in CaseOf("schema", Deep(Leaves))
  \/ input' \in CaseOf("names", Spellings(1..4) \X Spellings(1..4) \X {5})
  \/ input' \in CaseOf("tools", Manifests \X {{"ssh", "mcp"}, {"ssh", "rfb", "mcp"}})
  \/ input' \in CaseOf("call", [malformed : BOOLEAN] \X [known : BOOLEAN, ssh : BOOLEAN] \X {{}, {1}} \X CallEnds)
  \/ input' \in CaseOf("result", [id : BOOLEAN, citations : BOOLEAN] \X ToolResults)
  \/ input' \in CaseOf("screenshots", SeqsOf({{}, {"s"}}, 0..5) \X (1..3))
  \/ input' \in CaseOf("citations", SeqsOf(BOOLEAN, 0..3) \X SeqsOf(SeqsOf(-1..3, 0..2), 0..2))
  \/ input' \in CaseOf("retry", (1..3) \X BOOLEAN \X RetryHeaders)
  \/ input' \in CaseOf("observation", (0..3) \X SeqsOf(Features, 0..2))

AgentSound ==
  CASE input.rule = "schema" -> Agent!StrictHolds(input.of, Definitions) /\ Agent!ChatHolds(input.of)
    [] input.rule = "names" -> Agent!NamesApart(input.of[1], input.of[2], input.of[3])
    [] input.rule = "tools" -> Agent!NoToolHidden(Catalog, input.of[1], input.of[2])
    [] input.rule = "call" -> Agent!CallAnswered(input.of[1], input.of[2], input.of[3], input.of[4])
    [] input.rule = "result" -> Agent!ResultShown(input.of[1], input.of[2])
    [] input.rule = "screenshots" -> Agent!ScreenshotsBounded(input.of[1], input.of[2])
    [] input.rule = "citations" -> Agent!CitedOnce(input.of[1], input.of[2])
    [] input.rule = "retry" -> Agent!RetryBounded(input.of[1], input.of[2], input.of[3])
    [] input.rule = "observation" -> Agent!StateCovered(input.of[1], input.of[2])
    [] OTHER -> TRUE

\* Computer calls, one part of the arguments varied at a time.
NoArgs == [at |-> {}, start |-> {}, text |-> <<>>, keys |-> <<>>, chords |-> <<>>, count |-> 1, amount |-> 2, direction |-> "none",
           button |-> "left", clear |-> FALSE, enter |-> FALSE]
Points == {<<0, 0>>, <<40, 10>>, <<90, 70>>}
KeyLists == SeqsOf({"ctrl", "s", "unknown"}, 0..2)
Arguments(base) ==
  {[base EXCEPT !.at = a, !.start = s, !.keys = k] : a \in {{}} \cup {{p} : p \in Points}, s \in {{}, {<<90, 70>>}}, k \in KeyLists}
  \cup {[base EXCEPT !.at = {<<40, 10>>}, !.keys = k, !.direction = d, !.button = b] : k \in KeyLists, d \in {"up", "down", "left"}, b \in {"right", "odd"}}
  \cup {[base EXCEPT !.at = a, !.text = t, !.clear = c, !.enter = e] :
          a \in {{}, {<<40, 10>>}}, t \in SeqsOf({"a", "unknown"}, 0..2), c \in BOOLEAN, e \in BOOLEAN}
  \cup {[base EXCEPT !.chords = h, !.count = n] : h \in SeqsOf({<<"ctrl", "s">>, <<"s">>, <<"unknown">>}, 0..2), n \in 1..2}
ClaudeActions == {"left_click", "triple_click", "mouse_move", "left_mouse_down", "left_mouse_up", "type", "key", "hold_key", "scroll",
                  "left_click_drag", "screenshot", "other"}
GeminiActions == {"click_at", "hover_at", "type_text_at", "scroll_at", "navigate", "key_combination", "drag_and_drop", "open_web_browser", "other"}
OpenAIActions == {"click", "double_click", "scroll", "type", "move", "keypress", "drag", "screenshot", "other"}
Pressed == {Screen!Still, [Screen!Still EXCEPT !.held = {"left"}]}
Calls(base) == {[action |-> a, args |-> g] : a \in {"click", "type", "move", "keypress", "wait"},
                g \in {[base EXCEPT !.at = {p}, !.keys = k, !.text = <<"a">>] : p \in {<<0, 0>>, <<40, 10>>}, k \in {<<>>, <<"ctrl">>, <<"unknown">>}}}
DragPaths == SeqsOf(Points \cup {<<17, 40>>}, 2..3)
Captures == [1..3 -> [shot : BOOLEAN, reconnects : BOOLEAN]]

PickScreen ==
  \/ input' \in CaseOf("claude", ClaudeActions \X Arguments(NoArgs) \X Pressed \X (0..4) \X BOOLEAN)
  \/ input' \in CaseOf("gemini", GeminiActions \X Arguments(NoArgs) \X {Screen!Still} \X (0..4) \X BOOLEAN)
  \/ input' \in CaseOf("openai", OpenAIActions \X Arguments(NoArgs) \X {Screen!Still} \X (0..4) \X BOOLEAN)
  \/ input' \in CaseOf("actions", SeqsOf(Calls(NoArgs), 0..2) \X {Screen!Still} \X (0..3) \X {TRUE})
  \/ input' \in CaseOf("drag", DragPaths \X SeqsOf({"ctrl", "s"}, 0..2))
  \/ input' \in CaseOf("typed", SeqsOf({"a", "cr", "lf", "tab"}, 0..5))
  \/ input' \in CaseOf("inset", Points \X (Points \cup {<<200, 300>>}) \X {<<100, 80>>, <<80, 100>>})
  \/ input' \in CaseOf("tries shot", Captures)

ScreenSound ==
  CASE input.rule \in {"claude", "gemini", "openai"} ->
         Screen!NothingHeld(input.rule, input.of[1], input.of[2], input.of[3], input.of[4], input.of[5])
    [] input.rule = "actions" -> Screen!ActionsStop(input.of[1], input.of[2], input.of[3], input.of[4])
    [] input.rule = "drag" -> Screen!DragWhole(input.of[1], input.of[2])
    [] input.rule = "typed" -> Screen!TypedOnce(input.of)
    [] input.rule = "inset" -> Screen!DragInset(input.of[1], input.of[2], input.of[3])
    [] input.rule = "tries shot" -> Screen!ScreenshotTried(input.of)
    [] OTHER -> TRUE

---------------------------------------------------------------------------
(* Tasksets, jobs, graders, chats, training, and the SDK's clients.            *)

TaskOf(s, e, l, c) == [slug |-> s, env |-> e, live |-> l, container |-> c, verifier |-> <<>>]
NamedTasks == {TaskOf(s, "e", l, FALSE) : s \in {"a", "b"}, l \in {"x", "y"}}
ModuleNames == [private : BOOLEAN, is : {"task", "list", "taskset", "other"}, tasks : SeqsOf(NamedTasks, {1})]
                 \cup [private : {FALSE}, is : {"list"}, tasks : SeqsOf(NamedTasks, {0, 2})]
VerifierRows == [slug : {"v"}, env : {"e", "f"}, live : {"none", "y"}, container : BOOLEAN, configured : BOOLEAN]
PlacedTasks == {[TaskOf("a", "e", l, c) EXCEPT !.verifier = v] : l \in {"none", "x"}, c \in BOOLEAN, v \in SeqsOf(VerifierRows, 0..1)}
                 \cup {TaskOf("b", "f", l, c) : l \in {"none", "y"}, c \in BOOLEAN}
RunsOfJob == [slug : {"a", "b"}, reward : {0, 1, 4}, gerror : BOOLEAN, raw : BOOLEAN, terror : BOOLEAN]
ChatTurns == [runtime : {TRUE}, error : BOOLEAN] \cup [runtime : {FALSE}, error : {FALSE}]
Named == {<<"a">>, <<"b">>, <<"a", 1>>}
Scores == [name : Named, weight : {-10, 0, 5, 20}, value : {0, 3, 10}]
Subscores == [kind : {"awaited", "given"}, fails : {FALSE}, score : Scores] \cup
             [kind : {"awaited"}, fails : {TRUE}, score : {[name |-> <<"a">>, weight |-> 5, value |-> 3]}]
NamedOnly == [kind : {"given"}, fails : {FALSE}, score : [name : Named \cup {<<"a", 2>>}, weight : {5}, value : {3}]]
Replies == [json : {"MET", "UNMET", "odd", "none"}, met : {TRUE}, unmet : BOOLEAN] \cup [json : {"odd", "none"}, met : {FALSE}, unmet : {FALSE}]
Verdicts == [weight : {-2, -1, 0, 1, 3}, reply : Replies]
Words == {"the", "x", "y"}
TrainingItems == [is : {"run"}, steps : {<<>>, <<0>>, <<1, 0>>, <<1, 2>>}, id : BOOLEAN, group : 0..1, timeout : BOOLEAN] \cup [is : {"trace", "payload"}]
PlainRuns == [is : {"run"}, steps : {<<1>>}, id : {TRUE}, group : 1..2, timeout : {FALSE}]

PickEval ==
  \/ input' \in CaseOf("found", SeqsOf(ModuleNames, 0..2) \X SUBSET {"a", "b"})
  \/ input' \in CaseOf("placed", BOOLEAN \X SeqsOf(PlacedTasks, 0..2))
  \/ input' \in CaseOf("expanded", SeqsOf(NamedTasks, 0..3) \X (1..3))
  \/ input' \in CaseOf("counted", SeqsOf(RunsOfJob, 0..2))
  \/ input' \in CaseOf("chat", SeqsOf(ChatTurns, 0..4))
  \/ input' \in CaseOf("subscores", SeqsOf(Subscores, 0..2)) \/ input' \in CaseOf("subscores", SeqsOf(NamedOnly, 3..5))
  \/ input' \in CaseOf("rubric", SeqsOf(Verdicts, 0..2))
  \/ input' \in CaseOf("words", SeqsOf(Words, 0..4) \X SeqsOf(Words, 0..4))
  \/ input' \in CaseOf("batch", SeqsOf(TrainingItems, 0..2) \X {{}, {1}, {2}} \X BOOLEAN)
  \/ input' \in CaseOf("batch", SeqsOf(PlainRuns, 0..6) \X {{2}, {3}} \X {TRUE})

EvalSound ==
  CASE input.rule = "found" -> Eval!NoTaskReplaced(input.of[1], input.of[2])
    [] input.rule = "placed" -> Eval!PlacedAtHome(input.of[1], input.of[2])
    [] input.rule = "expanded" -> Eval!GroupsInOrder(input.of[1], input.of[2])
    [] input.rule = "counted" -> Eval!CountedOnce(input.of)
    [] input.rule = "chat" -> Eval!HistoryKept(input.of)
    [] input.rule = "subscores" -> Eval!SubscoresApart(input.of)
    [] input.rule = "rubric" -> Eval!RubricMonotone(input.of)
    [] input.rule = "words" -> Eval!F1Symmetric(input.of[1], input.of[2])
    [] input.rule = "batch" -> Eval!BatchWhole(input.of[1], input.of[2], input.of[3])
    [] OTHER -> TRUE

\* Services that fail, tools that answer, catalogs and settings.
TriesOf(n) == [1..n -> [how : {"status"}, code : {200, 204, 404, 503}, body : {"json", "empty"}]
                         \cup [how : {"status"}, code : {200}, body : {"garbled"}]
                         \cup [how : {"timeout", "network", "other"}, code : {0}, body : {"empty"}]]
Posts == [how : {"ok", "retryable", "fatal", "cancelled"}, took : {0, 1, 3}]
Messages == [kind : {"request", "notification"}, comes : 0..2, takes : 0..2]
TextBlocks == SeqsOf([text : BOOLEAN, of : {"a", "b"}], 0..2)
ToolAnswers == [form : {"result", "pair"}, blocks : TextBlocks, structured : {{}, {"s"}}]
                 \cup [form : {"iterable"}, blocks : TextBlocks, structured : {{}}]
                 \cup [form : {"dict", "none", "text", "bytes", "number", "odd"}, blocks : {<<>>}, structured : {{}}]
Fields == {"isError", "is_error", "structuredContent", "structured_content", "content"}
KeyNames == {"hud", "anthropic", "openai", "gemini", "aws id", "aws secret", "aws region"}
ModelLists == {<<>>, <<"m1">>, <<"m1", "m2">>, <<"m1", "m2", "m3">>, <<"m0", "m1", "m2", "m3">>, <<"m2", "m3">>}
Catalogs == {[models |-> m, total |-> Len(m) + k] : m \in ModelLists, k \in {0, 1}}
ModelEntries == [id : {"u", "v"}, name : {"u", "n"}, slug : {<<>>, <<"n">>, <<"p", "v">>}]
Distinctly(entries) == \A i, j \in 1..Len(entries) : entries[i].id = entries[j].id => i = j
EntriesIn(S) == {e \in SeqsOf(S, 0..2) : Distinctly(e)}

PickClient ==
  \/ input' \in CaseOf("requested", BOOLEAN \X {0} \X {2} \X TriesOf(1))
  \/ input' \in CaseOf("requested", {TRUE} \X {2} \X {2} \X TriesOf(3))
  \/ input' \in CaseOf("posted", {"request", "notification"} \X {2, 5} \X SeqsOf(Posts, 1..4))
  \/ input' \in CaseOf("posted", {"request"} \X {Client!GlobalTimeout(n, 9) : n \in {0, 20}} \X SeqsOf([how : {"retryable"}, took : {0}], {7}))
  \/ input' \in CaseOf("written", SeqsOf(Messages, 0..3))
  \/ input' \in CaseOf("answered", [known : BOOLEAN, wraps : BOOLEAN] \X BOOLEAN \X BOOLEAN \X ToolAnswers)
  \/ input' \in CaseOf("fields", UNION {[F -> {"p", "q"}] : F \in SUBSET Fields})
  \/ input' \in CaseOf("keys", {"anthropic", "openai", "gemini"} \X BOOLEAN \X BOOLEAN \X (SUBSET KeyNames))
  \/ input' \in CaseOf("catalog", SeqsOf(Catalogs, 1..3) \X (1..2))
  \/ input' \in CaseOf("model", {{}, {"w"}} \X BOOLEAN \X BOOLEAN \X EntriesIn(ModelEntries) \X {<<"u">>, <<"v">>, <<"n">>, <<"p", "v">>, <<"z">>})
  \/ input' \in CaseOf("setting", (SUBSET {"init", "env", "dotenv", "user", "secrets"}) \X BOOLEAN \X BOOLEAN)
  \/ input' \in CaseOf("steps", SeqsOf([id : {0, 5}, ended : {2}], 0..2) \X [id : {0}, ended : 0..2])
  \/ input' \in CaseOf("trace", {{}, {"t"}} \X {{}, {"t"}, {"u"}})

ClientSound ==
  CASE input.rule = "requested" -> Client!RequestBounded(input.of[1], input.of[2], input.of[3], input.of[4])
    [] input.rule = "posted" -> Client!PostAnswered(input.of[1], input.of[2], input.of[3])
    [] input.rule = "written" -> Client!WriterOrdered(input.of)
    [] input.rule = "answered" -> Client!ToolAnswered(input.of[1], input.of[2], input.of[3], input.of[4])
    [] input.rule = "fields" -> Client!FieldsKept(input.of)
    [] input.rule = "keys" -> Client!KeysAtHome(input.of[1], input.of[2], input.of[3], input.of[4])
    [] input.rule = "catalog" -> Client!CatalogListed(input.of[1], input.of[2])
    [] input.rule = "model" -> Client!ModelNamed(input.of[1], input.of[2], input.of[3], input.of[4], input.of[5])
    [] input.rule = "setting" -> Client!SettingNearest(input.of[1], input.of[2], input.of[3])
    [] input.rule = "steps" -> Client!StepsNumbered(input.of[1], input.of[2])
    [] input.rule = "trace" -> Client!TraceCarried(input.of[1], input.of[2])
    [] OTHER -> TRUE

(* Sessions, commands, documents and the control channel.                      *)

\* Commands that run at once differ only by name.
CliSymmetry == Permutations(CliRuns)

\* The commands of the runs: each kind plain, and with the flags that matter.
CommandOf(kind, flags) ==
  [kind |-> kind, explicit |-> "explicit" \in flags, link |-> "link" \in flags, project |-> "project" \in flags,
   force |-> "force" \in flags, dry |-> "dry" \in flags]
SyncCommands ==
  {CommandOf(k, {}) : k \in {"deploy", "env", "project", "tasks"}} \cup
  {CommandOf("tasks", f) : f \in {{"explicit"}, {"explicit", "link"}, {"explicit", "force"}, {"explicit", "project"}, {"dry"}}} \cup
  {CommandOf("deploy", {"explicit"})}
RowsOf(sigs, envs) == [sig : sigs, env : envs]
SyncRows == RowsOf({"a", "b"}, {"x"}) \cup RowsOf({"a"}, {"y"})

PeerLists == UNION {[1..n -> [name : {"db", "api"}, port : {80, 81, 3128}]] : n \in 0..3}
Addresses == UNION {[1..n -> [public : BOOLEAN, up : BOOLEAN]] : n \in 0..2}
Hosts == {<<>>, <<"org">>, <<"py", "org">>, <<"x", "py", "org">>, <<"x", "org">>}
Allowed == {{}, {<<"*">>}, {<<"py", "org">>}, {<<"org">>}}
Upstreams == {"good", "unrelayable", "silent", "broken"}
Requests == [auth : {"ok", "wrong"}, split : {TRUE}, host : Hosts, method : {"CONNECT", "GET"}, framed : BOOLEAN, portOK : BOOLEAN,
             named : {TRUE}, ascii : {TRUE}, addresses : Addresses, upstream : Upstreams]
OddRequests == [auth : {"open", "odd"}, split : BOOLEAN, host : {<<>>, <<"org">>}, method : {"CONNECT", "GET"}, framed : {TRUE}, portOK : BOOLEAN,
                named : BOOLEAN, ascii : BOOLEAN, addresses : {a \in Addresses : Len(a) <= 1}, upstream : {"good", "broken"}]

FileNames == {".ssh", "a.txt"}
Paths == UNION {[1..n -> FileNames] : n \in 1..2}
Patterns == {File!Ignored(lines) : lines \in SUBSET [kind : {"rule", "comment"}, dir : BOOLEAN, name : FileNames]}
Contents == [path : {<<"a.txt">>, <<".ssh", "a.txt">>}, size : 1..3, mtime : 1..2, version : {"v1", "v2"},
             text : BOOLEAN, readable : BOOLEAN]
Entries == [size : 1..3, redacted : BOOLEAN, kept : {TRUE}, same : BOOLEAN]
EntryLists == UNION {[1..n -> Entries] : n \in 0..3}
Secret == {[dir |-> TRUE, name |-> ".ssh"]}

\* Compose documents.
Seqs(S, lengths) == UNION {[1..n -> S] : n \in lengths}
Vars == {"A", "B"}
Simple == {[kind |-> k] : k \in {"text", "escaped", "lone", "unclosed"}} \cup [kind : {"bare"}, var : Vars]
Braced(operands) == [kind : {"braced"}, var : {"A"}, op : {"", ":-", "-", ":+", "+", ":?", "?"}, operand : operands]
Nested == Braced(Seqs(Simple, 0..1) \cup {<<[kind |-> "braced", var |-> "B", op |-> "-", operand |-> <<[kind |-> "lone"]>>]>>})
Scalars == [quoted : BOOLEAN, pieces : Seqs(Simple, 0..2) \cup Seqs(Nested, {1})]
EnvLines == [var : Vars, pieces : {<<>>, <<[kind |-> "text"]>>, <<[kind |-> "lone"]>>, <<[kind |-> "bare", var |-> "A"]>>}]
PortItems == [form : {"int", "text"}, target : {80, 81}, protocol : {"", "tcp", "udp", "sctp"}, range : BOOLEAN]
PairsOf(S) == {{x, y} : x, y \in S}
Modes == [{"a", "b", "c"} -> {"a", "b", "c", "d", "own"}]
RelPaths == Seqs({"a", "..", "."}, 1..3)
RefPaths == RelPaths \cup {<<r>> \o q : r \in {"/", "://", "service:"}, q \in Seqs({"a", ".."}, 1..2)}
Refs == [kind : {"build", "additional", "volume"}, path : RefPaths]
Files == {<<"p", "a">>, <<"p", "b">>, <<"q", "a">>}
Directories == {<<".">>, <<"p">>, <<"p", "q">>, <<"..">>, <<"p", "..", "..">>, <<"/", "p">>}

\* Build contexts and registry variables.
IgnoreLines == [negate : BOOLEAN, rooted : BOOLEAN, dirOnly : BOOLEAN,
                body : {<<"*">>, <<"**">>, <<".env">>, <<"src", ".env.local">>, <<"src", "**">>, <<"**", "a.py">>, <<".git">>, <<"src">>}]
BuildPaths == Seqs({"src", "a.py", ".env", ".env.local", ".git", "venv"}, 1..3)
Seeds == [dotenv : BOOLEAN, noEnv : BOOLEAN, file : {"", "f"}, flags : {<<>>, [A |-> "flag"]}, linked : BOOLEAN,
          byId : BOOLEAN, tty : BOOLEAN, agreed : BOOLEAN, dry : BOOLEAN]
SeedFiles == [n \in {".env", "f"} |-> [A |-> n, B |-> n]]
Specs == {<<>>, [id |-> "s"], [id |-> "s", env |-> "E"], [id |-> "s", src |-> "f"], [id |-> "s", env |-> "X", src |-> "f"], [env |-> "E"]}

\* Commands.
Items == [id : {1, 2}, name : {"n", "m"}]
ConfigFiles == [runtime : {"none", "docker"}, remote : BOOLEAN, all : BOOLEAN, steps : {10, 20}, agent : {"none", "claude"},
                sections : {[s \in {"claude", "openai"} |-> [k |-> "file"]]}]
Configs2 == Seqs([section : {"none", "claude", "openai"}, key : {"k"}, value : {"v", "w"}], 0..2)
Flags == [remote : BOOLEAN, runtime : {"none", "local"}, all : BOOLEAN, full : BOOLEAN, steps : {0, 5},
          agent : {"none", "openai"}, configs : Configs2]
RowLists == Seqs([slug : {"a", "b"}, id : {"t"}, container : BOOLEAN, bound : BOOLEAN, verifier : {"none", "shared", "source", "container"}], 0..2)
TaskRows == {rows \in RowLists : Len(rows) = 2 => rows[1].slug # rows[2].slug}
Blobs == [none : BOOLEAN, verdict : {"none", "passed", "failed", "unknown", "odd"}, schema : BOOLEAN, findings : BOOLEAN,
          flag : {"none", "yes", "no", "odd"}, problems : [given : BOOLEAN, list : Seqs({"agent", "eval", "whoever", "untitled"}, 0..2)]]
Results == [status : {"", "completed", "error", "running"}, blob : Blobs]
Ends == [how : {"exit", "returns"}, code : {0, 1}, payload : BOOLEAN] \cup
        [how : {"raises"}, exc : [class : {"CliError"}, error : {"usage", "conflict"}] \cup [class : {"HudRequestError"}, status : {404, 401, 409, 429, 500, 400}]
                                 \cup [class : {"UsageError", "ValueError", "FileNotFoundError", "HudAuthenticationError", "HudTimeoutError", "RuntimeError"}]]

\* Harbor tasks, one part of them varied at a time.
Line(k, n, c) == [kind |-> k, name |-> n, continued |-> c]
Lines == {Line("from", n, c) : n \in {"", "hud-base", "hud-verifier", "a"}, c \in BOOLEAN}
           \cup {Line(k, "", c) : k \in {"odd", "open", "close", "other"}, c \in BOOLEAN}
Service(n, b, i, p, h, c) == [name |-> n, build |-> b, image |-> i, ports |-> p, healthy |-> h, completes |-> c]
ServiceSets == {{}} \cup {{Service(n, b, i, {}, h, FALSE)} : n \in {"db", "hud-base", "hud-verifier"}, b \in BOOLEAN, i \in BOOLEAN, h \in BOOLEAN}
                 \cup {{Service("job", TRUE, FALSE, {}, TRUE, TRUE)}}
HarborTask ==
  [name |-> "t", toml |-> "ok", servers |-> <<>>, skills |-> FALSE, steps |-> FALSE, compose |-> "none", build |-> "none",
   built |-> TRUE, mainImage |-> FALSE, image |-> FALSE, dockerfile |-> TRUE, lines |-> <<Line("from", "", FALSE)>>, separate |-> FALSE,
   verifierFile |-> TRUE, tests |-> TRUE, services |-> {}, insideHud |-> FALSE, ports |-> {}, instruction |-> TRUE, hooks |-> {"main"},
   health |-> [test |-> "none", args |-> 0, duration |-> <<>>], parts |-> [hash |-> 1, agentNet |-> "public", verifierNet |-> "public"]]
Servers == [name : {"m", "n", "shell"}, stdio : BOOLEAN, url : BOOLEAN]
ConfiguredTasks(base) ==
  {[base EXCEPT !.toml = x, !.servers = v, !.skills = k, !.steps = p, !.instruction = i] :
     x \in {"ok", "task_config_toml"}, v \in Seqs(Servers, 0..2), k \in BOOLEAN, p \in BOOLEAN, i \in BOOLEAN}
BuiltTasks(base) ==
  {[base EXCEPT !.compose = c, !.build = b, !.built = u, !.mainImage = m, !.image = i, !.dockerfile = d, !.separate = s,
          !.tests = t[1], !.verifierFile = t[2], !.services = v] :
          c \in {"none", "unbound", "invalid", "escapes", "ok"}, b \in {"none", "odd", "inside", "outside"}, u \in BOOLEAN, m \in BOOLEAN, i \in BOOLEAN,
          d \in BOOLEAN, s \in BOOLEAN, t \in {<<TRUE, TRUE>>, <<TRUE, FALSE>>, <<FALSE, FALSE>>}, v \in ServiceSets}
StagedTasks(base) ==
  {[base EXCEPT !.lines = l, !.separate = s] : l \in Seqs(Lines, 0..3), s \in BOOLEAN}
ComposedTasks(base) ==
  {[base EXCEPT !.compose = "ok", !.insideHud = h, !.ports = p, !.health = [test |-> k, args |-> a, duration |-> d]] :
          h \in BOOLEAN, p \in SUBSET {"control", "web"}, k \in {"none", "CMD", "CMD-SHELL", "odd"}, a \in 0..2, d \in Seqs({"1s", ""}, 0..2)}
DistinctStages(t) == \A i, j \in DOMAIN t.lines : (t.lines[i].kind = "from" /\ t.lines[i].name = t.lines[j].name /\ t.lines[i].name # "") => i = j
Grouping == {[HarborTask EXCEPT !.name = n, !.parts = [hash |-> h, agentNet |-> a, verifierNet |-> "public"], !.separate = s, !.hooks = k,
                !.compose = IF h = 1 THEN "ok" ELSE "none", !.services = IF h = 1 THEN v ELSE {}] :
                n \in {"t", "u"}, h \in 1..2, a \in {"public", "none"}, s \in BOOLEAN, k \in {{"main"}, {"db"}},
                v \in {{Service("db", FALSE, TRUE, {}, FALSE, FALSE)}}}
HarborLevels == [mode : {"none", "public", "no-network", "allowlist"}, hosts : {{}, {"a"}, {"b"}}]
Users == [form : {"none", "uid", "name"}, uid : {0, 1, 7}, name : {"root", "u", "ghost"}, group : {"none", "number", "root", "g", "ghost"}, gid : {0, 5}]
SystemUsers == [root |-> [uid |-> 0, gid |-> 0], u |-> [uid |-> 1, gid |-> 5]]
SystemGroups == [root |-> 0, g |-> 5]
FileTrees == {t \in SUBSET Paths : \A p \in t : Front(p) \in t \cup {<<>>}}
Roots == {<<>>, [p \in {<<"a">>, <<"a", "x">>, <<"b">>} |-> IF p = <<"a">> THEN "dir" ELSE "own"], [p \in {<<"c">>} |-> "dir"]}
Staged == {[q \in {<<>>} |-> "file"], [q \in {<<>>, <<"x">>} |-> IF q = <<>> THEN "dir" ELSE "file"]}
Brought == Seqs([target : Seqs({"a", "c"}, 1..2), staged : Staged], 0..2)
Values == Seqs([number : BOOLEAN, is : {0, 1}], 0..2)
RewardFiles == [there : BOOLEAN, parses : BOOLEAN, values : Values]

\* The control channel.
Evaluations == [form : {"ended", "number", "dict", "object", "other"}, is : {"number", "bool", "missing"}, score : {0, 1}, error : BOOLEAN]
                 \cup [form : {"result"}, is : {"number"}, score : {0, 1}, error : BOOLEAN]
Parameters == UNION {[N -> [kind : {"plain", "only", "args", "kwargs"}, required : BOOLEAN]] : N \in SUBSET {"a", "b", "c"}}
Turns == [form : {"message", "dict", "other"}, role : {"user", "assistant"}, content : {"text", "block"}]
           \cup [form : {"dict"}, role : {"system", "assistant"}, content : {"text", "odd"}]
Prompts == {[turns |-> FALSE]} \cup [turns : {TRUE}, of : Seqs(Turns, 0..2)]
Published == UNION {[N -> [address : BOOLEAN, answers : BOOLEAN]] : N \in SUBSET {"shell", "tools"}}
Urls == [scheme : {"none", "ws", "wss", "http", "https", "ftp"}, host : BOOLEAN, port : {0, 81}, lettered : BOOLEAN]
HostUrl == [scheme |-> "none", host |-> TRUE, port |-> 0, lettered |-> TRUE]
Capabilities == {Ctl!Ssh("shell", HostUrl), Ctl!Ssh("ssh", HostUrl), Ctl!Rfb("screen-1", HostUrl, 1), Ctl!Cdp("shell", HostUrl),
                 Ctl!Mcp("tools", HostUrl, "none"), Ctl!Robot("mcp", HostUrl),
                 [name |-> "files", protocol |-> "filetracking/1", url |-> Ctl!NormalizeUrl(HostUrl, "ssh", 22), transport |-> "none"]}
Limits == {{}, {0}, {1}, {2}, {3}}
RunLimits == [startup : {{}, {2}}, run : {{}, {1}, {2}, {3}}]

Case(rule, domain) == {[rule |-> rule, of |-> x] : x \in domain}
Init == input = [rule |-> "none"] /\ InitSync /\ InitHarbor /\ InitLink /\ InitCdp /\ InitRobot /\ InitBatch
\* An input is taken once, or one of the machines is set going.
First == source = [s \in Slugs |-> [sig |-> "a", env |-> "x"]]
Machine(m) == input = [rule |-> m]
Begin == /\ Machine("none") /\ UNCHANGED <<syncVars, harborVars, linkVars, cdpVars, robotVars, batchVars>>
         /\ \/ ~hsep /\ input' = [rule |-> "sync"]
            \/ First /\ input' = [rule |-> "harbor"]
            \/ First /\ ~hsep /\ input' \in {[rule |-> m] : m \in {"link", "cdp", "robot", "forward"}}
Pick == /\ Machine("none") /\ First /\ ~hsep /\ UNCHANGED <<syncVars, harborVars, linkVars, cdpVars, robotVars, batchVars>>
        /\ \/ input' \in Case("launch", Configs)
           \/ input' \in Case("routes", PeerLists \X SUBSET {80})
           \/ input' \in Case("answer", (Requests \cup OddRequests) \X Allowed)
           \/ input' \in Case("scans", {<<f, g, n>> \in Contents \X Contents \X (0..3) : f.path = g.path})
           \/ input' \in Case("capture", EntryLists)
           \/ input' \in Case("visit", Paths \X Patterns)
           \/ input' \in Case("scalar", Scalars \X Seqs(EnvLines, 0..2))
           \/ input' \in Case("owner", Modes \X {"a"})
           \/ input' \in Case("moved", Refs \X Directories)
           \/ input' \in Case("ports", (SUBSET {[form |-> "text", target |-> 80, protocol |-> "udp", range |-> FALSE], [form |-> "text", target |-> 81, protocol |-> "", range |-> TRUE]}) \X PairsOf(PortItems))
           \/ input' \in Case("archive", (SUBSET Files) \X Files \X ({<<"none">>, <<"p">>, <<"p", "..">>, <<"q">>}))
           \/ input' \in Case("context", Seqs(IgnoreLines, 0..1) \X BuildPaths)
           \/ input' \in Case("context", Seqs({l \in IgnoreLines : l.negate /\ ~l.dirOnly}, {2}) \X BuildPaths)
           \/ input' \in Case("seed", Seeds)
           \/ input' \in Case("secret", Specs)
           \/ input' \in Case("name", (SUBSET {"n", "m"}) \X {"", "n", "m"} \X {"", "n"})
           \/ input' \in Case("reference", [byId : BOOLEAN, id : {1, 3}, name : {"n"}] \X SUBSET Items)
           \/ input' \in Case("settings", ConfigFiles \X Flags)
           \/ input' \in Case("local", TaskRows \X {"none", "local", "docker"} \X BOOLEAN)
           \/ input' \in Case("chosen", {<<t, w, a>> \in TaskRows \X {{}, {"t"}, {"1"}, {"b"}} \X BOOLEAN : \A i \in 1..Len(t) : ~t[i].container})
           \/ input' \in Case("shown", Results)
           \/ input' \in Case("ends", BOOLEAN \X Ends)
           \/ input' \in Case("harbor task", ConfiguredTasks(HarborTask)) \/ input' \in Case("harbor task", BuiltTasks(HarborTask))
           \/ input' \in Case("harbor task", {t \in StagedTasks(HarborTask) : DistinctStages(t)}) \/ input' \in Case("harbor task", ComposedTasks(HarborTask))
           \/ input' \in Case("harbor group", {{t, u} : <<t, u>> \in {p \in Grouping \X Grouping : p[1] = p[2] \/ p[1].name # p[2].name}})
           \/ input' \in Case("level", HarborLevels \X HarborLevels \X {l \in HarborLevels : l.mode # "none"})
           \/ input' \in Case("user", Users \X {u \in Users : u.group \in {"none", "g"} /\ u.gid = 0})
           \/ input' \in Case("template", [kind : {"plain", "template"}, default : {"none", "", "d"}] \X {"none", "", "v"})
           \/ input' \in Case("served", (SUBSET {80, 8765}) \X SUBSET [number : {81, 8765}, protocol : {"", "udp"}])
           \/ input' \in Case("exclude", FileTrees \X SUBSET {<<"a.txt">>, <<".ssh">>, <<".ssh", "a.txt">>})
           \/ input' \in Case("restore", UNION {{<<f, b, n, c>> : f \in Roots, n \in 0..Len(b), c \in {"no", "before", "partial"}} : b \in Brought})
           \/ input' \in Case("reward", BOOLEAN \X RewardFiles \X [there : BOOLEAN, parses : {TRUE}, values : Values])
           \/ input' \in Case("grade", Evaluations)
           \/ input' \in Case("arguments", Parameters \X (SUBSET {"a", "b", "d"}) \X BOOLEAN)
           \/ input' \in Case("prompt", Prompts)
           \/ input' \in Case("said", BOOLEAN \X [given : BOOLEAN, text : BOOLEAN, parses : BOOLEAN])
           \/ input' \in Case("error", (0..4) \X (0..4) \X (1..2) \X {3})
           \/ input' \in Case("stream", [id : BOOLEAN, capability : {"none", "shell", "tools"}] \X Published)
           \/ input' \in Case("tries", [1..3 -> {"ok", "refused", "broken"}])
           \/ input' \in Case("transport", Urls \X {"none", "sse", "streamable-http", "websocket"})
           \/ input' \in Case("binding", Seqs(Capabilities, 0..3) \X {"shell", "ssh", "mcp", "files", "rfb/3.8"} \X BOOLEAN)
           \/ input' \in Case("ready", [1..4 -> {"ok", "refused", "eof", "error", "cancelled"}] \X (1..4))
           \/ PickEdit \/ PickAgent \/ PickScreen \/ PickEval \/ PickClient
           \/ input' \in Case("limits", Limits \X [given : BOOLEAN, seconds : Limits] \X Limits \X RunLimits \X RunLimits)
NextPolicies ==
  \/ Pick \/ Begin
  \/ Machine("sync") /\ NextSync /\ UNCHANGED <<input, harborVars, linkVars, cdpVars, robotVars, batchVars>>
  \/ Machine("harbor") /\ NextHarbor /\ UNCHANGED <<input, syncVars, linkVars, cdpVars, robotVars, batchVars>>
  \/ Machine("link") /\ NextLink /\ UNCHANGED <<input, syncVars, harborVars, cdpVars, robotVars, batchVars>>
  \/ Machine("cdp") /\ NextCdp /\ UNCHANGED <<input, syncVars, harborVars, linkVars, batchVars>>
  \/ Machine("robot") /\ NextRobot /\ UNCHANGED <<input, syncVars, harborVars, linkVars, batchVars>>
  \/ Machine("forward") /\ NextBatch /\ UNCHANGED <<input, syncVars, harborVars, linkVars, cdpVars, robotVars>>
Spec == Init /\ [][NextPolicies]_<<input, syncVars, harborVars, linkVars, cdpVars, robotVars, batchVars>>

\* What crosses the wall of a session, and what is seen and shown of its files.
Boundaries ==
  CASE input.rule = "launch" -> AgentWalled(input.of) /\ AgentBounded(input.of)
    [] input.rule = "routes" -> RoutesApart(input.of[1], input.of[2])
    [] input.rule = "answer" -> AnsweredOnce(input.of[1], input.of[2])
    [] input.rule = "scans" -> File!ScansApart(input.of[1], input.of[2], input.of[3], Secret)
    [] input.rule = "capture" -> File!CaptureFits(input.of)
    [] input.rule = "visit" -> File!NothingHidden(input.of[1], input.of[2])
    [] input.rule = "context" -> Cli!NoSecretUploaded(input.of[1], input.of[2])
    [] input.rule = "seed" -> Cli!OnlyAsked(input.of, SeedFiles)
    [] input.rule = "secret" -> Cli!SecretKnown(input.of, [E |-> "value"], [f |-> "text"])
    [] input.rule = "name" -> Cli!NameDeclared(input.of[1], input.of[2], input.of[3])
    [] OTHER -> TRUE

\* What is made of a document stays what was written, and stays inside.
Translations ==
  CASE input.rule = "scalar" -> Compose!NothingFromHost(input.of[1], input.of[2], Vars)
    [] input.rule = "owner" -> Compose!OwnerFound(input.of[1], input.of[2])
    [] input.rule = "moved" -> Compose!MovedInside({input.of[1]}, input.of[2])
    [] input.rule = "ports" -> Compose!PortsPlain(input.of[1], input.of[2])
    [] input.rule = "archive" -> Compose!ArchivedOnce(input.of[1], input.of[2], input.of[3])
    [] input.rule = "harbor task" -> Harbor!AdaptedBuilds(input.of)
    [] input.rule = "harbor group" -> Harbor!GroupServes(input.of)
    [] input.rule = "restore" -> Harbor!RootRestored(input.of[1], input.of[2], input.of[3], input.of[4], "extra")
    [] OTHER -> TRUE

\* What a command or a phase takes its input for, and how it ends.
CommandsSound ==
  CASE input.rule = "reference" -> Cli!ResolvedExactly(input.of[1], input.of[2])
    [] input.rule = "settings" -> Cli!FlagsWin(input.of[1], input.of[2])
    [] input.rule = "local" -> Cli!Startable(input.of[1], input.of[2], input.of[3])
    [] input.rule = "chosen" -> Cli!ChosenAsAsked(input.of[1], input.of[2], input.of[3])
    [] input.rule = "shown" -> Cli!PassedIsSettled(input.of)
    [] input.rule = "level" -> Harbor!OneLevel(input.of[1], input.of[2], input.of[3])
    [] input.rule = "user" -> Harbor!RootOnlyAsked(input.of[1], input.of[2], SystemUsers, SystemGroups)
    [] input.rule = "template" -> Harbor!VariableSettled(input.of[1], input.of[2])
    [] input.rule = "served" -> Harbor!PortsApart(input.of[1], input.of[2], {8765})
    [] input.rule = "exclude" -> Harbor!ExcludedWhole(input.of[1], input.of[2])
    [] input.rule = "reward" -> Harbor!RewardWritten(input.of[1], input.of[2], input.of[3])
    [] input.rule = "grade" -> Ctl!GradeKept(input.of)
    [] input.rule = "arguments" -> Ctl!SchemaIsContract(input.of[1], input.of[2], input.of[3])
    [] input.rule = "prompt" -> Ctl!TurnsKept(input.of)
    [] input.rule = "said" -> Ctl!AnswerKept(input.of[1], input.of[2])
    [] input.rule = "error" -> Ctl!ErrorFits(input.of[1], input.of[2], input.of[3], input.of[4])
    [] input.rule = "stream" -> Ctl!StreamsApart(input.of[1], input.of[2])
    [] input.rule = "tries" -> Ctl!CapabilityAwaited(input.of)
    [] input.rule = "transport" -> Ctl!TransportFits("tools", input.of[1], input.of[2])
    [] input.rule = "binding" -> Ctl!BindingResolves(input.of[1], input.of[2], input.of[3])
    [] input.rule = "ready" -> Ctl!ReadyCloses(input.of[1], input.of[2])
    [] input.rule = "limits" -> Ctl!TimeoutsNest(input.of[1], input.of[2], input.of[3], input.of[4], input.of[5])
    [] input.rule = "ends" -> Cli!EndsHonestly(input.of[1], input.of[2])
    [] OTHER -> TRUE

\* Each rule's result is what its input asks for, and no more than that: of what crosses
\* a session's wall, of documents, commands, grades and clients, and of an agent's tools.
RulesSound ==
  /\ Boundaries /\ Translations /\ CommandsSound /\ EvalSound /\ ClientSound
  /\ EditsSound /\ AgentSound /\ ScreenSound

Reach == input.rule = "launch" => PolicyReachable(input.of)
=============================================================================
