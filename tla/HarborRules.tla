------------------------------ MODULE HarborRules ------------------------------
(***************************************************************************)
(* hud.integrations.harbor.env, the rules of a served Harbor image: the      *)
(* network and the user of a phase, the variables it is given, the artifacts  *)
(* that cross to the verifier, and what its reward files say.                 *)
(***************************************************************************)
EXTENDS Integers, Sequences, FiniteSets, SequencesExt, Functions

None == "none"
Refused == "refused"

---------------------------------------------------------------------------
(* Phases                                                                    *)

\* adapt's verifier_policy: a verifier environment stands in where the phase
\* itself names no mode.  A level is [mode, hosts], mode None when not given.
VerifierPolicy(phase, environment) ==
  IF environment.mode # None /\ phase.mode = None THEN environment ELSE phase
\* network: what a phase may reach, its baseline where it names no mode.
Network(phase, baseline) ==
  LET level == IF phase.mode = None THEN baseline ELSE phase IN
  CASE level.mode = "no-network" -> [net |-> FALSE, hosts |-> {}]
    [] level.mode = "allowlist" -> [net |-> TRUE, hosts |-> level.hosts]
    [] OTHER -> [net |-> TRUE, hosts |-> {"any"}]

\* identity: the user of a phase, the image's where it declares none, with the
\* group it names or the primary group of its account; root is no identity.
\* user: [form, name, group], form None, "uid" or "name"; accounts: name ->
\* [uid, gid]; groups: name -> gid.
Account(user, accounts) ==
  IF user.form = "uid" THEN {accounts[n] : n \in {m \in DOMAIN accounts : accounts[m].uid = user.uid}}
  ELSE {accounts[n] : n \in {m \in DOMAIN accounts : m = user.name}}
Primary(user, accounts) ==
  IF Account(user, accounts) = {} THEN 0 ELSE (CHOOSE a \in Account(user, accounts) : TRUE).gid
Uid(user, accounts) == IF user.form = "uid" THEN user.uid ELSE (CHOOSE a \in Account(user, accounts) : TRUE).uid
Group(user, accounts, groups) ==
  CASE user.group = None -> Primary(user, accounts)
    [] user.group = "number" -> user.gid
    [] OTHER -> groups[user.group]
Unknown(user, accounts, groups) ==
  \/ user.form = "name" /\ Account(user, accounts) = {}
  \/ user.group \notin {None, "number"} \cup DOMAIN groups
\* The empty set stands for root, or no user at all.
Identity(declared, image, accounts, groups) ==
  LET user == IF declared.form # None THEN declared ELSE image
      who == <<Uid(user, accounts), Group(user, accounts, groups)>>
  IN IF user.form = None \/ Unknown(user, accounts, groups) \/ who = <<0, 0>> THEN {} ELSE {who}

\* resolve_env_templates: [kind "plain"] or [kind "template", default]; the
\* runtime's value counts, an empty one only where there is no default.
Template(t, runtime) ==
  IF t.kind = "plain" THEN "literal"
  ELSE IF runtime # None /\ (runtime # "" \/ t.default = None) THEN runtime
  ELSE IF t.default # None THEN t.default ELSE Refused

---------------------------------------------------------------------------
(* The image's own configuration                                             *)

\* The ports of main and of the peers that named none: those the image exposes.
Exposed(ports, tcpOnly) == {p.number : p \in {q \in ports : ~tcpOnly \/ q.protocol \in {"", "tcp"}}}
\* The start-up is refused when one of main's is HUD's, or a peer has none.
ServedPorts(declared, image, reserved) ==
  LET all == declared \cup Exposed(image, FALSE) IN IF all \cap reserved # {} THEN {} ELSE {all}
PeerPorts(declared, image) == IF declared # {} THEN declared ELSE Exposed(image, TRUE)

---------------------------------------------------------------------------
(* Artifacts                                                                 *)

\* A pattern matches a path as a whole, with "./" before it, or any of its tails.
Matches(path, patterns) == \E i \in 1..Len(path) : SubSeq(path, i, Len(path)) \in patterns
\* exclude_artifact_paths: the deepest entries first, a directory with all below.
Under(path, dir) == IsPrefix(dir, path)
Excluded(tree, patterns) ==
  LET ordered == SetToSortSeq(tree, LAMBDA p, q : Len(p) > Len(q)) IN
  FoldLeft(LAMBDA left, p : IF p \in left /\ Matches(p, patterns) THEN {q \in left : ~Under(q, p)} ELSE left, tree, ordered)
\* A tree of files: a function from paths to contents, "dir" for a directory.
Prune(f, at) == Restrict(f, {p \in DOMAIN f : ~Under(p, at)})
SubTree(f, at) == [q \in {SubSeq(p, Len(at) + 1, Len(p)) : p \in {r \in DOMAIN f : Under(r, at)}} |-> f[at \o q]]
Graft(f, at, sub) ==
  [p \in DOMAIN f \cup {at \o q : q \in DOMAIN sub} |->
     IF Under(p, at) THEN sub[SubSeq(p, Len(at) + 1, Len(p))] ELSE f[p]]
Parents(path) == {SubSeq(path, 1, i) : i \in 1..(Len(path) - 1)}
Names(f, dir) == {Last(p) : p \in {q \in DOMAIN f : Len(q) = Len(dir) + 1 /\ Under(q, dir)}}

\* materialized_artifacts brings one artifact: its missing parents are made, the
\* names beside it noted, what is in its place backed up, and it is copied in.
\* a: [target, staged]; cut: the last one fails "before" it replaces anything,
\* or in the middle of the copy ("partial").
Begun(f) == [root |-> f, backup |-> <<>>, replaced |-> <<>>, entries |-> <<>>, created |-> {}]
Bring(st, a, cut) ==
  LET missing == Parents(a.target) \ DOMAIN st.root
      made == [p \in DOMAIN st.root \cup missing |-> IF p \in missing THEN "dir" ELSE st.root[p]]
      parent == Front(a.target)
      had == a.target \in DOMAIN made
      noted == [st EXCEPT !.root = made, !.created = @ \cup missing,
                          !.entries = IF \E e \in ToSet(@) : e[1] = parent THEN @ ELSE Append(@, <<parent, Names(made, parent)>>)]
      copied == IF cut = "partial" THEN [q \in {<<>>} |-> "dir"] ELSE a.staged
  IN IF cut = "before" THEN noted
     ELSE [noted EXCEPT !.root = Graft(Prune(made, a.target), a.target, copied),
                        !.backup = IF had THEN Graft(@, a.target, SubTree(made, a.target)) ELSE @,
                        !.replaced = Append(@, <<a.target, had>>)]
Materialized(f, arts, n, cut) ==
  FoldLeft(LAMBDA st, i : Bring(st, arts[i], IF i = n THEN cut ELSE "no"), Begun(f), [i \in 1..n |-> i])
\* Its finally: the last one first, then whatever appeared beside the artifacts,
\* then the directories that were made, as far as they are empty.
Restored(st) ==
  LET Back(f, r) == IF r[2] THEN Graft(Prune(f, r[1]), r[1], SubTree(st.backup, r[1])) ELSE Prune(f, r[1])
      placed == FoldRight(LAMBDA r, f : Back(f, r), st.replaced, st.root)
      Swept(f, e) == Restrict(f, {p \in DOMAIN f : ~\E n \in Names(f, e[1]) \ e[2] : Under(p, Append(e[1], n))})
      swept == FoldLeft(Swept, placed, st.entries)
      Empty(f, dir) == \A p \in DOMAIN f : Under(p, dir) => p \in st.created
  IN Restrict(swept, {p \in DOMAIN swept : ~(p \in st.created /\ Empty(swept, p))})

---------------------------------------------------------------------------
(* Rewards                                                                   *)

\* reward: reward.json if it is there, and reward.txt only if it is not.  Of the
\* JSON the value itself counts, or its reward, or its score: the first number.
\* A value is [number, is], number FALSE for what is none, or is not finite.
FirstNumber(values) ==
  LET numbers == SelectSeq(values, LAMBDA v : v.number) IN IF numbers = <<>> THEN {} ELSE {Head(numbers).is}
Reward(json, text) ==
  IF json.there THEN IF json.parses THEN FirstNumber(json.values) ELSE {}
  ELSE IF text.there THEN FirstNumber(text.values) ELSE {}
\* evaluation: a verifier that timed out has no verdict, whatever it has written.
Evaluation(timedOut, json, text) ==
  IF timedOut \/ Reward(json, text) = {} THEN [isError |-> TRUE, reward |-> 0]
  ELSE [isError |-> FALSE, reward |-> CHOOSE r \in Reward(json, text) : TRUE]

---------------------------------------------------------------------------
\* A phase reaches what one level declares, and never the hosts of one level
\* under the mode of another.
OneLevel(phase, environment, baseline) ==
  LET levels == {l \in {phase, environment, baseline} : l.mode # None}
      got == Network(VerifierPolicy(phase, environment), baseline)
  IN /\ \E l \in levels : got = Network(l, l)
     /\ phase.mode # None => got = Network(phase, phase)

\* A variable is refused only where neither the runtime nor the document gives
\* it, and an empty one never stands for a default.
VariableSettled(t, runtime) ==
  LET v == Template(t, runtime) IN
  /\ (v = Refused) = (t.kind = "template" /\ runtime = None /\ t.default = None)
  /\ (t.kind = "template" /\ t.default \notin {None, ""}) => v # ""

\* A served image listens beside HUD, and every peer can be reached.
PortsApart(declared, image, reserved) ==
  /\ \A ports \in ServedPorts(declared, image, reserved) : ports \cap reserved = {} /\ declared \subseteq ports
  /\ PeerPorts(declared, image) # {} \/ \A p \in image : p.protocol \notin {"", "tcp"}

\* Nobody becomes root by a name or group that does not resolve: an empty answer
\* that is not a refusal was asked for as root, or not asked for at all.
RootOnlyAsked(declared, image, accounts, groups) ==
  LET user == IF declared.form # None THEN declared ELSE image IN
  /\ (Identity(declared, image, accounts, groups) = {} /\ user.form # None /\ ~Unknown(user, accounts, groups))
       => Uid(user, accounts) = 0 /\ Group(user, accounts, groups) = 0
  /\ \A who \in Identity(declared, image, accounts, groups) :
       user.form = "name" => who[1] = accounts[user.name].uid

\* What is excluded goes with all below it, and nothing else goes.
ExcludedWhole(tree, patterns) ==
  Excluded(tree, patterns) =
    {p \in tree : ~\E i \in 1..Len(p) : SubSeq(p, 1, i) \in tree /\ Matches(SubSeq(p, 1, i), patterns)}

\* Artifacts whose places do not lie in one another leave the verifier's root as
\* it was, wherever bringing them fails and whatever the tests leave beside them.
Apart(arts) == \A i, j \in DOMAIN arts : i # j => ~Under(arts[i].target, arts[j].target)
RootRestored(f, arts, n, cut, extra) ==
  LET st == Materialized(f, arts, n, cut)
      beside == {Append(e[1], extra) : e \in ToSet(st.entries)}
      left == [st EXCEPT !.root = [p \in DOMAIN @ \cup beside |-> IF p \in beside THEN "new" ELSE @[p]]]
  IN Apart(arts) => /\ Restored(left) = f
                    /\ cut = "no" => \A i \in 1..n : SubTree(st.root, arts[i].target) = arts[i].staged

\* A reward is a number the verifier wrote, in the file that counts, in time.
RewardWritten(timedOut, json, text) ==
  LET e == Evaluation(timedOut, json, text) IN
  ~e.isError => ~timedOut /\ [number |-> TRUE, is |-> e.reward] \in ToSet(IF json.there THEN json.values ELSE text.values)

-----------------------------------------------------------------------------
(* hud.integrations.harbor.adapt: which Harbor tasks are packaged, which       *)
(* findings refuse the others, and what the packaged project is made of: its    *)
(* services, Dockerfile stages, contexts and rows.                              *)

Found(condition, code) == IF condition THEN {code} ELSE {}

\* The ports and names HUD takes for itself beside the task's own.
HudPorts == {"bridge", "visitor", "control"}
WorkspaceNames == {"shell", "filetracking"}

---------------------------------------------------------------------------
(* Inspection                                                                *)

\* HealthcheckConfig.from_compose: what is probed, if anything is.  A duration
\* is the list of the parts that are a number and a unit, "" for what is not.
Healthcheck(h) ==
  IF h.test = "none" THEN "none"
  ELSE IF (h.test = "CMD" /\ h.args >= 1) \/ (h.test = "CMD-SHELL" /\ h.args = 1)
       THEN IF h.duration = <<>> \/ "" \notin ToSet(h.duration) THEN "probed" ELSE "refused"
       ELSE "refused"

\* _dockerfile_stages: every instruction FROM, found outside the bodies of
\* heredocs and after the continued lines are joined.  lines: [kind, name,
\* continued], kind "from", "odd" (a FROM that is not understood), "open" (a
\* heredoc), "close" (its delimiter) or "other".
Stages(lines) ==
  LET Read(acc, l) ==
        CASE acc.inside -> [acc EXCEPT !.inside = l.kind # "close"]
          [] acc.joined -> [acc EXCEPT !.joined = l.continued, !.inside = l.kind = "open" /\ ~l.continued]
          [] l.kind = "from" -> [acc EXCEPT !.names = Append(@, l.name), !.joined = l.continued]
          [] l.kind = "odd" -> [acc EXCEPT !.refused = TRUE]
          [] OTHER -> [acc EXCEPT !.joined = l.continued, !.inside = l.kind = "open" /\ ~l.continued]
  IN FoldLeft(Read, [names |-> <<>>, inside |-> FALSE, joined |-> FALSE, refused |-> FALSE], lines)

\* The parts of _inspect_task that look at task.toml.
ConfigFindings(t) ==
  LET names == [i \in DOMAIN t.servers |-> t.servers[i].name] IN
  Found(\E i \in DOMAIN t.servers : t.servers[i].stdio, "mcp_stdio") \cup Found(t.skills, "skills_dir")
    \cup Found(t.steps, "multi_step") \cup Found(~IsInjective(names), "duplicate_mcp_name")
    \cup Found(ToSet(names) \cap WorkspaceNames # {}, "reserved_mcp_name")
    \cup Found(\E i \in DOMAIN t.servers : ~t.servers[i].stdio /\ ~t.servers[i].url, "mcp_url")

\* Whether the main image has a Dockerfile, and what it is based on.
Composed(t) == t.compose \in {"escapes", "ok"}
OwnBuild(t) == Composed(t) /\ t.build # "none"
HasDockerfile(t) == IF OwnBuild(t) /\ t.build # "odd" THEN t.built ELSE t.dockerfile
BaseImage(t) == IF HasDockerfile(t) THEN "built" ELSE IF t.image \/ (Composed(t) /\ t.mainImage) THEN "pulled" ELSE "none"

\* The parts that look at environment/ and tests/.
RecipeFindings(t) ==
  Found(OwnBuild(t) /\ t.build = "odd", "compose_main_build_path")
    \cup Found(OwnBuild(t) /\ t.build = "outside", "compose_main_build_escape")
    \cup Found(OwnBuild(t) /\ ~HasDockerfile(t), "missing_compose_main_dockerfile")
    \cup Found(~OwnBuild(t) /\ BaseImage(t) = "none", "recipe")
    \cup (IF t.steps THEN {} ELSE IF t.separate /\ ~t.verifierFile THEN {"missing_verifier_dockerfile"}
          ELSE Found(~t.tests, "missing_tests"))

\* The names that the wrapped Dockerfile or project adds.
AddedStages(separate) ==
  {"hud-base", "hud-runtime"} \cup (IF separate THEN {"hud-docker-cli", "hud-verifier", "hud-verifier-root"} ELSE {})
ReservedStages(t) == AddedStages(t.separate)
MainPorts(t) == IF Composed(t) THEN t.ports ELSE {}

ReservedFindings(t) ==
  (IF ~Composed(t) THEN {}
   ELSE Found(\E s \in t.services : s.name \in {"hud-base", "hud-verifier"}, "reserved_compose_service")
          \cup Found(\E s \in t.services : ~s.build /\ ~s.image, "sidecar_recipe"))
    \cup Found(t.insideHud, "reserved_workdir")
    \cup Found(MainPorts(t) \cap HudPorts # {}, "reserved_main_port")
    \cup Found(Composed(t) /\ Healthcheck(t.health) = "refused", "healthcheck")
    \cup (IF Composed(t) \/ ~t.dockerfile THEN {}
          ELSE IF Stages(t.lines).refused \/ Stages(t.lines).names = <<>> THEN {"dockerfile"}
          ELSE Found(ToSet(Stages(t.lines).names) \cap ReservedStages(t) # {}, "reserved_dockerfile_stage"))

\* _inspect_task: a task without findings is adapted.
Inspect(t) ==
  IF t.toml # "ok" THEN {t.toml}
  ELSE ConfigFindings(t) \cup Found(t.compose = "unbound", "host_compose_variable")
         \cup Found(t.compose = "invalid", "compose") \cup Found(t.compose = "escapes", "compose_project_path")
         \cup (IF t.compose \in {"unbound", "invalid"} THEN {} ELSE RecipeFindings(t) \cup ReservedFindings(t))
         \cup Found(~t.steps /\ ~t.instruction, "missing_instruction")

---------------------------------------------------------------------------
(* Packaging                                                                 *)

\* Services whose end another one waits for are no peers; of the others those
\* with a healthcheck are waited for, and those without declared ports are
\* asked for the ports of their image.
Peers(t) == IF Composed(t) THEN {s \in t.services : ~s.completes} ELSE {}
Healthy(t) == {s.name : s \in {p \in Peers(t) : p.healthy}}
Asked(t) == {s \in Peers(t) : s.ports = {}}

\* The plain Dockerfile with its wrapper: the last stage is named if it is not.
NamedStages(t) ==
  IF Composed(t) THEN <<>>
  ELSE LET names == IF t.dockerfile THEN Stages(t.lines).names ELSE <<"hud-base">> IN
       SelectSeq(IF Last(names) = "" THEN Append(Front(names), "hud-base") ELSE names, LAMBDA n : n # "")
         \o (IF t.separate THEN <<"hud-verifier-root", "hud-docker-cli">> ELSE <<>>) \o <<"hud-runtime">>

\* The Compose project: what it builds by name, and the contexts of main.
BaseBuild(t) == OwnBuild(t) \/ HasDockerfile(t)
BuildOnly(t) == (IF Composed(t) /\ BaseBuild(t) THEN {"hud-base"} ELSE {}) \cup (IF t.separate THEN {"hud-verifier"} ELSE {})
Contexts(t) == BuildOnly(t) \cup (IF Composed(t) THEN {} ELSE {"hud"})
Prepared(t) == IF (Composed(t) /\ BaseBuild(t)) \/ (~Composed(t) /\ t.dockerfile) THEN "built" ELSE "pulled"

\* The target of the wrapper: whether Docker's client is in the image.
Access(hooks) == \E h \in hooks : h # "main"
GroupAccess(group) == \E t \in group : Healthy(t) # {} \/ Access(t.hooks)
HasDockerClient(t, group) == t.separate \/ (Composed(t) /\ GroupAccess(group))
RowAccess(t) == Access(t.hooks) \/ Healthy(t) # {}

\* adapt: tasks share an environment when they differ in nothing it serves: not
\* in their files, nor in their configuration beside timeouts, hooks and names.
GroupKey(t) ==
  <<t.parts.hash, t.parts.agentNet, t.parts.verifierNet, t.separate, IF t.separate THEN t.name ELSE "">>
Grouped(tasks) == {{u \in tasks : GroupKey(u) = GroupKey(t)} : t \in tasks}
\* What the manifest says of the tasks, taken from the first of the group.
Manifest(t) == [agent |-> t.parts.agentNet, verifier |-> t.parts.verifierNet, root |-> t.separate]

---------------------------------------------------------------------------
\* A task that is adapted can be built and served: no name is taken twice, every
\* context is built by the project, the base is built or pulled from somewhere,
\* the actor's ports are not HUD's, and its tests are there to copy.
AdaptedBuilds(t) ==
  Inspect(t) = {} =>
    /\ IsInjective(NamedStages(t))
    /\ \A s \in t.services : Composed(t) => s.name \notin BuildOnly(t)
    /\ (Prepared(t) = "pulled") = (BaseImage(t) = "pulled")
    /\ MainPorts(t) \cap HudPorts = {} /\ t.tests /\ (t.separate => t.verifierFile)
    /\ \A s \in Asked(t) : s.image \/ s.build
    /\ \A i \in DOMAIN t.servers : t.servers[i].url /\ t.servers[i].name \notin WorkspaceNames

\* Tasks that share an environment agree on all it serves, and whoever will call
\* Docker at run time finds its client in the image and the access in its row.
GroupServes(tasks) ==
  \A g \in Grouped(tasks) :
    /\ \A t, u \in g : Manifest(t) = Manifest(u) /\ (t.separate => t = u)
    /\ \A t \in g : (Healthy(t) # {} \/ (t.separate /\ Access(t.hooks))) => HasDockerClient(t, g) /\ RowAccess(t)
=============================================================================
