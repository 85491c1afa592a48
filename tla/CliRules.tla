------------------------------- MODULE CliRules -------------------------------
(***************************************************************************)
(* What a command of the hud CLI decides before and after its work: the     *)
(* resource a reference names, the settings of an evaluation, the tasks and  *)
(* the placement it runs, how a QA result reads, what it deploys, and how    *)
(* it ends.                                                                  *)
(***************************************************************************)
EXTENDS Integers, Sequences, FiniteSets, SequencesExt

Refused == "refused"
None == "none"

---------------------------------------------------------------------------
\* RegistryEnvironment.resolve and Project.resolve: a reference is an id, or a
\* name that exactly one item of the search has.  items: [id, name].
Named(ref, items) == {i \in items : i.name = ref.name}
Registered(ref, items) ==
  LET found == IF ref.byId THEN {i \in items : i.id = ref.id} ELSE Named(ref, items) IN
  IF Cardinality(found) = 1 THEN found ELSE {}
ProjectOf(ref, items) == Registered(ref, items)

---------------------------------------------------------------------------
(* hud eval                                                                  *)

\* EvalConfig.load: the file's settings, the old remote flag standing for a
\* hosted runtime that is not given otherwise.  A setting is None when absent.
FromFile(file) ==
  [runtime |-> IF file.remote /\ file.runtime = None THEN "hosted" ELSE file.runtime,
   all |-> file.all, steps |-> file.steps, agent |-> file.agent, sections |-> file.sections]

\* The flags: those not given leave the file's setting alone, and a switch can
\* only turn on.  --full stands for --all and a hundred steps.
Overlay(file, f) ==
  [runtime |-> IF f.remote THEN "hosted" ELSE IF f.runtime # None THEN f.runtime ELSE file.runtime,
   all |-> file.all \/ f.all \/ f.full,
   steps |-> IF f.steps # 0 THEN f.steps ELSE IF f.full THEN 100 ELSE file.steps,
   agent |-> IF f.agent # None THEN f.agent ELSE file.agent, sections |-> file.sections]

\* --config: a key with a section belongs to that agent, a bare one to the agent
\* selected so far; the sections are merged key by key, the last one winning.
SectionOf(c, f, file) ==
  IF c.section # None THEN c.section
  ELSE LET selected == IF f.agent # None THEN f.agent ELSE file.agent IN
       IF selected = None THEN Refused ELSE selected
Configured(file, f) ==
  FoldLeft(LAMBDA acc, c : [acc EXCEPT ![SectionOf(c, f, file)][c.key] = c.value], file.sections, f.configs)

\* f: [remote, runtime, all, full, steps, agent, configs].
Refuses(file, f) ==
  \/ f.runtime # None /\ f.remote
  \/ \E i \in 1..Len(f.configs) : SectionOf(f.configs[i], f, file) = Refused
Merged(file, f) == [Overlay(FromFile(file), f) EXCEPT !.sections = Configured(FromFile(file), f)]

\* Where it runs if nothing says so: what is on disk here, what is not there.
RuntimeOf(runtime, onDisk) == IF runtime # None THEN runtime ELSE IF onDisk THEN "local" ELSE "hosted"

\* The tasks: those named by slug, id or index, or all of them, or the
\* first; with none of them left the command is refused.
\* wanted is None without --task-ids; tasks: a sequence of [slug, id, ...].
Chosen(tasks, wanted, all) ==
  LET named == {i \in 1..Len(tasks) : tasks[i].slug \in wanted \/ tasks[i].id \in wanted \/ ToString(i - 1) \in wanted}
      kept == IF wanted # {} THEN named ELSE IF all THEN 1..Len(tasks) ELSE {i \in 1..Len(tasks) : i = 1}
  IN [n \in 1..Cardinality(kept) |-> tasks[SetToSortSeq(kept, <)[n]]]

\* What a local run may have to start: the tasks, and the verifiers that do not
\* share their task's runtime.  task: [slug, id, container, bound, verifier],
\* a verifier "none", "shared", "source" or "container".
RowsToStart(tasks) == {[container |-> tasks[i].container] : i \in 1..Len(tasks)} \cup
  {[container |-> tasks[i].verifier = "container"] : i \in {j \in 1..Len(tasks) : tasks[j].verifier \in {"source", "container"}}}
Runnable(runtime, tasks, onDisk) == runtime = "local" /\ ~onDisk => \A row \in RowsToStart(tasks) : row.container

\* spawn: a container, the declared environment's own file, or the directory.
Spawned(row, bound) == IF row.container THEN "docker" ELSE IF bound THEN "source" ELSE "beside"

---------------------------------------------------------------------------
(* hud qa: how a result reads.                                               *)

Causes == {"agent", "eval", "platform"}
Verdicts == {"passed", "failed", "unknown"}

\* _from_blob.  blob: [verdict, schema, findings, flag, problems], flag the
\* first known is_* key's value ("yes", "no", "odd" or None), problems None or
\* the sequence of its entries' faults, "untitled" for one without a title.
Reads(blob) ==
  LET titled == {i \in 1..Len(blob.problems.list) : blob.problems.list[i] # "untitled"}
      owners == {IF blob.problems.list[i] \in Causes THEN blob.problems.list[i] ELSE "unclear" : i \in titled}
  IN CASE blob.verdict \in Verdicts /\ (blob.schema \/ blob.findings) -> [kind |-> "qa_result", tag |-> blob.verdict]
       [] OTHER -> IF blob.flag # None
            THEN [kind |-> IF blob.flag = "odd" THEN "unknown" ELSE "boolean",
                  tag |-> CASE blob.flag = "odd" -> "unknown" [] blob.flag = "yes" -> "failed" [] blob.flag = "no" -> "passed"]
            ELSE IF blob.problems.given
            THEN [kind |-> "problems", tag |-> IF titled = {} THEN "passed" ELSE "failed",
                  cause |-> IF titled = {} THEN None ELSE IF Cardinality(owners) # 1 THEN "mixed" ELSE CHOOSE o \in owners : TRUE]
            ELSE [kind |-> "unknown", tag |-> "unknown"]

\* presentation_for_result.  row: [status, blob], the blob None when neither the
\* canonical result nor the result is one, or wraps one.
Shown(row) ==
  CASE row.status = "error" -> [kind |-> "unknown", tag |-> "failed"]
    [] row.status \notin {"error", "completed", ""} -> [kind |-> "pending", tag |-> "unknown"]
    [] OTHER -> IF row.blob.none THEN [kind |-> "unknown", tag |-> "unknown"] ELSE Reads(row.blob)

---------------------------------------------------------------------------
(* How a command ends: CLIGroup.invoke.                                      *)

\* CliError.from_http, map_exception: the first class that fits.
FromHttp(status) ==
  CASE status = 404 -> "not_found"
    [] status \in {401, 403} -> "permission_denied"
    [] status = 409 -> "conflict"
    [] status = 429 -> "rate_limited"
    [] status >= 500 -> "server_error"
    [] OTHER -> "failure"
Mapped(exc) ==
  CASE exc.class = "CliError" -> exc.error
    [] exc.class \in {"UsageError", "ValueError"} -> "usage"
    [] exc.class = "FileNotFoundError" -> "not_found"
    [] exc.class = "HudRequestError" -> FromHttp(exc.status)
    [] exc.class = "HudAuthenticationError" -> "permission_denied"
    [] exc.class = "HudTimeoutError" -> "timeout"
    [] OTHER -> "failure"

\* The documents on stdout and the exit code.  end: [how, code, payload, exc]:
\* a payload with a code of its own, an exit, or an exception.
Invoked(json, end) ==
  CASE end.how = "exit" -> [documents |-> 0, code |-> end.code]
    [] end.how = "returns" -> [documents |-> IF json /\ end.payload THEN 1 ELSE 0, code |-> end.code]
    [] end.how = "raises" -> [documents |-> IF json THEN 1 ELSE 0, code |-> IF Mapped(end.exc) = "usage" THEN 2 ELSE 1]

---------------------------------------------------------------------------
\* A reference never falls on one of several, nor on something else.
ResolvedExactly(ref, items) ==
  LET r == Registered(ref, items) IN
  \A i \in r : r = {i} /\ IF ref.byId THEN i.id = ref.id ELSE i.name = ref.name /\ \A j \in items \ {i} : j.name # ref.name

\* A setting that was given on the command line is the one that is used, and
\* one that was not leaves the file's; --full only fills in what is not given.
FlagsWin(file, f) ==
  LET m == Merged(file, f) IN
  \/ Refuses(file, f)
  \/ /\ f.steps # 0 => m.steps = f.steps
     /\ f.steps = 0 => m.steps = IF f.full THEN 100 ELSE file.steps
     /\ f.runtime # None => m.runtime = f.runtime
     /\ f.remote => m.runtime = "hosted"
     /\ \A s \in DOMAIN file.sections, k \in {"k"} :
          LET set == {i \in 1..Len(f.configs) : SectionOf(f.configs[i], f, file) = s /\ f.configs[i].key = k} IN
          m.sections[s][k] = IF set = {} THEN file.sections[s][k] ELSE f.configs[CHOOSE i \in set : \A j \in set : j <= i].value

\* A local run never comes to a task, or a verifier, that it cannot start: each
\* has a container, or there is a source on disk to start it from.
Startable(tasks, runtime, onDisk) ==
  Runnable(RuntimeOf(runtime, onDisk), tasks, onDisk) /\ RuntimeOf(runtime, onDisk) = "local" =>
    \A i \in 1..Len(tasks) :
      /\ Spawned(tasks[i], tasks[i].bound) # "docker" => onDisk
      /\ tasks[i].verifier = "source" => onDisk

\* Nothing is run that was not asked for, by slug, id or index.
ChosenAsAsked(tasks, wanted, all) ==
  LET c == Chosen(tasks, wanted, all) IN
  \/ Len(c) = 0
  \/ /\ wanted # {} => \A n \in 1..Len(c) : c[n].slug \in wanted \/ c[n].id \in wanted \/ \E i \in 1..Len(tasks) : ToString(i - 1) \in wanted /\ tasks[i] = c[n]
     /\ wanted = {} => IF all THEN c = tasks ELSE c = <<tasks[1]>>

\* Passed is what every reading of a result says, and never what is not settled.
PassedIsSettled(row) ==
  Shown(row).tag = "passed" =>
    /\ row.status \in {"completed", ""}
    /\ ~row.blob.none
    /\ row.blob.verdict \in {"failed", "unknown"} => ~(row.blob.schema \/ row.blob.findings)

\* A script that reads the output has one document exactly where it asked for
\* one, and a command that failed never exits with 0.
EndsHonestly(json, end) ==
  LET e == Invoked(json, end) IN
  /\ end.how = "raises" => e.code \in {1, 2} /\ (json => e.documents = 1)
  /\ e.documents = 1 => json

---------------------------------------------------------------------------
(* What hud deploy sends (hud/cli/deploy.py): the name it deploys under, the *)
(* variables and secrets, and the files of the build context.  A path and a   *)
(* pattern are sequences of segments.                                        *)

\* The segments of the instances, and what the globs among them match.
Glob == [g \in {"*", ".env.*", "*.env"} |->
  CASE g = "*" -> {"src", "a.py", ".env", ".env.local", "prod.env", ".git", "venv"}
    [] g = ".env.*" -> {".env.local"} [] g = "*.env" -> {".env", "prod.env"}]
SegmentMatches(pattern, segment) ==
  IF pattern \in DOMAIN Glob THEN segment \in Glob[pattern] ELSE pattern = segment

\* _dockerignore_re: a pattern without an inner slash is at home at any depth,
\* a leading slash ties it to the top; "**" stands for any number of segments.
Full(line) ==
  IF line.body \in {<<>>, <<"**">>} THEN <<"**">>
  ELSE IF line.rooted \/ Len(line.body) > 1 THEN line.body ELSE <<"**">> \o line.body

\* A "**" at the end also matches nothing but the slash, in front it may stand
\* for no segment at all.  For the last i of the pattern: how long the ends of the
\* path are that they match.
MatchesFrom(pattern, path) ==
  LET L == Len(path)
      ends[i \in 0..Len(pattern)] ==
        LET p == pattern[Len(pattern) - i + 1] IN
        IF i = 0 THEN {0}
        ELSE IF p = "**" THEN IF i = 1 THEN 1..L ELSE {j \in 0..L : \E k \in ends[i - 1] : k <= j}
        ELSE {j \in 1..L : j - 1 \in ends[i - 1] /\ SegmentMatches(p, path[L - j + 1])}
  IN L \in ends[Len(pattern)]

Rule(name) == [negate |-> FALSE, rooted |-> FALSE, dirOnly |-> FALSE, body |-> <<name>>]
Default == <<Rule("venv")>>
Sensitive == <<Rule(".git"), Rule(".env"), Rule(".env.*"), Rule("*.env")>>

\* keep: the last rule that matches the path, or a directory above it, decides.
Hits(rule, path, isdir) ==
  \/ (rule.dirOnly => isdir) /\ MatchesFrom(Full(rule), path)
  \/ \E n \in 1..Len(path) - 1 : MatchesFrom(Full(rule), SubSeq(path, 1, n))
Rules(lines) == Default \o lines \o Sensitive
Keep(lines, path, isdir) ==
  ~FoldLeft(LAMBDA ignored, rule : IF Hits(rule, path, isdir) THEN ~rule.negate ELSE ignored, FALSE, Rules(lines))

\* tar.add goes down only into the directories it keeps.
Uploaded(lines, path) ==
  Keep(lines, path, FALSE) /\ \A n \in 1..Len(path) - 1 : Keep(lines, SubSeq(path, 1, n), TRUE)

---------------------------------------------------------------------------
\* The environment's name is one that the code declares, and not a matter of
\* choice for the tool; with a registry id it is the one registered there.
DeployName(declared, flag, registered) ==
  LET name == IF flag # "" THEN flag ELSE CHOOSE n \in declared : TRUE IN
  IF declared = {} \/ (flag # "" /\ flag \notin declared) \/ (flag = "" /\ declared # {name}) THEN Refused
  ELSE IF registered # "" /\ name # registered THEN Refused ELSE name

\* Where the registry's variables come from.  p: [dotenv, noEnv, file, flags,
\* linked, byId, tty, agreed, dry]: is there an .env, was --no-env or --env-file
\* given, which --env flags, is the directory linked, a registry id given.
Pending(p) == p.dotenv /\ ~p.noEnv /\ p.file = "" /\ ~p.linked /\ ~p.byId
EnvFile(p) == IF p.file # "" THEN p.file ELSE IF Pending(p) /\ ~p.dry /\ p.agreed THEN ".env" ELSE ""
Stops(p) == Pending(p) /\ ~p.dry /\ ~p.tty   \* there is nobody to ask
Variables(p, contents) ==
  LET file == IF EnvFile(p) = "" THEN <<>> ELSE contents[EnvFile(p)] IN p.flags @@ file

\* Of a --secret: its id, and a variable of the shell or a file of the directory.
Secret(spec, shell, files) ==
  CASE "id" \notin DOMAIN spec -> Refused
    [] "id" \in DOMAIN spec /\ "env" \in DOMAIN spec -> IF spec.env \in DOMAIN shell THEN shell[spec.env] ELSE Refused
    [] {"id", "src"} \subseteq DOMAIN spec /\ "env" \notin DOMAIN spec -> IF spec.src \in DOMAIN files THEN files[spec.src] ELSE Refused
    [] OTHER -> Refused

---------------------------------------------------------------------------
\* No line of a .dockerignore brings a secret, or what lies beneath one, into
\* the context ("Never uploaded", deploy.py:47), and without lines of its own
\* the project is uploaded but for the local junk.
NoSecretUploaded(lines, path) ==
  LET secret == \E i \in 1..Len(path) : path[i] \in {".git", ".env", ".env.local", "prod.env"} IN
  /\ secret => ~Uploaded(lines, path)
  /\ lines = <<>> /\ ~secret => (Uploaded(lines, path) <=> "venv" \notin {path[i] : i \in 1..Len(path)})

\* The .env of the directory reaches the registry only on request or by consent,
\* and a flag wins over a file.
OnlyAsked(p, contents) ==
  LET v == Variables(p, contents) IN
  ~Stops(p) =>
    /\ \A k \in DOMAIN p.flags : v[k] = p.flags[k]
    /\ DOMAIN v # DOMAIN p.flags => p.file # "" \/ (p.agreed /\ p.tty /\ ~p.noEnv /\ ~p.linked)

\* A secret that is named is sent with its value, or the deploy does not happen.
SecretKnown(spec, shell, files) ==
  Secret(spec, shell, files) # Refused =>
    /\ "id" \in DOMAIN spec
    /\ Secret(spec, shell, files) \in {shell[k] : k \in DOMAIN shell} \cup {files[k] : k \in DOMAIN files}

\* An environment is never built under a name that its code does not declare,
\* nor into a registry of another name.
NameDeclared(declared, flag, registered) ==
  LET name == DeployName(declared, flag, registered) IN
  name # Refused => name \in declared /\ registered \in {"", name}
=============================================================================
