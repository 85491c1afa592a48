----------------------------- MODULE ComposeRules -----------------------------
(* What the runtimes make of an authored Compose file: the variables resolved *)
(* against the project's .env alone, the services normalised, the paths moved *)
(* into the uploaded artifact.  A scalar is a sequence of pieces, a value a    *)
(* sequence of characters of which only the dollar matters.                    *)
EXTENDS Integers, Sequences, FiniteSets, SequencesExt

(* POSIX paths as sequences of segments.  An absolute path starts with the      *)
(* segment "/"; ".." climbs, "." stays.  Links on the disk are not part of it. *)

Absolute(path) == path # <<>> /\ Head(path) = "/"

\* posixpath.normpath: climbs are worked off against what they climb out of;
\* what is left of them leads, or is dropped at the root.
Normal(path) ==
  FoldLeft(LAMBDA done, s :
    CASE s = "." -> done
      [] s # ".." -> Append(done, s)
      [] s = ".." /\ done \in {<<>>, <<"..">>} -> Append(done, s)
      [] s = ".." /\ done = <<"/">> -> done
      [] OTHER -> IF Last(done) = ".." THEN Append(done, s) ELSE Front(done),
    <<>>, path)

\* posixpath.join of a path and one that may be absolute.
Join(base, path) == IF Absolute(path) THEN path ELSE base \o path

Climbs(path) == path # <<>> /\ Head(path) = ".."
Within(path, root) == IsPrefix(root, path)

---------------------------------------------------------------------------

Unset == <<"unset">>
Unbound == <<"fail", "unbound">>        \* ComposeUnboundVariableError
Invalid == <<"fail", "invalid">>        \* ValueError
Failed(r) == r # <<>> /\ Head(r) = "fail"

Escape(value) == FlattenSeq([i \in DOMAIN value |-> IF value[i] = "$" THEN <<"$", "$">> ELSE <<value[i]>>])
\* What Compose, or replace("$$", "$"), reads where every dollar is doubled.
Unescape(out) ==
  FoldLeft(LAMBDA acc, c :
    IF c = "$" /\ ~acc.half THEN [acc EXCEPT !.half = TRUE]
    ELSE [text |-> Append(acc.text, c), half |-> FALSE], [text |-> <<>>, half |-> FALSE], out).text

\* The operators of ${name...}: the value, or what stands in for it.
Pick(p, value, operand) ==
  LET set == value # Unset
      full == value \notin {Unset, <<>>}
  IN CASE p.op = "" -> IF set THEN Escape(value) ELSE Unbound
       [] p.op = ":-" -> IF full THEN Escape(value) ELSE operand
       [] p.op = "-" -> IF set THEN Escape(value) ELSE operand
       [] p.op = ":+" -> IF full THEN operand ELSE <<>>
       [] p.op = "+" -> IF set THEN operand ELSE <<>>
       [] p.op = ":?" -> IF full THEN Escape(value) ELSE Unbound
       [] p.op = "?" -> IF set THEN Escape(value) ELSE Unbound

\* _interpolate_compose_value, with the dollars of the result doubled.
RECURSIVE Interpolate(_, _)
Interpolate(pieces, env) ==
  LET Of(p) == CASE p.kind = "text" -> <<p.kind>>
                 [] p.kind \in {"escaped", "lone"} -> <<"$", "$">>
                 [] p.kind = "bare" -> IF env[p.var] = Unset THEN Unbound ELSE Escape(env[p.var])
                 [] p.kind = "braced" -> Pick(p, env[p.var], Interpolate(p.operand, env))
                 [] p.kind = "unclosed" -> Invalid
  IN FoldLeft(LAMBDA out, p : IF Failed(out) THEN out ELSE IF Failed(Of(p)) THEN Of(p) ELSE out \o Of(p),
              <<>>, pieces)

\* _interpolate_compose_node: a single-quoted scalar is taken literally.
Raw(p) == IF p.kind = "text" THEN <<"text">> ELSE IF p.kind = "escaped" THEN <<"$", "$">> ELSE <<"$", p.kind>>
Node(scalar, env) ==
  IF scalar.quoted THEN Escape(FlattenSeq([i \in DOMAIN scalar.pieces |-> Raw(scalar.pieces[i])]))
  ELSE Interpolate(scalar.pieces, env)

\* ComposeConfig.from_file: each line of the .env sees the lines above it.
NoEnv(vars) == [v \in vars |-> Unset]
DotEnv(lines, vars) ==
  FoldLeft(LAMBDA env, l :
    IF \E v \in vars : Failed(env[v]) THEN env
    ELSE LET out == Interpolate(l.pieces, env)
         IN [env EXCEPT ![l.var] = IF Failed(out) THEN out ELSE Unescape(out)], NoEnv(vars), lines)
FromFile(scalar, lines, vars, extending) ==
  LET env == DotEnv(lines, vars)
      broken == {v \in vars : Failed(env[v])}
  IN IF broken # {} THEN env[CHOOSE v \in broken : TRUE]
     ELSE LET out == Node(scalar, env) IN IF ~Failed(out) /\ extending THEN Invalid ELSE out

---------------------------------------------------------------------------
\* ComposeService.normalize_ports and tcp_ports: a range on either side, or an
\* unknown protocol, refuses the document; what is no string or number is left
\* to the model's own validation.
PortsRefused(items) ==
  \E x \in items : x.form = "text" /\ (x.range \/ x.protocol \notin {"", "tcp", "udp"})
TcpPorts(expose, items) ==
  {x.target : x \in {y \in expose : ~y.range /\ y.protocol \in {"", "tcp"}}}
    \cup {x.target : x \in {y \in items : y.form = "int" \/ y.protocol \in {"", "tcp"}}}

\* ComposeConfig.network_owner: mode[s] is the service s borrows its network
\* from, or "own".
RECURSIVE Owner(_, _, _)
Owner(mode, s, seen) ==
  IF s \in seen \/ s \notin DOMAIN mode THEN "refused"
  ELSE IF mode[s] = "own" THEN s ELSE Owner(mode, mode[s], seen \cup {s})

---------------------------------------------------------------------------
Refused == <<"refused">>

\* Mutant: a path is checked before it is joined, and not after.
Relocate_Unjoined(prefix, path) ==
  IF Absolute(path) \/ path[1] = "://" THEN Refused ELSE Normal(prefix \o Normal(path))

\* relocate: where a path of the document lies in the artifact.
Relocate(prefix, path) ==
  IF Absolute(path) \/ path[1] = "://" \/ Climbs(Normal(path)) THEN Refused
  ELSE LET resolved == Normal(prefix \o Normal(path)) IN IF Climbs(resolved) THEN Refused ELSE resolved

\* ComposeConfig.with_project_directory, one reference of the document at a
\* time: [kind, path].  A volume's source is a path when it starts with a dot,
\* and the name of a volume otherwise.
Relocated(ref, prefix) ==
  CASE ref.kind \in {"build", "context", "env_file", "label_file", "bind", "config", "secret"} -> Relocate(prefix, ref.path)
    [] ref.kind = "additional" -> IF ref.path[1] = "service:" THEN ref.path ELSE Relocate(prefix, ref.path)
    [] ref.kind = "volume" -> IF Absolute(ref.path) THEN Refused
                              ELSE IF ref.path[1] \in {".", ".."} THEN Relocate(prefix, ref.path) ELSE ref.path
WithProjectDirectory(refs, directory) ==
  LET prefix == Normal(directory)
      moved == {<<r, Relocated(r, prefix)>> : r \in refs}
  IN IF Absolute(prefix) \/ Climbs(prefix) \/ \E p \in moved : p[2] = Refused THEN {Refused}
     ELSE moved

\* ComposeProject.validate_source: root and document are both local, or both
\* references, and a local document lies inside its root.
ValidSource(document, root) ==
  \/ root = <<"none">>
  \/ root = <<"ref">> /\ document = <<"config">>
  \/ root \notin {<<"none">>, <<"ref">>} /\ document # <<"config">> /\ Within(Normal(document), Normal(root))

\* ComposeProject.stage: the archive is the project's files, with the authored
\* document replaced by the normalised one.  Without a root the project is what
\* lies beside the document.
ProjectRoot(document, root) == IF root = <<"none">> THEN Front(Normal(document)) ELSE Normal(root)
Archive(files, document, root) ==
  {[name |-> f, is |-> "authored"] : f \in {g \in files : Within(g, ProjectRoot(document, root))} \ {document}}
    \cup {[name |-> document, is |-> "normalized"]}

---------------------------------------------------------------------------
\* What Compose would make of the text with the .env as its whole environment.
RECURSIVE Meaning(_, _)
Meaning(pieces, env) ==
  FlattenSeq([i \in DOMAIN pieces |-> LET p == pieces[i] IN
    CASE p.kind = "text" -> <<"text">>
      [] p.kind \in {"escaped", "lone"} -> <<"$">>
      [] p.kind = "bare" -> env[p.var]
      [] p.kind = "braced" ->
           LET missing == env[p.var] = Unset \/ (p.op \in {":-", ":+", ":?"} /\ env[p.var] = <<>>)
           IN IF p.op \in {":+", "+"} THEN (IF missing THEN <<>> ELSE Meaning(p.operand, env))
              ELSE IF p.op \in {":-", "-"} /\ missing THEN Meaning(p.operand, env) ELSE env[p.var]])

\* Compose reads the normalised scalar as it would have read the authored one
\* with the .env as its environment, and nothing of the machine it runs on: no
\* dollar of the result is left for it to interpolate.
NothingFromHost(scalar, lines, vars) ==
  LET env == DotEnv(lines, vars)
      out == FromFile(scalar, lines, vars, FALSE)
  IN ~Failed(out) => /\ Escape(Unescape(out)) = out
                     /\ ~scalar.quoted => Unescape(out) = Meaning(scalar.pieces, env)

\* The owner of a service's network is found exactly when the chain of borrowed
\* networks ends at a service that has its own.
OwnerFound(mode, s) ==
  LET reach[n \in 0 .. Cardinality(DOMAIN mode)] ==
        IF n = 0 THEN {s} ELSE reach[n - 1] \cup {mode[x] : x \in reach[n - 1] \cap DOMAIN mode}
      ends == {x \in reach[Cardinality(DOMAIN mode)] \cap DOMAIN mode : mode[x] = "own"}
  IN IF ends = {} THEN Owner(mode, s, {}) = "refused" ELSE ends = {Owner(mode, s, {})}

\* A document that is moved refers to the same files below the project's
\* directory, and to nothing outside the artifact.
MovedInside(refs, directory) ==
  LET moved == WithProjectDirectory(refs, directory)
      named(r) == r.path[1] = "service:" \/ (r.kind = "volume" /\ r.path[1] \notin {".", ".."})
  IN moved # {Refused} =>
       \A p \in moved : \/ named(p[1]) /\ p[2] = p[1].path
                        \/ ~Climbs(p[2]) /\ ~Absolute(p[2]) /\ p[2] = Normal(directory \o p[1].path)

\* A port is offered on tcp only where some entry of the document asks for it
\* and none of a refused document is.
PortsPlain(expose, items) ==
  ~PortsRefused(items) =>
    \A p \in TcpPorts(expose, items) :
      \E x \in expose \cup items : x.target = p /\ (x.form = "int" \/ (x.protocol # "udp" /\ ~x.range))

\* The archive of a valid project holds one Compose file, the normalised one,
\* where the authored one was, and nothing from outside the root.
ArchivedOnce(files, document, root) ==
  ValidSource(document, root) /\ document \in files =>
    LET archive == Archive(files, document, root) IN
      /\ {e \in archive : e.name = document} = {[name |-> document, is |-> "normalized"]}
      /\ \A e \in archive : Within(e.name, ProjectRoot(document, root)) /\ e.name \in files
=============================================================================
