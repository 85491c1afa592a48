----------------------------- MODULE SessionLaunch -----------------------------
(***************************************************************************)
(* What hud/environment/workspace.py starts a process with: its variables, *)
(* its network, its fresh namespaces and its identity, for every way the   *)
(* code launches one.  A variable is abstracted to where its value is from *)
(* and an environment is a function from names to those origins.  Below,     *)
(* what hud/environment/egress.py lets those processes reach.                *)
(***************************************************************************)
EXTENDS Naturals, Sequences, SequencesExt, FiniteSets, TLC

Names == {"PATH", "TERM", "HOME", "SECRET", "HUD_KEY", "PROXY", "APP"}
Harness == {"HUD_KEY"}

\* The ways a process is started: an SSH session in the shared sandbox or,
\* where bwrap is missing, on the host; run() and launch(); run(isolated=True).
Kinds == {"session", "bare", "launched", "isolated"}

\* uid: whether shell_uid is set; setpriv: whether the tool is on the PATH.
Configs == [bwrap : {"none", "direct"}, network : BOOLEAN,
            hosts : {"unset", "some", "empty"}, uid : BOOLEAN, root : BOOLEAN,
            setpriv : BOOLEAN, declared : SUBSET {"APP", "PROXY", "HUD_KEY"}]

Only(S, origin) == [n \in S |-> origin]
Host == Only(Names \ {"APP", "PROXY"}, "host")

WithoutHarness(env) == [n \in DOMAIN env \ Harness |-> env[n]]

OwnsNetns(c) == ~c.network \/ c.hosts # "unset"
Drops(c) == c.uid /\ c.root /\ c.setpriv
\* _prepare_runtime refuses to serve, rather than to serve shells as root.
Refuses(c) == c.uid /\ c.root /\ ~Drops(c)

Declared(c) == Only(c.declared, "task")
Proxy(c) == IF OwnsNetns(c) /\ c.bwrap # "none" /\ c.hosts = "some"
              THEN Only({"PROXY"}, "policy") ELSE Only({}, "policy")

\* _session_env for a dropped shell: built from nothing.
SessionEnv(c) == Declared(c) @@ Only({"PATH", "TERM"}, "host") @@ Only({"HOME"}, "guest")

FullEnv(c, call) ==
  IF Drops(c) THEN call @@ Proxy(c) @@ SessionEnv(c)
  ELSE call @@ Declared(c) @@ Proxy(c) @@ WithoutHarness(Host)

\* session_argv, in the sandbox the namespace host holds.
\* Mutant: the wall forgets that the host's variables are secret.
SessionArgv_Inherits(c, call) == FullEnv(c, call) @@ WithoutHarness(Host)
SessionArgv(c, call) == IF Drops(c) THEN call @@ SessionEnv(c) ELSE FullEnv(c, call)

\* shell_argv, where the session is placed by the command line itself.
ShellArgv(c, call) ==
  IF c.bwrap = "none" THEN FullEnv(c, call)
  ELSE IF Drops(c) THEN call @@ SessionEnv(c)
       ELSE call @@ Declared(c) @@ WithoutHarness(Host)

\* bwrap_argv as run() and launch() call it.
CommandEnv(c, call) == call @@ Declared(c) @@ WithoutHarness(Host)

EnvOf(c, kind) ==
  LET call == Only({"TERM"}, "call")
  IN CASE kind = "session" -> SessionArgv(c, call)
       [] kind = "bare" -> ShellArgv(c, call)
       [] kind \in {"launched", "isolated"} -> CommandEnv(c, Proxy(c))

\* Whose network the process is in.  The namespace host runs under unshare
\* --net whenever the workspace owns a network.
NetOf(c, kind) ==
  CASE kind = "bare" -> "substrate"
    [] kind = "isolated" -> "own"
    [] OTHER -> IF OwnsNetns(c) THEN "workspace" ELSE "substrate"

\* Which processes it sees: those of the shared sandbox, or its own.
SeesOf(c, kind) == IF kind = "bare" THEN "substrate" ELSE "sandbox"

\* _drop_argv for the agent's sessions.
UidOf(c) == IF Drops(c) THEN "agent" ELSE IF c.root THEN "root" ELSE "server"

\* _identity_argv for a trusted command that names an identity: an error, when
\* the server can neither change to it nor has it already.
CommandUid(c, current) ==
  IF current THEN UidOf([c EXCEPT !.uid = FALSE])
  ELSE IF c.root /\ c.setpriv THEN "requested" ELSE "error"

Placements(c) == {k \in Kinds : k = "bare" <=> c.bwrap = "none"}

-----------------------------------------------------------------------------
\* The wall (workspace.py:445): when shell_uid is set and the server is root,
\* the agent's shell is never root and never sees a variable of the server
\* but PATH and TERM; and no process whatever sees the harness's own
\* configuration, unless the task declares a variable of that name.
AgentWalled(c) ==
  /\ c.uid /\ c.root /\ ~Refuses(c) =>
       /\ UidOf(c) = "agent"
       /\ \A k \in Placements(c) \cap {"session", "bare"} :
            {n \in DOMAIN EnvOf(c, k) : EnvOf(c, k)[n] = "host"} \subseteq {"PATH", "TERM"}
  /\ \A k \in Placements(c), n \in Harness :
       n \in DOMAIN EnvOf(c, k) => EnvOf(c, k)[n] = "task"

\* The boundary (workspace.py:616): where the task severed the network or said
\* what may be reached, nothing the agent can start or join is on the
\* substrate's network, if there is a sandbox at all.
AgentBounded(c) ==
  OwnsNetns(c) /\ c.bwrap # "none" =>
    \A k \in Placements(c) : NetOf(c, k) # "substrate" /\ SeesOf(c, k) = "sandbox"

\* A session that may reach some hosts is told how: it has the proxy's
\* variables, or the task's own.
PolicyReachable(c) ==
  c.hosts = "some" /\ c.bwrap # "none" => "PROXY" \in DOMAIN EnvOf(c, "session")

-----------------------------------------------------------------------------
(* The rules of hud/environment/egress.py: the loopback addresses of the   *)
(* peers, which host is permitted, which address is dialled, and what the  *)
(* proxy answers.  A host name is the sequence of its labels.              *)

ProxyPorts == {3128, 3129}

\* bind_addresses: names in the order of their first mention, each with its
\* ports; the first loopback on which all of them are free.
PeerNames(peers) == FoldLeft(LAMBDA names, p :
  IF p.name \in ToSet(names) THEN names ELSE Append(names, p.name), <<>>, peers)
PortsOf(peers, name) == {p.port : p \in {q \in ToSet(peers) : q.name = name}}

Twice(peers) == \E i, j \in DOMAIN peers : i # j /\ peers[i] = peers[j]

\* Mutant: only the first port of a name is looked at.
Fits_One(host, ports, taken) == <<host, CHOOSE p \in ports : TRUE>> \notin taken
Fits(host, ports, taken) == \A p \in ports : <<host, p>> \notin taken

Loopbacks == 1..255
Taken(reserved) == {<<1, p>> : p \in ProxyPorts \cup reserved}

\* <<>> stands for the ValueError of a port declared twice.
BindAddresses(peers, reserved) ==
  LET place(acc, name) ==
        LET ports == PortsOf(peers, name)
            host == CHOOSE h \in Loopbacks :
                      /\ Fits(h, ports, acc.taken)
                      /\ \A k \in 1..(h - 1) : ~Fits(k, ports, acc.taken)
        IN [taken |-> acc.taken \cup {<<host, p>> : p \in ports},
            at |-> Append(acc.at, <<name, host>>)]
  IN IF Twice(peers) THEN <<>>
     ELSE FoldLeft(place, [taken |-> Taken(reserved), at |-> <<>>], PeerNames(peers)).at

\* What the bridge listens on: each peer's port on the address of its name.
Sockets(peers, reserved) ==
  LET at == BindAddresses(peers, reserved)
      hostOf(name) == (CHOOSE j \in DOMAIN at : at[j][1] = name)
  IN [i \in DOMAIN peers |-> <<at[hostOf(peers[i].name)][2], peers[i].port>>]

-----------------------------------------------------------------------------
Suffix(entry, host) ==
  Len(entry) <= Len(host) /\ SubSeq(host, Len(host) - Len(entry) + 1, Len(host)) = entry

Permitted(host, allowed) ==
  host # <<>> /\ (<<"*">> \in allowed \/ \E e \in allowed : host = e \/ Suffix(e, host))

\* _connect_public: the addresses in order, each public or not, up or not.
Dialled(addresses) == {i \in DOMAIN addresses : addresses[i].public /\ addresses[i].up}
Connect(addresses) ==
  IF Dialled(addresses) # {} THEN "open"
  ELSE IF \E i \in DOMAIN addresses : addresses[i].public THEN "unreachable"
       ELSE IF addresses # <<>> THEN "blocked" ELSE "unreachable"

\* A request: auth, its credentials ("open": the proxy has no token; "odd": Basic
\* ones that are not ASCII); split, whether urlsplit takes its target; portOK and
\* framed, whether the target's port and the body parse; named, whether
\* http.client and getaddrinfo take the host's name for one; ascii, whether the
\* path is.  An answer is the statuses written, in order (200 for whatever the
\* upstream said): Cut is the connection closed after the response has begun, and
\* Raised is an exception that nothing catches, which ends the handler and closes
\* the connection with no status at all.
Cut == 0
Raised == <<>>
Refused(why) == IF why = "blocked" THEN <<403>> ELSE <<502>>

\* do_CONNECT: the port is read among the arguments, before any address.
Tunnelled(r) ==
  IF ~r.portOK \/ ~r.named THEN <<502>>
  ELSE IF Connect(r.addresses) = "open" THEN <<200>> ELSE Refused(Connect(r.addresses))

\* _forward, which catches no ValueError of the host's name or of the path.
\* Mutant: a failure after the status line is answered as one before it.
Forwarded_Again(r) ==
  IF ~r.framed \/ ~r.portOK THEN <<400>>
  ELSE IF ~r.named THEN Raised
  ELSE IF Connect(r.addresses) # "open" THEN Refused(Connect(r.addresses))
  ELSE IF ~r.ascii THEN Raised
  ELSE CASE r.upstream \in {"unrelayable", "silent"} -> <<502>>
         [] r.upstream = "broken" -> <<200, 502>>
         [] OTHER -> <<200>>
Forwarded(r) ==
  IF ~r.framed \/ ~r.portOK THEN <<400>>
  ELSE IF ~r.named THEN Raised
  ELSE IF Connect(r.addresses) # "open" THEN Refused(Connect(r.addresses))
  ELSE IF ~r.ascii THEN Raised
  ELSE CASE r.upstream \in {"unrelayable", "silent"} -> <<502>>
         [] r.upstream = "broken" -> <<200, Cut>>
         [] OTHER -> <<200>>

Answer(r, allowed) ==
  IF r.auth = "wrong" THEN <<407>>
  ELSE IF r.auth = "odd" \/ ~r.split THEN Raised
  ELSE IF ~Permitted(r.host, allowed) THEN <<403>>
  ELSE IF r.method = "CONNECT" THEN Tunnelled(r) ELSE Forwarded(r)

-----------------------------------------------------------------------------
\* Every route is reachable at an address of its own: no two listeners of the
\* bridge share a host and port, none takes the proxies' or a published one,
\* and a name whose ports are free there keeps 127.0.0.1 (egress.py:188).
RoutesApart(peers, reserved) ==
  LET s == Sockets(peers, reserved)
  IN ~Twice(peers) =>
       /\ \A i, j \in DOMAIN peers : i # j => s[i] # s[j]
       /\ \A i \in DOMAIN peers : s[i] \notin Taken(reserved)
       /\ \A i \in DOMAIN peers :
            s[i][1] # 1 => \E p \in PortsOf(peers, peers[i].name) :
              \/ <<1, p>> \in Taken(reserved)
              \/ \E j \in DOMAIN peers : peers[j].name # peers[i].name /\ s[j] = <<1, p>>

\* A request is answered at most once, and what it reaches is an allowed name at a
\* public address: every other one is refused before anything is dialled.  It goes
\* without any status only if it is malformed: odd credentials, a target that is
\* none and, unless it asks for a tunnel, a name or a path that cannot be sent.
Malformed(r) == r.auth = "odd" \/ ~r.split \/ (r.method # "CONNECT" /\ (~r.named \/ ~r.ascii))
AnsweredOnce(r, allowed) ==
  LET a == Answer(r, allowed)
  IN /\ \A i \in DOMAIN a : a[i] # Cut <=> i = 1
     /\ a = <<>> => Malformed(r)
     /\ a # <<>> /\ a[1] = 200 =>
          /\ r.auth \in {"open", "ok"} /\ r.split /\ r.named /\ r.portOK /\ r.host # <<>>
          /\ \E e \in allowed : e = <<"*">> \/ Suffix(e, r.host)
          /\ \E i \in DOMAIN r.addresses : r.addresses[i].public /\ r.addresses[i].up
=============================================================================
