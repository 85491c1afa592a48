----------------------------- MODULE PlatformSync -----------------------------
(***************************************************************************)
(* The commands that keep a working directory and the platform in step:    *)
(* hud deploy, hud sync tasks, hud sync env and hud project (hud/cli).      *)
(* Several run at once in one directory, under the credentials of one team  *)
(* or another; every call to the platform may fail, and one that changes    *)
(* something may take effect although its answer never comes.               *)
(*                                                                         *)
(* Each team has one environment, one taskset and one project here, which   *)
(* are named by the team; the platform itself is external.                  *)
(***************************************************************************)
EXTENDS Naturals, FiniteSets

CONSTANTS CliRuns,   \* commands that may run at once
          Teams,
          Commands,  \* [kind, explicit, link, project, force, dry]
          Slugs, Rows,
          Changes    \* how often somebody else changes something

NoId == "none"
NoRow == [sig |-> "none", env |-> "none"]
ASSUME SyncAssumption ==
  /\ Changes \in Nat
  /\ \A k \in Commands : k.kind \in {"deploy", "tasks", "env", "project"}
  /\ \A r \in Rows : r.sig # NoRow.sig
Empty == [s \in Slugs |-> NoRow]
NoLink == [scope |-> NoId, registry |-> NoId, taskset |-> NoId, project |-> NoId]

VARIABLES
  link,     \* .hud/config.json, or NoLink when it is not there
  source,   \* the tasks the directory's source collects
  registry, \* the teams whose environment is registered
  builds,   \* builds[c]: the build the deploy c triggered
  taskset,  \* taskset[t]: [exists, rows]
  cli,      \* cli[c]: where a command is and what it knows
  changes   \* what others have changed so far

platform == <<registry, builds, taskset>>
syncVars == <<link, source, platform, cli, changes>>

Idle == [pc |-> "idle", cmd |-> CHOOSE k \in Commands : TRUE, team |-> NoId, seen |-> NoLink, mine |-> Empty,
         id |-> NoId, writable |-> FALSE, fresh |-> FALSE, sent |-> {}, lost |-> FALSE,
         draft |-> NoLink, result |-> NoId]

InitSync ==
  /\ link = NoLink /\ source \in [Slugs -> Rows] /\ registry = {}
  /\ builds = [c \in CliRuns |-> "none"]
  /\ taskset = [t \in Teams |-> [exists |-> FALSE, rows |-> Empty]]
  /\ cli = [c \in CliRuns |-> Idle] /\ changes = 0

At(c, pc) == cli[c].pc = pc
Kind(c) == cli[c].cmd.kind
Becomes(c, r) == cli' = [cli EXCEPT ![c] = r]
Ended(r, result) == [r EXCEPT !.pc = "ended", !.result = result]
Finishes(c, result) == Becomes(c, Ended(cli[c], result))

Issue(c) ==
  /\ At(c, "idle")
  /\ \E k \in Commands, t \in Teams : Becomes(c, [Idle EXCEPT !.pc = "load", !.cmd = k, !.team = t])
  /\ UNCHANGED <<link, source, platform, changes>>

\* A call that does not reach the platform, or is refused by it, ends the
\* command: HudRequestError, mapped to an error document and an exit code.
Calling == {"load", "place", "resolve", "fetch", "put", "trigger", "poll", "upload"}
Fails(c) ==
  /\ cli[c].pc \in Calling /\ Finishes(c, "failed")
  /\ UNCHANGED <<link, source, platform, changes>>

---------------------------------------------------------------------------
\* DirectoryState._read: a link that other credentials wrote is refused.
Mine(team) == link.scope \in {NoId, team}

\* What a command is about once it has read the link.  sync tasks needs a
\* target, by name or by the stored id, and tasks to upload.
Load(c) ==
  /\ At(c, "load")
  /\ LET r == [cli[c] EXCEPT !.seen = link, !.mine = source]
         k == cli[c].cmd
     IN CASE \/ ~Mine(cli[c].team)
             \/ k.kind = "tasks" /\ (source = Empty \/ (~k.explicit /\ link.taskset = NoId))
             \/ k.kind = "env" /\ cli[c].team \notin registry -> Becomes(c, Ended(r, "refused"))
          [] OTHER -> IF k.kind = "env"
                      THEN Becomes(c, IF k.dry THEN Ended(r, "dry") ELSE [r EXCEPT !.pc = "update"])
                      ELSE Becomes(c, [r EXCEPT !.pc = "place"])
  /\ UNCHANGED <<link, source, platform, changes>>

\* Placement.resolve: --project, then the directory's project, then the team's
\* default, into which anyone may write.  A deploy and hud project use refuse a
\* project that is read only at once, sync tasks only when it would upload.
Place(c) ==
  /\ At(c, "place")
  /\ \E writable \in BOOLEAN :
       LET chosen == Kind(c) = "project" \/ cli[c].cmd.project \/ cli[c].seen.project # NoId
           r == [cli[c] EXCEPT !.writable = writable]
       IN /\ ~chosen => writable
          /\ Becomes(c,
               CASE Kind(c) = "tasks" -> [r EXCEPT !.pc = "resolve"]
                 [] Kind(c) # "tasks" /\ ~writable -> Ended(r, "refused")
                 [] Kind(c) # "tasks" /\ writable /\ cli[c].cmd.dry -> Ended(r, "dry")
                 [] OTHER -> [r EXCEPT !.pc = IF Kind(c) = "deploy" THEN "put" ELSE "update"])
  /\ UNCHANGED <<link, source, platform, changes>>

---------------------------------------------------------------------------
(* hud deploy: an upload URL, the upload, the trigger, the log, the status.  *)

Put(c) ==
  /\ At(c, "put") /\ Becomes(c, [cli[c] EXCEPT !.pc = "trigger"])
  /\ UNCHANGED <<link, source, platform, changes>>

\* The environment is registered and built.  Without an answer the request is
\* tried again (one answer of a command is lost at most); once answered, the
\* link is updated unless the target was named.
Trigger(c) ==
  /\ At(c, "trigger")
  /\ registry' = registry \cup {cli[c].team} /\ builds' = [builds EXCEPT ![c] = "IN_PROGRESS"]
  /\ \/ Becomes(c, [cli[c] EXCEPT !.pc = IF cli[c].cmd.explicit \/ cli[c].cmd.project THEN "poll" ELSE "update"])
     \/ ~cli[c].lost /\ Becomes(c, [cli[c] EXCEPT !.lost = TRUE])
  /\ UNCHANGED <<link, source, taskset, changes>>

BuildEnds(c) ==
  /\ builds[c] = "IN_PROGRESS"
  /\ \E status \in {"SUCCEEDED", "FAILED"} : builds' = [builds EXCEPT ![c] = status]
  /\ UNCHANGED <<link, source, registry, taskset, cli, changes>>

\* The log stream decides nothing: the status is asked for until it is final.
Polled(c) == IF builds[c] = "SUCCEEDED" THEN "deployed" ELSE IF builds[c] = "FAILED" THEN "failed" ELSE NoId
Poll(c) ==
  /\ At(c, "poll") /\ Polled(c) # NoId /\ Finishes(c, Polled(c))
  /\ UNCHANGED <<link, source, platform, changes>>

---------------------------------------------------------------------------
(* hud sync tasks                                                            *)

\* resolve_taskset_id: an id is taken as it is, a name is looked up, and may
\* be that of a taskset to be created.
Resolve(c) ==
  /\ At(c, "resolve")
  /\ LET t == cli[c].team IN
       Becomes(c, [cli[c] EXCEPT !.pc = "fetch",
         !.id = IF ~cli[c].cmd.explicit THEN cli[c].seen.taskset
                ELSE IF taskset[t].exists THEN t ELSE NoId])
  /\ UNCHANGED <<link, source, platform, changes>>

\* _task_signature leaves the environment's name out.
Differs(mine, theirs) == mine.sig # theirs.sig
\* Mutant: only what the platform does not have is uploaded.
ToApply_New(mine, theirs) == {s \in Slugs : mine[s] # NoRow /\ theirs[s] = NoRow}

\* diff: what is not there yet, or there with another content.
ToApply(mine, theirs) == {s \in Slugs : mine[s] # NoRow /\ Differs(mine[s], theirs[s])}

\* Taskset.from_api and the plan.  A taskset that is gone is not created again:
\* its record is asked for first.  Gone between the record and the export, it
\* reads as empty.
Fetch(c) ==
  /\ At(c, "fetch")
  /\ LET t == cli[c].team
         k == cli[c].cmd
         gone == cli[c].id # NoId /\ ~taskset[t].exists
         theirs == IF k.force \/ cli[c].id = NoId \/ gone THEN Empty ELSE taskset[t].rows
         sent == ToApply(cli[c].mine, theirs)
         r == [cli[c] EXCEPT !.fresh = TRUE, !.sent = sent]
     IN \/ /\ gone /\ Finishes(c, "failed")
        \/ /\ IF sent = {}
              THEN IF k.link /\ ~k.dry
                   THEN Becomes(c, IF cli[c].id = NoId THEN Ended(r, "failed") ELSE [r EXCEPT !.pc = "update", !.result = "current"])
                   ELSE Becomes(c, Ended(r, "current"))
              ELSE Becomes(c, IF k.dry THEN Ended(r, "dry")
                              ELSE IF ~cli[c].writable THEN Ended(r, "refused")
                              ELSE [r EXCEPT !.pc = "upload"])
  /\ UNCHANGED <<link, source, platform, changes>>

\* upload_taskset: rows by slug, into the taskset of the id or, without one, of
\* the name.  The link is updated when it was asked for, or is the first one.
Stale(t, c) == [d \in CliRuns |-> IF d # c /\ cli[d].team = t THEN [cli[d] EXCEPT !.fresh = FALSE] ELSE cli[d]]
Upload(c) ==
  /\ At(c, "upload")
  /\ LET t == cli[c].team
         linking == cli[c].cmd.link \/ (cli[c].seen.taskset = NoId /\ ~cli[c].cmd.project)
         r == [cli[c] EXCEPT !.result = "synced", !.pc = IF linking THEN "update" ELSE "ended"]
     IN /\ cli[c].id # NoId => taskset[t].exists
        /\ taskset' = [taskset EXCEPT ![t] =
             [exists |-> TRUE, rows |-> [s \in Slugs |-> IF s \in cli[c].sent THEN cli[c].mine[s] ELSE @.rows[s]]]]
        /\ \/ cli' = [Stale(t, c) EXCEPT ![c] = r]
           \/ ~cli[c].lost /\ cli' = [Stale(t, c) EXCEPT ![c].lost = TRUE]
  /\ UNCHANGED <<link, source, registry, builds, changes>>

---------------------------------------------------------------------------
(* DirectoryState.update: the file is read again, changed and replaced.      *)

Linked(c) ==
  CASE Kind(c) \in {"deploy", "env"} -> [link EXCEPT !.registry = cli[c].team]
    [] Kind(c) = "tasks" -> [link EXCEPT !.taskset = cli[c].team]
    [] Kind(c) = "project" -> [link EXCEPT !.project = cli[c].team]
Done(c) == IF Kind(c) = "deploy" THEN [cli[c] EXCEPT !.pc = "poll"]
           ELSE Ended(cli[c], IF cli[c].result = NoId THEN "linked" ELSE cli[c].result)

Update(c) ==
  /\ At(c, "update")
  /\ LET draft == [Linked(c) EXCEPT !.scope = cli[c].team] IN
       Becomes(c, IF ~Mine(cli[c].team) THEN Ended(cli[c], "failed")
                  ELSE IF draft = link THEN Done(c)
                  ELSE [cli[c] EXCEPT !.pc = "replace", !.draft = draft])
  /\ UNCHANGED <<link, source, platform, changes>>

Replace(c) ==
  /\ At(c, "replace") /\ link' = cli[c].draft /\ Becomes(c, Done(c))
  /\ UNCHANGED <<source, platform, changes>>

---------------------------------------------------------------------------
(* Others: the author edits the source or deletes the file, as the error     *)
(* suggests; another client of the team changes or deletes its taskset.      *)

Other ==
  /\ changes < Changes /\ changes' = changes + 1
  /\ \/ /\ source' \in [Slugs -> Rows] /\ UNCHANGED <<link, platform, cli>>
     \/ /\ link' = NoLink /\ UNCHANGED <<source, platform, cli>>
     \/ /\ \E t \in Teams :
             /\ taskset[t].exists
             /\ \/ \E rows \in [Slugs -> Rows \cup {NoRow}] : taskset' = [taskset EXCEPT ![t].rows = rows]
                \/ taskset' = [taskset EXCEPT ![t] = [exists |-> FALSE, rows |-> Empty]]
             /\ cli' = [c \in CliRuns |-> IF cli[c].team = t THEN [cli[c] EXCEPT !.fresh = FALSE] ELSE cli[c]]
        /\ UNCHANGED <<link, source, registry, builds>>

NextSync ==
  \/ \E c \in CliRuns :
       \/ Issue(c) \/ Fails(c) \/ Load(c) \/ Place(c) \/ Put(c) \/ Trigger(c) \/ BuildEnds(c) \/ Poll(c)
       \/ Resolve(c) \/ Fetch(c) \/ Upload(c) \/ Update(c) \/ Replace(c)
  \/ Other

---------------------------------------------------------------------------
\* The ids of the link are those of the credentials that wrote it, whoever else
\* runs a command in the directory ("credentials that do not match the stored
\* scope fail instead of using the ids", docs/v6/reference/cli.mdx:256).
LinkOwned == {link.registry, link.taskset, link.project} \subseteq {NoId, link.scope}

\* A sync that reports success leaves the taskset with the content of the tasks
\* it read, as long as nobody else has changed the taskset since it compared.
Compared(c) == cli[c].fresh /\ cli[c].pc = "ended" /\ cli[c].result \in {"synced", "current"}
SyncedContent ==
  \A c \in CliRuns : Compared(c) =>
    \A s \in Slugs : cli[c].mine[s] # NoRow => ~Differs(cli[c].mine[s], taskset[cli[c].team].rows[s])

\* A deploy that reports success has built what it registered.
DeployedBuilt == \A c \in CliRuns : cli[c].result = "deployed" => builds[c] = "SUCCEEDED" /\ cli[c].team \in registry

\* What the commands report and record is so.
SyncHonest == LinkOwned /\ SyncedContent /\ DeployedBuilt

\* "Local tasks that match remote" (docs/v6/reference/tasks.mdx) are what a sync
\* leaves alone: after it, the platform has the tasks as they were read.
SyncedWhole ==
  \A c \in CliRuns : Compared(c) =>
    \A s \in Slugs : cli[c].mine[s] # NoRow => taskset[cli[c].team].rows[s] = cli[c].mine[s]
=============================================================================
