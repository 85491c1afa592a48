------------------------------ MODULE MCTrajectory ------------------------------
(* What a rollout leaves behind, each machine explored by itself: the loop of *)
(* a tool agent, the observer of the workspace's files, the recorder of a     *)
(* wrapped robot env, the scores of a served one, and the endpoint that the   *)
(* sessions of an environment share.                                          *)
EXTENDS AgentLoop, FileTracking, EpisodeRecorder, GymSim, RobotEndpoint

VARIABLE part

InitAll ==
  /\ part \in {"agent", "files", "episodes", "gym", "endpoint"}
  /\ InitLoop /\ InitTracking /\ InitRecorder /\ InitGym /\ Init
  /\ part # "agent" => provider = "claude" /\ stopOn = {} /\ history = <<>>
  /\ part # "gym" => contract = "file"

NextAll ==
  /\ part' = part
  /\ \/ part = "agent" /\ NextLoop /\ UNCHANGED <<trackVars, recorderVars, gymVars, vars>>
     \/ part = "files" /\ NextTracking /\ UNCHANGED <<loopVars, recorderVars, gymVars, vars>>
     \/ part = "episodes" /\ NextRecorder /\ UNCHANGED <<loopVars, trackVars, gymVars, vars>>
     \/ part = "gym" /\ NextGym /\ UNCHANGED <<loopVars, trackVars, recorderVars, vars>>
     \/ part = "endpoint" /\ Next /\ UNCHANGED <<loopVars, trackVars, recorderVars, gymVars>>

all == <<part, loopVars, trackVars, recorderVars, gymVars, vars>>
OfLoop(A) == part = "agent" /\ A /\ UNCHANGED <<part, trackVars, recorderVars, gymVars, vars>>
OfFiles(A) == part = "files" /\ A /\ UNCHANGED <<part, loopVars, recorderVars, gymVars, vars>>
OfEpisodes(A) == part = "episodes" /\ A /\ UNCHANGED <<part, loopVars, trackVars, gymVars, vars>>
OfEndpoint(A) == part = "endpoint" /\ A /\ UNCHANGED <<part, loopVars, trackVars, recorderVars, gymVars>>

\* The event loop and the threads run what they can; the end of a rollout and
\* of an env comes, by atexit at the latest.
SpecAll == /\ InitAll /\ [][NextAll]_all
           /\ WF_all(OfLoop(LoopStep))
           /\ WF_all(OfFiles(Scans)) /\ WF_all(OfFiles(ObserverStep)) /\ WF_all(OfFiles(Halt))
           /\ WF_all(OfEpisodes(CloseEnv)) /\ \A t \in Episodes : WF_all(OfEpisodes(Encode(t)))
           /\ WF_all(OfEndpoint(Serve))
           /\ \A s \in Session :
                WF_all(OfEndpoint(Send(s) \/ Receive(s) \/ Retry(s) \/ Finish(s) \/ Teardown(s)))

\* The loop and the observer each get to their end, and so do the encoders.
TrajectoryEnds ==
  <>[]CASE part = "agent" -> LoopEnded
        [] part = "files" -> ObserverEnded
        [] part = "episodes" -> RecordingEnded
        [] OTHER -> TRUE

\* The recorder's traces and the bridge's scores are about the episodes they
\* are filed under.
EpisodesApart == TraceIsEpisode /\ TracesPaired /\ GradedByFirst
=============================================================================
