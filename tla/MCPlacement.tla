------------------------------- MODULE MCPlacement -------------------------------
(* The machines around a placement, each explored by itself: a provider with  *)
(* two acquisitions, a process group, and a batch on the platform.            *)
EXTENDS Substrates, ProcessGroup, HostedBatch

VARIABLE part

InitAll ==
  /\ part \in {"provider", "group", "hosted"}
  /\ Init /\ InitGroup /\ InitHosted
  /\ part # "provider" => provider = "subprocess"
  /\ part # "group" => alive = Procs /\ foreign = {}

NextAll ==
  /\ part' = part
  /\ \/ part = "provider" /\ NextSubstrate /\ UNCHANGED <<groupVars, hostedVars>>
     \/ part = "group" /\ NextGroup /\ UNCHANGED <<vars, hostedVars>>
     \/ part = "hosted" /\ NextHosted /\ UNCHANGED <<vars, groupVars>>

SpecAll == /\ InitAll /\ [][NextAll]_<<part, vars, groupVars, hostedVars>>
           /\ part = "provider" => FairSubstrate
           /\ part = "group" => FairGroup
           /\ part = "hosted" => FairHosted

\* Each of them gets to its end.
AllEnd == /\ part = "provider" => AcquisitionsEnd
          /\ part = "group" => CompleteEnds
          /\ part = "hosted" => BatchEnds
=============================================================================
