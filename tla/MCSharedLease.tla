---------------------------- MODULE MCSharedLease ----------------------------
(* Instances of SharedLease for TLC: call A with two rollouts, B with one.   *)
EXTENDS SharedLease, TLC

CONSTANTS A, B, a1, a2, b1

MCCalls == {A, B}
MCRollouts == {a1, a2, b1}
JustA == {A}
MCVerified == {a1}
MCCallOf == (a1 :> A) @@ (a2 :> A) @@ (b1 :> B)

\* Verifiers have an environment of their own.
TwoKeys == {"env", "grader"}
ByRole == [l \in MCRollouts \X {"actor", "verifier"} |->
             IF l[2] = "actor" THEN "env" ELSE "grader"]

\* Actor and verifier share the environment, under a separate lease.
OneKey == {"env"}
Same == [l \in MCRollouts \X {"actor", "verifier"} |-> "env"]
=============================================================================
