----------------------------- MODULE MCEnvServing -----------------------------
(* Instances of EnvServing: an agent session, a second one and two graders.  *)
EXTENDS EnvServing, TLC

CONSTANTS s1, s2, v1, v2, a1, a2

OneAndTwo == {s1, v1, v2}
TwoSessions == {s1, s2}
Graders == {v1, v2}
Graders0 == {}
TwoRollouts == {a1, a2}
OneRollout == {a1}
Sym == Permutations(Graders)
=============================================================================
