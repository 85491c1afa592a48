------------------------------- MODULE SlotLedger -------------------------------
(***************************************************************************)
(* What a vectorized simulator promises about its slots, without links,     *)
(* connections, ticks or the simulator itself: episodes are given tokens    *)
(* batch by batch.  A batch begins when no episode is left of the one       *)
(* before it and takes in at most one episode per slot, also when some of   *)
(* them end early; a token is given once, and freed once at most.           *)
(***************************************************************************)
EXTENDS Naturals

CONSTANTS Token, Size

VARIABLES
  open,    \* tokens whose episode goes on
  given,   \* tokens ever given
  used     \* episodes taken into the present batch

vars == <<open, given, used>>

Init == open = {} /\ given = {} /\ used = 0

\* The whole batch is reset for its first episode.
Begin(t) ==
  /\ open = {} /\ t \notin given
  /\ open' = {t} /\ given' = given \cup {t} /\ used' = 1

\* An episode joins the batch of others that still go on.
Join(t) ==
  /\ open # {} /\ t \notin given /\ used < Size
  /\ open' = open \cup {t} /\ given' = given \cup {t} /\ used' = used + 1

Free(t) ==
  /\ t \in open /\ open' = open \ {t}
  /\ UNCHANGED <<given, used>>

Next == \E t \in Token : Begin(t) \/ Join(t) \/ Free(t)

Spec == Init /\ [][Next]_vars
=============================================================================
