-------------------------- MODULE MCProfileStatus --------------------------
(* Instantiates ProfileStatus for TLC: two GVKs and two messages, enough  *)
(* denials to overflow Latest and to revisit an existing Summary entry.   *)
EXTENDS ProfileStatus

CONSTANTS g1, g2, m1, m2

MCGVKs == {g1, g2}
MCMessages == {m1, m2}
MCMaxCalls == 5
=============================================================================
