------------------------------- MODULE MCChat -------------------------------
(***************************************************************************)
(* Turns of the embedded client, for TLC: one tool, and a detector that    *)
(* warns of the second call and stops the third.                           *)
(***************************************************************************)
EXTENDS AgentTurn

OnlyBash == {Bash}
OneCall == {<<Bash>>}
WarnNever == [n \in Tools |-> 3]
StopLate == [n \in Tools |-> 4]
FullAccess == [n \in Tools |-> 30]
=============================================================================
