---------------------------- MODULE MCSubagents ----------------------------
(* Subagents for TLC: the tasks are interchangeable in safety checks. *)
EXTENDS Subagents, TLC

Symmetry == Permutations(Tasks)
=============================================================================
