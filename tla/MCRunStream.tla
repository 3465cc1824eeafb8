---------------------------- MODULE MCRunStream ----------------------------
(* RunStream for TLC: the clients are interchangeable in safety checks. *)
EXTENDS RunStream, TLC

Symmetry == Permutations(Clients)
=============================================================================
