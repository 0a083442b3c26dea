-------------------------- MODULE MCSharedSession --------------------------
(* Model-checking instances of SharedSession: processes are interchangeable. *)
EXTENDS SharedSession, TLC

Symmetry == Permutations(Processes)
=============================================================================
