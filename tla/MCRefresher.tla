---------------------------- MODULE MCRefresher ----------------------------
(* Model-checking instance of Refresher. *)
EXTENDS Refresher, TLC

(* Requests, and the channels they wait on, are interchangeable. *)
Symmetry == Permutations(Requests) \cup Permutations(Channels)
=============================================================================
