------------------------------- MODULE MCAuth -------------------------------
(* TLC instances of Auth. *)
EXTENDS Auth, TLC

Symmetry == Permutations(Request) \cup Permutations(Name)
=============================================================================
