---------------------------- MODULE MCSlaPolicies ----------------------------
(* Model-checking instance of SlaPolicies: names and requests are            *)
(* interchangeable.                                                          *)
EXTENDS SlaPolicies, TLC

SlaSymmetry == Permutations(Names) \cup Permutations(Calls)
=============================================================================
