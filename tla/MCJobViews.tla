------------------------------ MODULE MCJobViews ------------------------------
(* Model-checking instance of JobViews.                                      *)
EXTENDS JobViews, TLC

RequestSymmetry == Permutations(Requests)
=============================================================================
