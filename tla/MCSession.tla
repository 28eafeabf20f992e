------------------------------ MODULE MCSession ------------------------------
(* Model-checking instance of Session: commands are interchangeable.         *)
EXTENDS Session, TLC

SessionSymmetry == Permutations(Calls)
=============================================================================
