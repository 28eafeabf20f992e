----------------------------- MODULE MCProtection -----------------------------
(* Model-checking instance of Protection.                                    *)
EXTENDS Protection, TLC

CallSymmetry == Permutations(Calls)
=============================================================================
