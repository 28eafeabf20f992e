-------------------------------- MODULE Filters --------------------------------
(***************************************************************************)
(* JavaScript's Array.prototype.filter, by which the forms drop the rows   *)
(* left empty and the toasts lose one of theirs.                           *)
(***************************************************************************)
EXTENDS Naturals, Sequences

\* At each place of s, the elements up to there that are in S, in their order.
Kept(s, S) ==
    LET f[i \in 0..Len(s)] ==
          IF i = 0 THEN <<>>
          ELSE IF s[i] \in S THEN Append(f[i - 1], s[i]) ELSE f[i - 1]
    IN  f

\* What the filter leaves of s.
Keep(s, S) == Kept(s, S)[Len(s)]
=============================================================================
