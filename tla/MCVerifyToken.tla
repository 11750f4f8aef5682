--------------------------- MODULE MCVerifyToken ---------------------------
(* Small instances of VerifyToken for TLC.                                 *)
EXTENDS VerifyToken, TLC

\* Calls, users and tokens are interchangeable.
Symmetry ==
  Permutations(Issuer) \cup Permutations(Redeemer) \cup Permutations(User)
    \cup Permutations(UToken) \cup Permutations(VToken)
=============================================================================
