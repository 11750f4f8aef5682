-------------------------- MODULE MCLoginSession ---------------------------
(* Small instances of LoginSession for TLC.                                *)
EXTENDS LoginSession, TLC

\* Calls, names, passwords, ids and tokens are interchangeable.
Symmetry ==
  Permutations(Caller) \cup Permutations(Name) \cup Permutations(Pass)
    \cup Permutations(User) \cup Permutations(LToken)
=============================================================================
