---------------------------- MODULE MCUserToken ----------------------------
(* Small instances of UserToken for TLC.                                   *)
EXTENDS UserToken, FiniteSets, TLC

\* Calls, users and tokens are interchangeable (safety runs only).
Symmetry ==
  Permutations(Getter) \cup Permutations(Reader) \cup Permutations(User)
    \cup Permutations(LToken) \cup Permutations(UToken)

\* The states whose successors are explored: one call at most is sent a text
\* that ends the string, of gettoken or of webgettoken, and the login token has
\* two rows at most, of one user or, when one was removed, of two.
Bounded ==
  /\ Cardinality({g \in Getter : get[g].tok \in Quoted})
       + Cardinality({w \in Reader : read[w].tok \in Quoted}) <= 1
  /\ Cardinality(logins) <= 2
=============================================================================
