---------------------------- MODULE MCAuthChain ----------------------------
(* Small instances of AuthChain for TLC.                                   *)
EXTENDS AuthChain, FiniteSets, TLC

CONSTANT MaxFaults  \* bound on what goes wrong at any one time

\* Calls, names, passwords, ids and tokens are interchangeable.
Symmetry ==
  Permutations(Caller) \cup Permutations(Getter) \cup Permutations(Name)
    \cup Permutations(Pass) \cup Permutations(User) \cup Permutations(LToken)
    \cup Permutations(UToken)

Started(calls) == Cardinality({c \in DOMAIN calls : calls[c].pc # "new"})

Failed(calls) ==
  Cardinality({c \in DOMAIN calls : calls[c].pc = "lost" \/ calls[c].code # 0})

\* Statements that may still be executed, users removed, calls of gettoken
\* that have failed.
Faults ==
  Cardinality(lateLogin) + Cardinality(lateUser) + Cardinality(lateVerify)
    + Cardinality({u \in User \ users : account[u] # None})
    + Failed(get)

\* The states whose successors are explored: a call other than gettoken that
\* has failed ends the path, a second gettoken is counted as a fault, nobody
\* is an administrator, a user gets the permission of v_token when it is called,
\* and a verify token is presented when it has a row.
Bounded ==
  /\ Failed(call) + Failed(ask) + Failed(use) = 0
  /\ Faults <= MaxFaults
  /\ Faults + Started(get) <= MaxFaults + 1
  /\ admins = {}
  /\ Cardinality(eligible) <= Started(ask)
  /\ Started(use) <= Cardinality({v \in VToken : owner[v] # None})
=============================================================================
