---------------------------- MODULE OneTimeToken ----------------------------
(***************************************************************************)
(* What the verify tokens promise (README.md:76): a token made for a user  *)
(* is exchanged for that user's id at most once.                           *)
(***************************************************************************)
CONSTANTS VToken, User, Redeemer, None

VARIABLES
  holder,  \* the user each token was made for, or None
  told     \* what each redeemer was told: a token and a user, or None

Init ==
  /\ holder = [v \in VToken |-> None]
  /\ told = [r \in Redeemer |-> None]

Issue(v, u) ==
  /\ holder[v] = None
  /\ holder' = [holder EXCEPT ![v] = u]
  /\ UNCHANGED told

Redeem(r, v) ==
  /\ holder[v] # None
  /\ told[r] = None
  /\ \A s \in Redeemer : told[s] # None => told[s].tok # v
  /\ told' = [told EXCEPT ![r] = [tok |-> v, user |-> holder[v]]]
  /\ UNCHANGED holder

Next ==
  \/ \E v \in VToken, u \in User : Issue(v, u)
  \/ \E r \in Redeemer, v \in VToken : Redeem(r, v)

Spec == Init /\ [][Next]_<<holder, told>>
=============================================================================
