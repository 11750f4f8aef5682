------------------------- MODULE VerifyTokenProofs -------------------------
(***************************************************************************)
(* Proofs about VerifyToken, for any sets of calls, users and tokens.      *)
(***************************************************************************)
EXTENDS VerifyToken, TLAPS

\* Calls whose UPDATE affected the row, and that are sure of it.
Passed(r) == \/ use[r].pc = "fetch"
             \/ use[r].pc = "done" /\ use[r].code \in {0, 5}

\* A token is drawn by one call, and inserted only for the user it is drawn for.
DrawInv ==
  /\ \A i \in Issuer :
       ask[i].pc = "insert" => ask[i].vt # None /\ ask[i].user # None
  /\ \A i, j \in Issuer : ask[i].vt = ask[j].vt /\ ask[i].vt # None => i = j
  /\ \A i \in Issuer : ask[i].pc \in {"new", "check"} => ask[i].vt = None

OwnerInv ==
  /\ \A v \in VToken : owner[v] # None =>
       \E i \in Issuer : ask[i].vt = v /\ ask[i].user = owner[v]
  /\ \A s \in late : s.op = "insert" =>
       \E i \in Issuer : ask[i].vt = s.tok /\ ask[i].user = s.user

\* What a call has read of a row is still so, and the row was won once.
ReadInv ==
  \A r \in Redeemer :
    /\ use[r].pc = "look" => use[r].tok \in VToken
    /\ use[r].pc = "use" \/ Passed(r) =>
         /\ use[r].tok \in VToken
         /\ owner[use[r].tok] # None
         /\ use[r].user = owner[use[r].tok]

WinInv ==
  /\ \A r \in Redeemer : Passed(r) => use[r].tok \in isUse
  /\ \A r, s \in Redeemer :
       Passed(r) /\ Passed(s) /\ use[r].tok = use[s].tok => r = s

IInv == TypeOK /\ DrawInv /\ OwnerInv /\ ReadInv /\ WinInv /\ SpentMeansWon

-----------------------------------------------------------------------------
LEMMA InitIInv == Init => IInv
BY VerifyAssumption DEF Init, IInv, TypeOK, AskState, UseState, AskCode,
   UseCode, DrawInv, OwnerInv,
   ReadInv, WinInv, SpentMeansWon, Passed

\* Steps of v_token that store nothing.
LEMMA AskStep ==
  ASSUME IInv, NEW i \in Issuer,
         (\E t \in UToken \cup {None} : Ask(i, t)) \/ Check(i)
  PROVE  IInv'
<1> USE VerifyAssumption
<1>1. UNCHANGED <<users, userToken, eligible, owner, isUse, late, use>>
  BY DEF Ask, Check, env, rows
<1>0. 1 \in AskCode /\ 4 \in AskCode /\ 500 \in AskCode
  BY DEF AskCode
<1> DEFINE Draw == \E u \in User, v \in Fresh :
                     ask' = [ask EXCEPT ![i].pc = "insert", ![i].user = u,
                                        ![i].vt = v]
           Seen == \E t \in UToken :
                     ask' = [ask EXCEPT ![i].pc = "check", ![i].tok = t]
           Answered == \E c \in AskCode :
                     ask' = [ask EXCEPT ![i].pc = "done", ![i].code = c]
<1>2. ask[i].pc \in {"new", "check"} /\ (Draw \/ Seen \/ Answered)
  BY <1>0 DEF Ask, Check, AskAnswer, IInv, TypeOK, AskState, UseState
<1>3. /\ TypeOK'
      /\ \A j \in Issuer \ {i} : ask'[j] = ask[j]
      /\ ask[i].vt = None
      /\ \/ ask'[i].vt = None /\ ask'[i].pc \in {"check", "done"}
         \/ /\ ask'[i].pc = "insert"
            /\ ask'[i].vt \in Fresh
            /\ ask'[i].user \in User
  <2>0. ask[i].vt = None
    BY <1>2 DEF IInv, DrawInv
  <2>1. CASE Draw
    <3>1. PICK u \in User, v \in Fresh :
            ask' = [ask EXCEPT ![i].pc = "insert", ![i].user = u, ![i].vt = v]
      BY <2>1
    <3>2. v \in VToken
      BY DEF Fresh
    <3> DEFINE n == [ask[i] EXCEPT !.pc = "insert", !.user = u, !.vt = v]
    <3>3. ask' = [ask EXCEPT ![i] = n]
      BY <3>1
    <3>4. /\ n \in AskState
          /\ n.pc = "insert" /\ n.vt = v /\ n.user = u
      <4>1. ask[i] \in AskState
        BY DEF IInv, TypeOK
      <4> QED BY <3>2, <4>1 DEF AskState
    <3> HIDE DEF n
    <3> QED BY <1>1, <2>0, <3>3, <3>4 DEF IInv, TypeOK
  <2>2. CASE Seen
    <3>1. PICK t \in UToken :
            ask' = [ask EXCEPT ![i].pc = "check", ![i].tok = t]
      BY <2>2
    <3> DEFINE n == [ask[i] EXCEPT !.pc = "check", !.tok = t]
    <3>2. ask' = [ask EXCEPT ![i] = n]
      BY <3>1
    <3>3. n \in AskState /\ n.pc = "check" /\ n.vt = ask[i].vt
      <4>1. ask[i] \in AskState
        BY DEF IInv, TypeOK
      <4> QED BY <4>1 DEF AskState
    <3> HIDE DEF n
    <3> QED BY <1>1, <2>0, <3>2, <3>3 DEF IInv, TypeOK
  <2>3. CASE Answered
    <3>1. PICK c \in AskCode :
            ask' = [ask EXCEPT ![i].pc = "done", ![i].code = c]
      BY <2>3
    <3> DEFINE n == [ask[i] EXCEPT !.pc = "done", !.code = c]
    <3>2. ask' = [ask EXCEPT ![i] = n]
      BY <3>1
    <3>3. n \in AskState /\ n.pc = "done" /\ n.vt = ask[i].vt
      <4>1. ask[i] \in AskState
        BY DEF IInv, TypeOK
      <4> QED BY <4>1 DEF AskState
    <3> HIDE DEF n
    <3> QED BY <1>1, <2>0, <3>2, <3>3 DEF IInv, TypeOK
  <2> QED BY <1>2, <2>1, <2>2, <2>3
<1>4. DrawInv'
  BY <1>3 DEF IInv, DrawInv, Fresh, Drawn
<1>5. OwnerInv'
  BY <1>1, <1>3 DEF IInv, OwnerInv, TypeOK
<1>6. ReadInv' /\ WinInv' /\ SpentMeansWon'
  BY <1>1 DEF IInv, ReadInv, WinInv, SpentMeansWon, Passed, Won
<1> QED BY <1>3, <1>4, <1>5, <1>6 DEF IInv

LEMMA InsertStep ==
  ASSUME IInv, NEW i \in Issuer, Insert(i)
  PROVE  IInv'
<1> USE VerifyAssumption
<1>0. ask[i].pc = "insert" /\ ask[i].vt \in VToken /\ ask[i].user \in User
  BY DEF Insert, IInv, TypeOK, AskState, UseState, DrawInv
<1>1. /\ UNCHANGED <<users, userToken, eligible, isUse, use>>
      /\ \A j \in Issuer \ {i} : ask'[j] = ask[j]
      /\ ask'[i].vt = ask[i].vt /\ ask'[i].user = ask[i].user
      /\ ask'[i].pc = "done"
  BY DEF Insert, AskAnswer, env, IInv, TypeOK, AskState, UseState
<1>2. \/ owner' = [owner EXCEPT ![ask[i].vt] = ask[i].user] /\ late' = late
      \/ /\ owner' = owner
         /\ late' = late \cup {[op |-> "insert", tok |-> ask[i].vt,
                                user |-> ask[i].user]}
  BY DEF Insert, InsertRow
<1>3. \A v \in VToken : owner[v] # None => owner'[v] = owner[v]
  <2>1. owner[ask[i].vt] \in {None, ask[i].user}
    BY <1>0 DEF IInv, OwnerInv, DrawInv
  <2> QED BY <1>0, <1>2, <2>1 DEF IInv, TypeOK, AskState, UseState
<1>4. TypeOK'
  BY <1>0, <1>1, <1>2 DEF IInv, TypeOK, AskState, UseState, Insert, AskAnswer
<1>5. DrawInv'
  BY <1>1 DEF IInv, DrawInv
<1>6. OwnerInv'
  BY <1>0, <1>1, <1>2 DEF IInv, OwnerInv, TypeOK
<1>7. ReadInv'
  BY <1>1, <1>3 DEF IInv, ReadInv, Passed
<1>8. WinInv' /\ SpentMeansWon'
  BY <1>1, <1>2 DEF IInv, WinInv, SpentMeansWon, Passed, Won
<1> QED BY <1>4, <1>5, <1>6, <1>7, <1>8 DEF IInv

\* Steps of web_v_token that change no row.
LEMMA ReadStep ==
  ASSUME IInv, NEW r \in Redeemer,
         (\E v \in VToken \cup {None} : Present(r, v)) \/ Look(r) \/ Fetch(r)
  PROVE  IInv'
<1> USE VerifyAssumption
<1>1. UNCHANGED <<users, userToken, eligible, owner, isUse, late, ask>>
  BY DEF Present, Look, Fetch, env, rows
<1>2. TypeOK'
  BY <1>1 DEF IInv, TypeOK, AskState, UseState, Present, Look, Fetch, UseAnswer
<1>3. DrawInv' /\ OwnerInv'
  BY <1>1 DEF IInv, DrawInv, OwnerInv
<1>4. \A s \in Redeemer \ {r} : use'[s] = use[s]
  BY DEF Present, Look, Fetch, UseAnswer, IInv, TypeOK, AskState, UseState
<1>5. CASE \E v \in VToken \cup {None} : Present(r, v)
  <2>1. /\ use[r].pc = "new" /\ ~Passed(r)' /\ use'[r].pc # "use"
        /\ use'[r].pc = "look" => use'[r].tok \in VToken
    BY <1>5 DEF Present, UseAnswer, Passed, IInv, TypeOK, AskState, UseState
  <2> QED BY <1>1, <1>2, <1>3, <1>4, <2>1 DEF IInv, ReadInv, WinInv,
            SpentMeansWon, Passed, Won
<1>6. CASE Look(r)
  <2>1. /\ use[r].pc = "look" /\ ~Passed(r)' /\ use'[r].tok = use[r].tok
        /\ use'[r].pc = "use" =>
             owner[use[r].tok] # None /\ use'[r].user = owner[use[r].tok]
    BY <1>6 DEF Look, UseAnswer, Passed, IInv, TypeOK, AskState, UseState
  <2>2. use[r].tok \in VToken /\ use'[r].pc # "look"
    BY <1>6, <2>1 DEF Look, UseAnswer, IInv, TypeOK, AskState, UseState,
       ReadInv
  <2> QED BY <1>1, <1>2, <1>3, <1>4, <2>1, <2>2 DEF IInv, ReadInv, WinInv,
            SpentMeansWon, Passed, Won
<1>7. CASE Fetch(r)
  <2>1. /\ use[r].pc = "fetch" /\ use'[r].pc = "done"
        /\ use'[r].tok = use[r].tok /\ use'[r].user = use[r].user
        /\ use'[r].code \in {0, 5, 500}
    BY <1>7 DEF Fetch, UseAnswer, IInv, TypeOK, AskState, UseState
  <2>2. Passed(r) /\ Won(r)'
    BY <2>1 DEF Passed, Won
  <2> QED BY <1>1, <1>2, <1>3, <1>4, <2>1, <2>2 DEF IInv, ReadInv, WinInv,
            SpentMeansWon, Passed, Won
<1> QED BY <1>5, <1>6, <1>7

LEMMA UseStep ==
  ASSUME IInv, NEW r \in Redeemer, Use(r)
  PROVE  IInv'
<1> USE VerifyAssumption
<1>0. /\ use[r].pc = "use" /\ use[r].tok \in VToken /\ use[r].user \in User
      /\ owner[use[r].tok] = use[r].user
  BY DEF Use, IInv, TypeOK, AskState, UseState, ReadInv
<1>1. /\ UNCHANGED <<users, userToken, eligible, owner, ask>>
      /\ \A s \in Redeemer \ {r} : use'[s] = use[s]
      /\ use'[r].tok = use[r].tok /\ use'[r].user = use[r].user
  BY DEF Use, UseAnswer, env, IInv, TypeOK, AskState, UseState
<1>2. TypeOK'
  BY <1>0, <1>1 DEF IInv, TypeOK, AskState, UseState, Use, UseAnswer, MarkUsed
<1>3. DrawInv'
  BY <1>1 DEF IInv, DrawInv
<1>4. \/ /\ use[r].tok \notin isUse /\ isUse' = isUse \cup {use[r].tok}
         /\ use'[r].pc = "fetch" /\ late' = late
      \/ /\ isUse' = isUse /\ use'[r].pc = "done" /\ use'[r].code = 4
         /\ late \subseteq late' /\ \A s \in late' \ late : s.op = "use"
  BY DEF Use, UseAnswer, Affected, MarkUsed, IInv, TypeOK, AskState, UseState
<1>5. OwnerInv'
  BY <1>1, <1>4 DEF IInv, OwnerInv
<1>6. ReadInv'
  BY <1>0, <1>1, <1>4 DEF IInv, ReadInv, Passed
<1>7. WinInv'
  BY <1>0, <1>1, <1>4 DEF IInv, WinInv, Passed
<1>8. SpentMeansWon'
  BY <1>0, <1>1, <1>4 DEF IInv, SpentMeansWon, Won
<1> QED BY <1>2, <1>3, <1>5, <1>6, <1>7, <1>8 DEF IInv

LEMMA LateStep ==
  ASSUME IInv, NEW s \in late, LateStatement(s)
  PROVE  IInv'
<1> USE VerifyAssumption
<1>0. UNCHANGED <<users, userToken, eligible, late, ask, use>>
  BY DEF LateStatement, env
<1>1. s.tok \in VToken /\ s.user \in User /\ s.op \in {"insert", "use"}
  BY DEF IInv, TypeOK, AskState, UseState
<1>2. CASE s.op = "insert"
  <2>1. owner' = [owner EXCEPT ![s.tok] = s.user] /\ isUse' = isUse
    BY <1>2 DEF LateStatement, InsertRow
  <2>2. \A v \in VToken : owner[v] # None => owner'[v] = owner[v]
    <3>1. owner[s.tok] \in {None, s.user}
      BY <1>1, <1>2 DEF IInv, OwnerInv, DrawInv
    <3> QED BY <1>1, <2>1, <3>1 DEF IInv, TypeOK, AskState, UseState
  <2>3. TypeOK' /\ DrawInv'
    BY <1>0, <1>1, <2>1 DEF IInv, TypeOK, AskState, UseState, DrawInv
  <2>4. OwnerInv'
    BY <1>0, <1>1, <1>2, <2>1 DEF IInv, OwnerInv, TypeOK
  <2>5. ReadInv' /\ WinInv' /\ SpentMeansWon'
    BY <1>0, <2>1, <2>2 DEF IInv, ReadInv, WinInv, SpentMeansWon, Passed, Won
  <2> QED BY <2>3, <2>4, <2>5 DEF IInv
<1>3. CASE s.op = "use"
  <2>1. owner' = owner /\ isUse' = isUse \cup {s.tok}
    BY <1>3 DEF LateStatement, MarkUsed
  <2>2. TypeOK' /\ DrawInv' /\ OwnerInv' /\ ReadInv' /\ WinInv'
    BY <1>0, <1>1, <2>1 DEF IInv, TypeOK, AskState, UseState, DrawInv,
       OwnerInv, ReadInv, WinInv,
                            Passed
  <2>3. SpentMeansWon'
    BY <1>0, <1>3, <2>1 DEF IInv, SpentMeansWon, Won
  <2> QED BY <2>2, <2>3 DEF IInv
<1> QED BY <1>1, <1>2, <1>3

LEMMA CrashStep == IInv /\ Crash => IInv'
<1> SUFFICES ASSUME IInv, Crash PROVE IInv'
  OBVIOUS
<1>1. UNCHANGED <<users, userToken, eligible, owner, isUse, late>>
  BY DEF Crash, env, rows
<1>2. \A i \in Issuer :
        /\ ask'[i].vt = ask[i].vt /\ ask'[i].user = ask[i].user
        /\ ask'[i].pc = "lost" \/ ask'[i] = ask[i]
  BY DEF Crash, Lose, IInv, TypeOK, AskState, UseState
<1>3. \A r \in Redeemer :
        /\ use'[r].tok = use[r].tok
        /\ use'[r].pc = "lost" \/ use'[r] = use[r]
  BY DEF Crash, Lose, IInv, TypeOK, AskState, UseState
<1>4. TypeOK'
  <2>1. \A i \in Issuer : ask'[i] \in {ask[i], [ask[i] EXCEPT !.pc = "lost"]}
    BY DEF Crash, Lose
  <2>2. \A r \in Redeemer : use'[r] \in {use[r], [use[r] EXCEPT !.pc = "lost"]}
    BY DEF Crash, Lose
  <2>3. ask' = [i \in Issuer |-> ask'[i]] /\ use' = [r \in Redeemer |-> use'[r]]
    BY DEF Crash
  <2>4. \A i \in Issuer : ask'[i] \in AskState
    <3>1. \A a \in AskState : [a EXCEPT !.pc = "lost"] \in AskState
      BY DEF AskState
    <3> QED BY <2>1, <3>1 DEF IInv, TypeOK
  <2>5. \A r \in Redeemer : use'[r] \in UseState
    <3>1. \A b \in UseState : [b EXCEPT !.pc = "lost"] \in UseState
      BY DEF UseState
    <3> QED BY <2>2, <3>1 DEF IInv, TypeOK
  <2>6. ask' \in [Issuer -> AskState] /\ use' \in [Redeemer -> UseState]
    BY <2>3, <2>4, <2>5
  <2> QED BY <1>1, <2>6 DEF IInv, TypeOK
<1>5. DrawInv' /\ OwnerInv'
  BY <1>1, <1>2 DEF IInv, DrawInv, OwnerInv
<1>6. ReadInv' /\ WinInv'
  BY <1>1, <1>3 DEF IInv, ReadInv, WinInv, Passed
<1>7. SpentMeansWon'
  BY <1>1, <1>3 DEF IInv, SpentMeansWon, Won
<1> QED BY <1>4, <1>5, <1>6, <1>7 DEF IInv

LEMMA EnvironmentStep == IInv /\ Environment => IInv'
<1> SUFFICES ASSUME IInv, Environment PROVE IInv'
  OBVIOUS
<1>1. UNCHANGED <<owner, isUse, late, ask, use>>
  BY DEF Environment, rows
<1>2. TypeOK'
  BY <1>1 DEF Environment, Administer, Rotate, IInv, TypeOK, AskState, UseState
<1> QED BY <1>1, <1>2 DEF IInv, DrawInv, OwnerInv, ReadInv, WinInv,
          SpentMeansWon, Passed, Won

LEMMA NextIInv == IInv /\ [Next]_vars => IInv'
<1> SUFFICES ASSUME IInv, [Next]_vars PROVE IInv'
  OBVIOUS
<1>1. CASE Step
  BY <1>1, AskStep, InsertStep, ReadStep, UseStep, LateStep, CrashStep DEF Step, Serve
<1>2. CASE Environment
  BY <1>2, EnvironmentStep
<1>3. CASE UNCHANGED vars
  BY <1>3 DEF vars, IInv, TypeOK, AskState, UseState, DrawInv, OwnerInv,
     ReadInv, WinInv,
              SpentMeansWon, Passed, Won
<1> QED BY <1>1, <1>2, <1>3 DEF Next

LEMMA Invariance == Spec => []IInv
<1> QED BY InitIInv, NextIInv, PTL DEF Spec

-----------------------------------------------------------------------------
(* The variables keep their types.                                         *)
THEOREM TypeCorrect == Spec => []TypeOK
<1>1. IInv => TypeOK
  BY DEF IInv
<1> QED BY <1>1, Invariance, PTL

(* A verify token is redeemed at most once, for any number of concurrent   *)
(* calls, crashes and statements executed late.                            *)
THEOREM AtMostOnce == Spec => []RedeemedAtMostOnce
<1>1. IInv => RedeemedAtMostOnce
  BY DEF IInv, WinInv, Passed, RedeemedAtMostOnce, Succeeded
<1> QED BY <1>1, Invariance, PTL

(* The redeemer is told the user the token was drawn for.                  *)
THEOREM ToldOwner == Spec => []RedeemerToldOwner
<1>1. IInv => RedeemerToldOwner
  BY DEF IInv, ReadInv, OwnerInv, Passed, RedeemerToldOwner, Succeeded
<1> QED BY <1>1, Invariance, PTL

(* A token is not used up without a winner, unless an UPDATE failed.       *)
THEOREM SpentForSomebody == Spec => []SpentMeansWon
<1>1. IInv => SpentMeansWon
  BY DEF IInv
<1> QED BY <1>1, Invariance, PTL

-----------------------------------------------------------------------------
(* Refinement of OneTimeToken.                                             *)

LEMMA InitOneTime == Init => OneTime!Init
BY DEF Init, OneTime!Init, Told, Succeeded

\* When no success changes, the redeemers are told nothing new.
LEMMA TellNothing ==
  ASSUME \A r \in Redeemer :
           /\ Succeeded(r)' <=> Succeeded(r)
           /\ Succeeded(r) => use'[r] = use[r]
  PROVE  UNCHANGED Told
BY DEF Told

\* Storing the row of a call is an Issue, or changes nothing when the row is
\* there already.
LEMMA StoreRow ==
  ASSUME IInv, NEW i \in Issuer, ask[i].vt \in VToken, ask[i].user \in User,
         InsertRow(ask[i].vt, ask[i].user), UNCHANGED Told
  PROVE  OneTime!Next \/ UNCHANGED <<owner, Told>>
<1>1. owner[ask[i].vt] \in {None, ask[i].user}
  BY VerifyAssumption DEF IInv, OwnerInv, DrawInv
<1>2. CASE owner[ask[i].vt] = None
  BY <1>2 DEF InsertRow, OneTime!Next, OneTime!Issue
<1>3. CASE owner[ask[i].vt] = ask[i].user
  BY <1>3 DEF InsertRow, IInv, TypeOK, AskState, UseState
<1> QED BY <1>1, <1>2, <1>3

LEMMA StepOneTime == IInv /\ [Next]_vars => [OneTime!Next]_<<owner, Told>>
<1> SUFFICES ASSUME IInv, [Next]_vars
             PROVE  OneTime!Next \/ UNCHANGED <<owner, Told>>
  OBVIOUS
<1> USE VerifyAssumption
<1>1. ASSUME NEW i \in Issuer,
             (\E t \in UToken \cup {None} : Ask(i, t)) \/ Check(i)
      PROVE  UNCHANGED <<owner, Told>>
  BY <1>1 DEF Ask, Check, rows, Told, Succeeded
<1>2. ASSUME NEW i \in Issuer, Insert(i)
      PROVE  OneTime!Next \/ UNCHANGED <<owner, Told>>
  <2>1. ask[i].vt \in VToken /\ ask[i].user \in User /\ UNCHANGED Told
    BY <1>2 DEF Insert, IInv, TypeOK, AskState, UseState, DrawInv, Told,
       Succeeded
  <2> QED BY <1>2, <2>1, StoreRow DEF Insert
<1>3. ASSUME NEW r \in Redeemer,
             (\E v \in VToken \cup {None} : Present(r, v)) \/ Look(r) \/ Use(r)
      PROVE  UNCHANGED <<owner, Told>>
  <2>1. owner' = owner
    BY <1>3 DEF Present, Look, Use, rows
  <2>2. /\ \A s \in Redeemer \ {r} : use'[s] = use[s]
        /\ ~Succeeded(r)
        /\ ~Succeeded(r)'
    BY <1>3 DEF Present, Look, Use, UseAnswer, Succeeded, IInv, TypeOK,
       AskState, UseState
  <2>3. UNCHANGED Told
    BY <2>2, TellNothing DEF Succeeded
  <2> QED BY <2>1, <2>3
<1>4. ASSUME NEW r \in Redeemer, Fetch(r)
      PROVE  OneTime!Next \/ UNCHANGED <<owner, Told>>
  <2> DEFINE v == use[r].tok
  <2>1. /\ owner' = owner
        /\ \A s \in Redeemer \ {r} : use'[s] = use[s]
        /\ use'[r].tok = v /\ use'[r].user = use[r].user
        /\ ~Succeeded(r)
    BY <1>4 DEF Fetch, UseAnswer, rows, Succeeded, IInv, TypeOK, AskState,
       UseState
  <2>2. CASE ~Succeeded(r)'
    <3>1. UNCHANGED Told
      BY <2>1, <2>2, TellNothing DEF Succeeded
    <3> QED BY <2>1, <3>1
  <2>3. CASE Succeeded(r)'
    <3>1. /\ v \in VToken /\ owner[v] # None /\ use[r].user = owner[v]
          /\ \A s \in Redeemer : Succeeded(s) => use[s].tok # v
      BY <1>4, <2>1 DEF Fetch, IInv, ReadInv, WinInv, Passed, Succeeded
    <3>2. /\ Told[r] = None
          /\ \A s \in Redeemer : Told[s] # None => Told[s].tok # v
      BY <2>1, <3>1 DEF Told
    <3>3. Told' = [Told EXCEPT ![r] = [tok |-> v, user |-> owner[v]]]
      <4>1. \A s \in Redeemer \ {r} : Succeeded(s)' <=> Succeeded(s)
        BY <2>1 DEF Succeeded
      <4>2. \A s \in Redeemer \ {r} : Told'[s] = Told[s]
        BY <2>1, <4>1 DEF Told
      <4>3. Told'[r] = [tok |-> v, user |-> owner[v]]
        BY <2>1, <2>3, <3>1 DEF Told
      <4> QED BY <4>2, <4>3 DEF Told
    <3>4. OneTime!Redeem(r, v)
      BY <2>1, <3>1, <3>2, <3>3 DEF OneTime!Redeem
    <3> QED BY <3>1, <3>4 DEF OneTime!Next
  <2> QED BY <2>2, <2>3
<1>5. ASSUME NEW s \in late, LateStatement(s)
      PROVE  OneTime!Next \/ UNCHANGED <<owner, Told>>
  <2>1. UNCHANGED Told
    BY <1>5 DEF LateStatement, Told, Succeeded
  <2>2. CASE s.op = "insert"
    <3>1. PICK i \in Issuer : ask[i].vt = s.tok /\ ask[i].user = s.user
      BY <2>2 DEF IInv, OwnerInv
    <3>2. ask[i].vt \in VToken /\ ask[i].user \in User
      BY <3>1 DEF IInv, TypeOK, AskState, UseState
    <3>3. InsertRow(ask[i].vt, ask[i].user)
      BY <1>5, <2>2, <3>1 DEF LateStatement
    <3> QED BY <2>1, <3>2, <3>3, StoreRow
  <2>3. CASE s.op # "insert"
    BY <1>5, <2>1, <2>3 DEF LateStatement
  <2> QED BY <2>2, <2>3
<1>6. CASE Crash
  <2>1. owner' = owner
    BY <1>6 DEF Crash, rows
  <2>2. \A r \in Redeemer : \/ use'[r] = use[r]
                            \/ use[r].pc # "done" /\ use'[r].pc = "lost"
    BY <1>6 DEF Crash, Lose, IInv, TypeOK, AskState, UseState
  <2>3. UNCHANGED Told
    BY <2>2, TellNothing DEF Succeeded
  <2> QED BY <2>1, <2>3
<1>7. CASE Environment \/ UNCHANGED vars
  BY <1>7 DEF Environment, rows, vars, Told, Succeeded
<1> QED BY <1>1, <1>2, <1>3, <1>4, <1>5, <1>6, <1>7 DEF Next, Step, Serve

(* v_token, web_v_token and the table implement one-time tokens.           *)
THEOREM OneTimeRefinement == Spec => ImplementsOneTimeToken
<1> QED BY InitOneTime, StepOneTime, Invariance, PTL
        DEF Spec, ImplementsOneTimeToken, OneTime!Spec
=============================================================================
