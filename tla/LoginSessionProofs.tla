------------------------- MODULE LoginSessionProofs -------------------------
(***************************************************************************)
(* Proofs about LoginSession, for any sets of calls, names, users and      *)
(* tokens and any number of retries.                                       *)
(***************************************************************************)
EXTENDS LoginSession, FiniteSets, FiniteSetTheorems, TLAPS

\* The account a user was inserted with is the one the call presented.
OwnAccount(c) ==
  call[c].user \in User /\ account[call[c].user] = Presented(c)

\* What a call holds at each of its statements.
CallOK(c) ==
  /\ call[c].pc \in {"new", "look", "adduser"} => call[c].tok = None
  /\ call[c].pc # "new" => call[c].name \in Name /\ call[c].pass \in Pass
  /\ call[c].pc \in {"login", "addtoken"} => call[c].tok \in LToken
  /\ call[c].pc = "addtoken" => OwnAccount(c)
  /\ Done(c, 0) =>
       /\ call[c].tok \in LToken
       /\ \E u \in User : rows[call[c].tok][u] > 0 /\ account[u] = Presented(c)

CallInv == \A c \in Caller : CallOK(c)

\* A login token is drawn by one call.
DrawInv ==
  \A c, d \in Caller : call[c].tok = call[d].tok /\ call[c].tok # None => c = d

\* Users have accounts, and with a unique key on the name, distinct names.
AccountInv ==
  /\ \A u \in users : account[u] # None
  /\ UniqueNames =>
       \A u, w \in users : account[u].name = account[w].name => u = w

\* A late statement was sent by a call that had all that it stores.
LateOK(s) ==
  /\ call[s.call].pc # "new"
  /\ s.stmt # "user" => call[s.call].tok \in LToken
  /\ s.stmt = "token" => OwnAccount(s.call)

LateInv == IsFiniteSet(late) /\ \A s \in late : LateOK(s)

(* The INSERTs of a call into login_token: those that may still be         *)
(* executed late, and those it may still send.                             *)
Pending(c) == {s \in late : s.call = c /\ s.stmt # "user"}
Left(c) == IF call[c].pc = "login" THEN kMaxRetries + 1 - call[c].try
           ELSE IF call[c].pc = "addtoken" THEN 1 ELSE 0

Budget(c) ==
  call[c].tok \in LToken =>
    \A u \in User :
      rows[call[c].tok][u] + Cardinality(Pending(c)) + Left(c) <= kMaxRetries + 1

BudgetInv == \A c \in Caller : Budget(c)

IInv == /\ TypeOK /\ CallInv /\ DrawInv /\ AccountInv /\ LateInv
        /\ Authentic /\ BudgetInv

LEMMA InitIInv == Init => IInv
<1> SUFFICES ASSUME Init PROVE IInv
  OBVIOUS
<1> USE LoginAssumption
<1>1. TypeOK
  <2>1. [pc |-> "new", op |-> None, name |-> None, pass |-> None,
         form |-> "good", tok |-> None, user |-> None, try |-> 0,
         code |-> 0] \in CallState
    BY DEF CallState, Code
  <2> QED BY <2>1 DEF Init, TypeOK
<1>2. CallInv /\ DrawInv /\ AccountInv /\ Authentic
  BY DEF Init, CallInv, CallOK, Done, DrawInv, AccountInv, Authentic
<1>3. LateInv
  BY FS_EmptySet DEF Init, LateInv
<1>4. BudgetInv
  BY DEF Init, BudgetInv, Budget
<1> QED BY <1>1, <1>2, <1>3, <1>4 DEF IInv

-----------------------------------------------------------------------------
(* What every step leaves: accounts and rows stay, a call never forgets    *)
(* the name and the password it presented nor the token it drew.           *)
CallsKeep ==
  \A c \in Caller :
    /\ call[c].pc # "new" => /\ call'[c].pc # "new"
                             /\ call'[c].name = call[c].name
                             /\ call'[c].pass = call[c].pass
    /\ call[c].tok # None => /\ call'[c].tok = call[c].tok
                             /\ call'[c].user = call[c].user
TablesKeep ==
  /\ \A u \in User : account[u] # None => account'[u] = account[u]
  /\ \A t \in LToken, u \in User : rows[t][u] <= rows'[t][u]
Keeps == CallsKeep /\ TablesKeep

LEMMA HasAccount ==
  ASSUME IInv, Keeps, NEW c \in Caller, call[c].pc # "new",
         NEW u \in User, account[u] = Presented(c)
  PROVE  account'[u] = Presented(c)'
<1>1. account[u] # None
  BY LoginAssumption DEF IInv, CallInv, CallOK, Presented
<1>2. Presented(c)' = Presented(c)
  BY DEF Presented, Keeps, CallsKeep
<1> QED BY <1>1, <1>2 DEF Keeps, TablesKeep

LEMMA TokenMeansSent ==
  ASSUME IInv, NEW c \in Caller, call[c].tok \in LToken
  PROVE  call[c].pc # "new" /\ call[c].tok # None
BY LoginAssumption DEF IInv, CallInv, CallOK

LEMMA CallKept ==
  ASSUME IInv, TypeOK', Keeps, NEW c \in Caller, call'[c] = call[c]
  PROVE  CallOK(c)'
<1>1. CallOK(c)
  BY DEF IInv, CallInv
<1>2. OwnAccount(c) /\ call[c].pc # "new" => OwnAccount(c)'
  BY HasAccount DEF OwnAccount
<1>3. ASSUME Done(c, 0)
      PROVE  \E u \in User : /\ rows'[call[c].tok][u] > 0
                             /\ account'[u] = Presented(c)'
  <2>1. PICK u \in User : rows[call[c].tok][u] > 0 /\ account[u] = Presented(c)
    BY <1>1, <1>3 DEF CallOK
  <2>2. account'[u] = Presented(c)'
    BY <1>3, <2>1, HasAccount DEF Done
  <2>3. call[c].tok \in LToken
    BY <1>1, <1>3 DEF CallOK
  <2>4. /\ rows[call[c].tok][u] \in Nat /\ rows'[call[c].tok][u] \in Nat
        /\ rows[call[c].tok][u] <= rows'[call[c].tok][u]
    BY <2>3 DEF IInv, TypeOK, Keeps, TablesKeep
  <2>5. rows'[call[c].tok][u] > 0
    BY <2>1, <2>4
  <2> QED BY <2>2, <2>5
<1>4. Done(c, 0)' = Done(c, 0)
  BY DEF Done
<1> QED BY <1>1, <1>2, <1>3, <1>4 DEF CallOK

LEMMA LateKept ==
  ASSUME IInv, Keeps, NEW s \in late
  PROVE  LateOK(s)'
<1>1. LateOK(s) /\ s.call \in Caller
  BY DEF IInv, LateInv, TypeOK
<1>2. s.stmt # "user" => call'[s.call].tok = call[s.call].tok
                         /\ call'[s.call].user = call[s.call].user
  BY <1>1, TokenMeansSent DEF LateOK, Keeps, CallsKeep
<1>3. s.stmt = "token" => OwnAccount(s.call)'
  BY <1>1, <1>2, HasAccount DEF LateOK, OwnAccount
<1> QED BY <1>1, <1>2, <1>3 DEF LateOK, Keeps, CallsKeep

Owned(t, u) == \E c \in Caller : call[c].tok = t /\ account[u] = Presented(c)

LEMMA OwnedKept ==
  ASSUME IInv, Keeps, NEW t \in LToken, NEW u \in User, Owned(t, u)
  PROVE  Owned(t, u)'
<1>1. PICK c \in Caller : call[c].tok = t /\ account[u] = Presented(c)
  BY DEF Owned
<1>2. call'[c].tok = t
  BY <1>1, TokenMeansSent DEF Keeps, CallsKeep
<1>3. account'[u] = Presented(c)'
  BY <1>1, TokenMeansSent, HasAccount
<1> QED BY <1>2, <1>3 DEF Owned

-----------------------------------------------------------------------------
(* A step of one call, or a late statement of it, has to show only what it *)
(* does to that call, its token and the statement it adds.                 *)
OthersKept(c) ==
  \A d \in Caller \ {c} :
    /\ call'[d] = call[d]
    /\ Pending(d)' = Pending(d)
    /\ call[d].tok \in LToken => rows'[call[d].tok] = rows[call[d].tok]

LEMMA StepFrame ==
  ASSUME IInv, TypeOK', Keeps, NEW c \in Caller, OthersKept(c),
         CallOK(c)', AccountInv', IsFiniteSet(late'), Budget(c)',
         \A s \in late' \ late : LateOK(s)',
         call'[c].tok \in {call[c].tok} \cup Fresh \cup {None},
         \A t \in LToken, u \in User :
           rows'[t][u] > rows[t][u] => Owned(t, u)'
  PROVE  IInv'
<1>1. CallInv'
  BY CallKept DEF OthersKept, CallInv
<1>2. DrawInv'
  BY DEF IInv, DrawInv, OthersKept, Fresh
<1>3. LateInv'
  BY LateKept DEF LateInv
<1>4. Authentic'
  <2> SUFFICES ASSUME NEW t \in LToken, NEW u \in User, rows'[t][u] > 0
               PROVE  Owned(t, u)'
    BY DEF Authentic, Owned
  <2>1. rows[t][u] \in Nat /\ rows'[t][u] \in Nat
    BY DEF IInv, TypeOK
  <2>2. rows'[t][u] > rows[t][u] \/ rows[t][u] > 0
    BY <2>1
  <2>3. rows[t][u] > 0 => Owned(t, u)
    BY DEF IInv, Authentic, Owned
  <2> QED BY <2>2, <2>3, OwnedKept
<1>5. BudgetInv'
  <2>1. ASSUME NEW d \in Caller \ {c} PROVE Budget(d)'
    <3>1. Left(d)' = Left(d) /\ Pending(d)' = Pending(d) /\ Budget(d)
      BY DEF Left, OthersKept, IInv, BudgetInv
    <3> QED BY <3>1 DEF Budget, OthersKept
  <2> QED BY <2>1 DEF BudgetInv
<1> QED BY <1>1, <1>2, <1>3, <1>4, <1>5 DEF IInv

-----------------------------------------------------------------------------
(* Steps that send no statement, or one that fails for good.               *)
\* The part of Left that a state of a call determines.
LeftOf(r) == IF r.pc = "login" THEN kMaxRetries + 1 - r.try
             ELSE IF r.pc = "addtoken" THEN 1 ELSE 0

\* A state that follows the state of a call without a row stored.
Follows(c, n) ==
  /\ n \in CallState
  /\ n.pc # "new" /\ ~(n.pc = "done" /\ n.code = 0)
  /\ n.name \in Name /\ n.pass \in Pass
  /\ call[c].pc # "new" => n.name = call[c].name /\ n.pass = call[c].pass
  /\ n.pc \in {"look", "adduser"} => n.tok = None
  /\ n.pc \in {"login", "addtoken"} => n.tok \in LToken
  /\ \/ n.tok = call[c].tok /\ n.user = call[c].user
        /\ (n.tok # None => LeftOf(n) <= LeftOf(call[c]))
     \/ call[c].tok = None /\ n.tok \in Fresh \cup {None}

LEMMA LeftBound ==
  ASSUME IInv, NEW c \in Caller
  PROVE  Left(c) \in 0..(kMaxRetries + 1)
BY LoginAssumption DEF Left, IInv, TypeOK, CallState

LEMMA PendingFinite ==
  ASSUME IInv, NEW c \in Caller
  PROVE  IsFiniteSet(Pending(c)) /\ Cardinality(Pending(c)) \in Nat
<1>1. Pending(c) \subseteq late /\ IsFiniteSet(late)
  BY DEF Pending, IInv, LateInv
<1>2. IsFiniteSet(Pending(c))
  BY <1>1, FS_Subset
<1> QED BY <1>2, FS_CardinalityType

\* A call without a token has no row and no statement pending.
LEMMA FreshBudget ==
  ASSUME IInv, NEW c \in Caller, call[c].tok = None, NEW t \in Fresh
  PROVE  Pending(c) = {} /\ \A u \in User : rows[t][u] = 0
<1>1. \A s \in late : s.call = c => s.stmt = "user"
  BY LoginAssumption DEF IInv, LateInv, LateOK
<1>2. \A u \in User : rows[t][u] \in Nat /\ ~(rows[t][u] > 0)
  BY DEF Fresh, IInv, TypeOK, Authentic
<1> QED BY <1>1, <1>2 DEF Pending

LEMMA LocalStep ==
  ASSUME IInv, NEW c \in Caller, NEW n, Follows(c, n),
         n.pc = "addtoken" => /\ n.user \in User
                              /\ account'[n.user] = [name |-> n.name, pass |-> n.pass],
         call' = [call EXCEPT ![c] = n],
         UNCHANGED <<rows, late, admins>>, TypeOK', AccountInv',
         \A u \in User : account[u] # None => account'[u] = account[u]
  PROVE  IInv'
<1>0. n.tok \in LToken \cup {None} /\ n.try \in 0..kMaxRetries
  BY DEF Follows, CallState
<1>1. call'[c] = n /\ \A d \in Caller \ {c} : call'[d] = call[d]
  BY DEF IInv, TypeOK
<1>2. CallsKeep
  BY <1>1, LoginAssumption DEF CallsKeep, Follows, IInv, CallInv, CallOK
<1>3. TablesKeep
  BY DEF TablesKeep, IInv, TypeOK
<1>4. Pending(c)' = Pending(c) /\ OthersKept(c)
  BY <1>1 DEF OthersKept, Pending
<1>5. CallOK(c)'
  BY <1>1 DEF CallOK, Follows, OwnAccount, Presented, Done
<1>6. Budget(c)'
  <2> SUFFICES ASSUME n.tok \in LToken, NEW u \in User
               PROVE  rows[n.tok][u] + Cardinality(Pending(c)) + LeftOf(n)
                        <= kMaxRetries + 1
    BY <1>1, <1>4 DEF Budget, Left, LeftOf
  <2>1. CASE n.tok = call[c].tok
    <3>1. LeftOf(n) <= Left(c) /\ LeftOf(n) \in Nat /\ Left(c) \in Nat
      BY <1>0, <2>1, LoginAssumption, LeftBound DEF Follows, LeftOf, Left
    <3>2. rows[n.tok][u] + Cardinality(Pending(c)) + Left(c) <= kMaxRetries + 1
      BY <2>1 DEF IInv, BudgetInv, Budget
    <3>3. rows[n.tok][u] \in Nat /\ Cardinality(Pending(c)) \in Nat
      BY PendingFinite DEF IInv, TypeOK
    <3> QED BY <3>1, <3>2, <3>3, LoginAssumption
  <2>2. CASE call[c].tok = None /\ n.tok \in Fresh
    <3>1. Pending(c) = {} /\ rows[n.tok][u] = 0
      BY <2>2, FreshBudget
    <3>2. LeftOf(n) <= kMaxRetries + 1 /\ LeftOf(n) \in Nat
      BY <1>0, LoginAssumption DEF LeftOf
    <3> QED BY <3>1, <3>2, FS_EmptySet, LoginAssumption
  <2> QED BY <2>1, <2>2, LoginAssumption DEF Follows
<1>7. /\ call'[c].tok \in {call[c].tok} \cup Fresh \cup {None}
      /\ IsFiniteSet(late') /\ late' \ late = {}
  BY <1>1 DEF Follows, IInv, LateInv
<1>8. \A t \in LToken, u \in User : ~(rows'[t][u] > rows[t][u])
  BY DEF IInv, TypeOK
<1> QED BY <1>2, <1>3, <1>4, <1>5, <1>6, <1>7, <1>8, StepFrame DEF Keeps

\* An answer that stores no row.
LEMMA AnswerFollows ==
  ASSUME IInv, NEW c \in Caller, call[c].pc # "new", NEW e \in Code \ {0},
         Answer(c, e)
  PROVE  \E n : /\ Follows(c, n) /\ n.pc = "done"
                /\ call' = [call EXCEPT ![c] = n]
<1> DEFINE n == [call[c] EXCEPT !.pc = "done", !.code = e]
<1>1. call' = [call EXCEPT ![c] = n]
  BY DEF Answer
<1>2. /\ n \in CallState /\ n.pc = "done" /\ n.code = e /\ n.tok = call[c].tok
      /\ n.user = call[c].user /\ n.name = call[c].name /\ n.pass = call[c].pass
  BY ZenonT(30) DEF IInv, TypeOK, CallState
<1> HIDE DEF n
<1>3. LeftOf(n) <= LeftOf(call[c])
  BY <1>2, LeftBound, LoginAssumption DEF LeftOf, Left
<1>4. Follows(c, n)
  BY <1>2, <1>3 DEF Follows, IInv, CallInv, CallOK
<1> QED BY <1>1, <1>2, <1>4

LEMMA AnswerStep ==
  ASSUME IInv, NEW c \in Caller, call[c].pc # "new", NEW e \in Code \ {0},
         Answer(c, e), UNCHANGED <<tables, admins, late>>
  PROVE  IInv'
<1>1. PICK n : Follows(c, n) /\ n.pc = "done" /\ call' = [call EXCEPT ![c] = n]
  BY AnswerFollows
<1>2. UNCHANGED <<users, account, rows, admins, late>>
  BY DEF tables
<1>3. TypeOK' /\ AccountInv'
  BY <1>1, <1>2 DEF Follows, IInv, TypeOK, AccountInv
<1> QED BY <1>1, <1>2, <1>3, LocalStep

LEMMA RejectionCode ==
  ASSUME NEW form \in Form, form # "good"
  PROVE  Rejection[form] \in Code \ {0}
BY LoginAssumption DEF Rejection, Code

\* A call is accepted, or refused before any statement.
LEMMA RequestStep ==
  ASSUME IInv, NEW c \in Caller, NEW p \in Credentials, NEW form \in Form,
         Log(c, p, form) \/ Adlog(c, p, form) \/ Reg(c, p, form)
  PROVE  IInv'
<1>1. /\ UNCHANGED <<users, account, rows, admins, late>>
      /\ call[c] \in CallState /\ call[c].pc = "new" /\ call[c].tok = None
      /\ p.name \in Name /\ p.pass \in Pass
  BY DEF Log, Adlog, Reg, tables, IInv, TypeOK, CallInv, CallOK, Credentials
<1>2. PICK op \in {"log", "adlog", "reg"} :
        \/ form # "good" /\ Reject(c, op, p, form)
        \/ \E t \in Fresh : Request(c, op, p, form, "login", t)
        \/ Request(c, op, p, form, "look", None)
  BY DEF Log, Adlog, Reg
<1>3. \E n : Follows(c, n) /\ n.pc # "addtoken" /\ call' = [call EXCEPT ![c] = n]
  <2>1. CASE form # "good" /\ Reject(c, op, p, form)
    <3> DEFINE e == Rejection[form]
               n == [call[c] EXCEPT !.op = op, !.name = p.name, !.pass = p.pass,
                                    !.form = form, !.pc = "done", !.code = e]
    <3>1. call' = [call EXCEPT ![c] = n]
      BY <2>1 DEF Reject
    <3>2. e \in Code \ {0}
      BY <2>1, RejectionCode
    <3> HIDE DEF e
    <3>3. n \in CallState
      BY <1>1, <3>2 DEF CallState
    <3>4. /\ n.pc = "done" /\ n.code = e /\ n.tok = None
          /\ n.name = p.name /\ n.pass = p.pass
      BY <1>1 DEF CallState
    <3> HIDE DEF n
    <3>5. Follows(c, n)
      BY <1>1, <3>2, <3>3, <3>4 DEF Follows
    <3> QED BY <3>1, <3>4, <3>5
  <2>2. ASSUME NEW pc \in {"login", "look"}, NEW t \in LToken \cup {None},
               Request(c, op, p, form, pc, t),
               IF pc = "login" THEN t \in Fresh ELSE t = None
        PROVE  \E n : /\ Follows(c, n) /\ n.pc # "addtoken"
                      /\ call' = [call EXCEPT ![c] = n]
    <3> DEFINE n == [call[c] EXCEPT !.op = op, !.name = p.name, !.pass = p.pass,
                                    !.form = form, !.pc = pc, !.tok = t]
    <3>1. call' = [call EXCEPT ![c] = n]
      BY <2>2 DEF Request
    <3>2. n \in CallState
      BY ZenonT(30), <1>1 DEF CallState
    <3>3. /\ n.pc = pc /\ n.tok = t
          /\ n.name = p.name /\ n.pass = p.pass
      BY <1>1 DEF CallState
    <3> HIDE DEF n
    <3>4. Follows(c, n)
      BY <1>1, <2>2, <3>2, <3>3, LoginAssumption DEF Follows, Fresh
    <3> QED BY <3>1, <3>3, <3>4
  <2>3. CASE \E t \in Fresh : Request(c, op, p, form, "login", t)
    BY <2>2, <2>3 DEF Fresh
  <2>4. CASE Request(c, op, p, form, "look", None)
    BY <2>2, <2>4
  <2> QED BY <1>2, <2>1, <2>3, <2>4
<1>4. PICK n : Follows(c, n) /\ n.pc # "addtoken" /\ call' = [call EXCEPT ![c] = n]
  BY <1>3
<1>5. TypeOK' /\ AccountInv'
  BY <1>1, <1>4 DEF Follows, IInv, TypeOK, AccountInv
<1> QED BY <1>1, <1>4, <1>5, LocalStep

\* nickname_user, and what follows it.
LEMMA RegLookStep ==
  ASSUME IInv, NEW c \in Caller, RegLook(c)
  PROVE  IInv'
<1>1. /\ UNCHANGED <<tables, admins, late>>
      /\ call[c] \in CallState /\ call[c].pc = "look"
      /\ call[c].tok = None
  BY DEF RegLook, IInv, TypeOK, CallInv, CallOK
<1>2. CASE \E e \in Code \ {0} : Answer(c, e)
  BY <1>1, <1>2, AnswerStep
<1>3. CASE call' = [call EXCEPT ![c].pc = "adduser"]
  <2> DEFINE n == [call[c] EXCEPT !.pc = "adduser"]
  <2>1. call' = [call EXCEPT ![c] = n]
    BY <1>3
  <2>2. /\ n \in CallState /\ n.pc = "adduser" /\ n.tok = None
        /\ n.name = call[c].name /\ n.pass = call[c].pass /\ n.user = call[c].user
    BY <1>1 DEF CallState
  <2> HIDE DEF n
  <2>3. Follows(c, n)
    BY <1>1, <2>2 DEF Follows, IInv, CallInv, CallOK
  <2>4. UNCHANGED <<users, account, rows, admins, late>>
    BY <1>1 DEF tables
  <2>5. TypeOK' /\ AccountInv'
    BY <2>1, <2>2, <2>4 DEF IInv, TypeOK, AccountInv
  <2> QED BY <2>1, <2>2, <2>3, <2>4, <2>5, LocalStep
<1>4. (\E e \in Code \ {0} : Answer(c, e)) \/ call' = [call EXCEPT ![c].pc = "adduser"]
  <2>1. 1 \in Code \ {0} /\ 500 \in Code \ {0}
    BY DEF Code
  <2>2. call[c].form # "good" => Rejection[call[c].form] \in Code \ {0}
    <3>1. call[c].form \in Form
      BY <1>1 DEF CallState
    <3> QED BY <3>1, RejectionCode
  <2> QED BY <2>1, <2>2 DEF RegLook
<1> QED BY <1>2, <1>3, <1>4

\* A token is drawn for a user with an account that was presented.
LEMMA DrawFollows ==
  ASSUME IInv, NEW c \in Caller, call[c].pc \in {"look", "adduser"},
         NEW u \in User, NEW t \in Fresh,
         call' = [call EXCEPT ![c].pc = "addtoken", ![c].user = u, ![c].tok = t]
  PROVE  \E n : /\ Follows(c, n) /\ call' = [call EXCEPT ![c] = n]
                /\ n.user = u /\ n.name = call[c].name /\ n.pass = call[c].pass
<1>1. /\ call[c] \in CallState /\ call[c].tok = None /\ call[c].pc # "new"
      /\ call[c].name \in Name /\ call[c].pass \in Pass
      /\ t \in LToken
  BY DEF IInv, TypeOK, CallInv, CallOK, Fresh
<1> DEFINE n == [call[c] EXCEPT !.pc = "addtoken", !.user = u, !.tok = t]
<1>2. call' = [call EXCEPT ![c] = n]
  OBVIOUS
<1>3. /\ n \in CallState /\ n.pc = "addtoken" /\ n.tok = t /\ n.user = u
      /\ n.name = call[c].name /\ n.pass = call[c].pass
  BY <1>1 DEF CallState
<1> HIDE DEF n
<1>4. Follows(c, n)
  BY <1>1, <1>3 DEF Follows
<1> QED BY <1>2, <1>3, <1>4

LEMMA AdLookStep ==
  ASSUME IInv, NEW c \in Caller, AdLook(c)
  PROVE  IInv'
<1>1. /\ UNCHANGED <<tables, admins, late>>
      /\ call[c] \in CallState /\ call[c].pc = "look"
  BY DEF AdLook, IInv, TypeOK
<1>2. CASE \E e \in Code \ {0} : Answer(c, e)
  BY <1>1, <1>2, AnswerStep
<1>3. ASSUME NEW u \in Named(call[c].name), NEW t \in Fresh, Admitted(c, u),
             call' = [call EXCEPT ![c].pc = "addtoken", ![c].user = u,
                                  ![c].tok = t]
      PROVE  IInv'
  <2>1. u \in users /\ u \in User /\ account[u].name = call[c].name
    BY <1>3 DEF Named, IInv, TypeOK
  <2>2. account[u] = [name |-> call[c].name, pass |-> call[c].pass]
    <3>1. account[u] \in Credentials
      BY <2>1 DEF IInv, AccountInv, TypeOK
    <3> QED BY <1>3, <2>1, <3>1 DEF Admitted, Credentials
  <2>3. PICK n : /\ Follows(c, n) /\ call' = [call EXCEPT ![c] = n]
                 /\ n.user = u /\ n.name = call[c].name /\ n.pass = call[c].pass
    BY <1>1, <1>3, <2>1, DrawFollows
  <2>4. UNCHANGED <<users, account, rows, admins, late>>
    BY <1>1 DEF tables
  <2>5. TypeOK' /\ AccountInv'
    BY <2>3, <2>4 DEF Follows, IInv, TypeOK, AccountInv
  <2> QED BY <2>1, <2>2, <2>3, <2>4, <2>5, LocalStep
<1>4. \/ \E e \in Code \ {0} : Answer(c, e)
      \/ \E u \in Named(call[c].name), t \in Fresh :
           /\ Admitted(c, u)
           /\ call' = [call EXCEPT ![c].pc = "addtoken", ![c].user = u,
                                   ![c].tok = t]
  <2>1. 6 \in Code \ {0} /\ 7 \in Code \ {0} /\ 500 \in Code \ {0}
    BY DEF Code
  <2> QED BY <2>1 DEF AdLook
<1> QED BY <1>2, <1>3, <1>4

-----------------------------------------------------------------------------
(* Statements that store a row, and statements postponed.                  *)
\* The INSERT into login_token of a call that has its token.
LEMMA StoreRows ==
  ASSUME IInv, NEW t \in LToken, NEW us \in SUBSET User, Store(t, us)
  PROVE  /\ rows' \in [LToken -> [User -> Nat]]
         /\ \A u \in User : /\ u \in us => rows'[t][u] = rows[t][u] + 1
                            /\ u \notin us => rows'[t][u] = rows[t][u]
         /\ \A v \in LToken \ {t} : rows'[v] = rows[v]
BY DEF Store, IInv, TypeOK

\* A statement that fails and may be executed late.
LEMMA PostponeLate ==
  ASSUME IInv, NEW c \in Caller, NEW stmt \in {"login", "token", "user"},
         Postpone(c, stmt)
  PROVE  /\ late' \subseteq [call : Caller, try : 0..kMaxRetries,
                             stmt : {"login", "user", "token"}]
         /\ IsFiniteSet(late')
         /\ \A s \in late' \ late : s.call = c /\ s.stmt = stmt
         /\ \A d \in Caller \ {c} : Pending(d)' = Pending(d)
         /\ stmt = "user" => Pending(c)' = Pending(c)
         /\ Cardinality(Pending(c)') <= Cardinality(Pending(c)) + 1
         /\ Cardinality(Pending(c)') \in Nat
<1> DEFINE s == [call |-> c, try |-> call[c].try, stmt |-> stmt]
<1>1. late' = late \cup {s} /\ s.call = c /\ s.stmt = stmt
  BY DEF Postpone
<1>2. s \in [call : Caller, try : 0..kMaxRetries, stmt : {"login", "user", "token"}]
  BY DEF IInv, TypeOK, CallState
<1> HIDE DEF s
<1>3. IsFiniteSet(late')
  BY <1>1, FS_AddElement DEF IInv, LateInv
<1>4. \A d \in Caller \ {c} : Pending(d)' = Pending(d)
  BY <1>1 DEF Pending
<1>5. Pending(c)' = IF stmt = "user" THEN Pending(c) ELSE Pending(c) \cup {s}
  BY <1>1 DEF Pending
<1>6. IsFiniteSet(Pending(c)) /\ Cardinality(Pending(c)) \in Nat
  BY PendingFinite
<1>7. /\ Cardinality(Pending(c) \cup {s}) <= Cardinality(Pending(c)) + 1
      /\ Cardinality(Pending(c) \cup {s}) \in Nat
  BY <1>6, FS_AddElement
<1>8. /\ Cardinality(Pending(c)') <= Cardinality(Pending(c)) + 1
      /\ Cardinality(Pending(c)') \in Nat
  BY <1>5, <1>6, <1>7
<1> QED BY <1>1, <1>2, <1>3, <1>4, <1>5, <1>8 DEF IInv, TypeOK

\* A call that has its token sends its INSERT, which stores rows for users
\* with the account presented, and is answered.
LEMMA StoreStep ==
  ASSUME IInv, NEW c \in Caller, call[c].pc \in {"login", "addtoken"},
         NEW us \in SUBSET User, \A u \in us : account[u] = Presented(c),
         Store(call[c].tok, us), NEW e \in Code, e = 0 => us # {},
         Answer(c, e), UNCHANGED <<users, account, admins, late>>
  PROVE  IInv'
<1> DEFINE t == call[c].tok
           n == [call[c] EXCEPT !.pc = "done", !.code = e]
<1>1. call' = [call EXCEPT ![c] = n]
  BY DEF Answer
<1>2. /\ n \in CallState /\ n.pc = "done" /\ n.code = e /\ n.tok = t
      /\ n.user = call[c].user /\ n.name = call[c].name /\ n.pass = call[c].pass
  BY ZenonT(30) DEF IInv, TypeOK, CallState
<1>3. t \in LToken /\ call[c].name \in Name /\ call[c].pass \in Pass
  BY DEF IInv, CallInv, CallOK
<1> HIDE DEF n, t
<1>4. /\ rows' \in [LToken -> [User -> Nat]]
      /\ \A u \in User : /\ u \in us => rows'[t][u] = rows[t][u] + 1
                         /\ u \notin us => rows'[t][u] = rows[t][u]
      /\ \A v \in LToken \ {t} : rows'[v] = rows[v]
  BY <1>3, StoreRows DEF t
<1>5. call'[c] = n /\ \A d \in Caller \ {c} : call'[d] = call[d]
  BY <1>1 DEF IInv, TypeOK
<1>6. rows \in [LToken -> [User -> Nat]]
  BY DEF IInv, TypeOK
<1>7. TypeOK' /\ AccountInv'
  BY <1>1, <1>2, <1>4 DEF IInv, TypeOK, AccountInv
<1>8. CallsKeep
  BY <1>2, <1>5 DEF CallsKeep, t
<1>9. TablesKeep
  <2>1. \A v \in LToken, u \in User : rows[v][u] <= rows'[v][u]
    <3> TAKE v \in LToken, u \in User
    <3>1. rows[v][u] \in Nat
      BY <1>6
    <3> QED BY <1>3, <1>4, <3>1
  <2> QED BY <2>1 DEF TablesKeep
<1>10. OthersKept(c)
  <2>1. \A d \in Caller \ {c} : call[d].tok \in LToken => call[d].tok # t
    BY <1>3, LoginAssumption DEF IInv, DrawInv, t
  <2> QED BY <1>4, <1>5, <2>1 DEF OthersKept, Pending
<1>11. Presented(c)' = Presented(c)
  BY <1>2, <1>5 DEF Presented
<1>12. CallOK(c)'
  <2>1. e = 0 => \E u \in User : rows'[t][u] > 0 /\ account[u] = Presented(c)
    <3> SUFFICES ASSUME e = 0
                 PROVE \E u \in User : rows'[t][u] > 0 /\ account[u] = Presented(c)
      OBVIOUS
    <3>1. PICK u \in us : account[u] = Presented(c)
      OBVIOUS
    <3>2. rows[t][u] \in Nat /\ rows'[t][u] = rows[t][u] + 1
      BY <1>3, <1>4, <1>6
    <3> QED BY <3>1, <3>2
  <2>2. Done(c, 0)' => e = 0
    BY <1>2, <1>5 DEF Done
  <2> QED BY <1>2, <1>3, <1>5, <1>11, <2>1, <2>2 DEF CallOK
<1>13. Budget(c)'
  <2>1. Left(c)' = 0 /\ Pending(c)' = Pending(c)
    BY <1>2, <1>5 DEF Left, Pending
  <2>2. ASSUME NEW u \in User
        PROVE  rows'[t][u] + Cardinality(Pending(c)) <= kMaxRetries + 1
    <3>1. Left(c) \in Nat /\ Left(c) >= 1
      BY LoginAssumption DEF Left, IInv, TypeOK, CallState
    <3>2. rows[t][u] + Cardinality(Pending(c)) + Left(c) <= kMaxRetries + 1
      BY <1>3 DEF IInv, BudgetInv, Budget, t
    <3>3. rows[t][u] \in Nat /\ rows'[t][u] <= rows[t][u] + 1 /\ rows'[t][u] \in Nat
      BY <1>3, <1>4, <1>6
    <3>4. Cardinality(Pending(c)) \in Nat
      BY PendingFinite
    <3> QED BY <3>1, <3>2, <3>3, <3>4, LoginAssumption
  <2>3. \A u \in User : rows'[t][u] + Cardinality(Pending(c)) + 0 <= kMaxRetries + 1
    <3> TAKE u \in User
    <3>1. rows'[t][u] \in Nat /\ Cardinality(Pending(c)) \in Nat
      BY <1>3, <1>4, PendingFinite
    <3> QED BY <2>2, <3>1
  <2> QED BY <1>2, <1>5, <2>1, <2>3 DEF Budget
<1>14. \A v \in LToken, u \in User : rows'[v][u] > rows[v][u] => Owned(v, u)'
  <2> SUFFICES ASSUME NEW v \in LToken, NEW u \in User, rows'[v][u] > rows[v][u]
               PROVE  Owned(v, u)'
    OBVIOUS
  <2>1. v = t /\ u \in us
    BY <1>4, <1>6
  <2>2. account'[u] = Presented(c)' /\ call'[c].tok = t
    BY <1>2, <1>5, <1>11, <2>1
  <2> QED BY <2>1, <2>2 DEF Owned
<1>15. /\ call'[c].tok \in {call[c].tok} \cup Fresh \cup {None}
       /\ IsFiniteSet(late') /\ late' \ late = {}
  BY <1>2, <1>5 DEF IInv, LateInv, t
<1> QED BY <1>7, <1>8, <1>9, <1>10, <1>12, <1>13, <1>14, <1>15, StepFrame
        DEF Keeps

LEMMA MatchingAccounts ==
  ASSUME IInv, NEW c \in Caller
  PROVE  /\ Matching(Presented(c)) \in SUBSET User
         /\ \A u \in Matching(Presented(c)) : account[u] = Presented(c)
BY DEF Matching, IInv, TypeOK

\* A statement into login_token fails and may be executed late.
LEMMA PostponeStep ==
  ASSUME IInv, NEW c \in Caller, NEW stmt \in {"login", "token"},
         call[c].pc = IF stmt = "login" THEN "login" ELSE "addtoken",
         Postpone(c, stmt), NEW n, Follows(c, n),
         n.tok = call[c].tok, n.user = call[c].user,
         n.pc # "addtoken", LeftOf(n) + 1 <= Left(c),
         call' = [call EXCEPT ![c] = n],
         UNCHANGED <<users, account, admins, rows>>
  PROVE  IInv'
<1>1. call'[c] = n /\ \A d \in Caller \ {c} : call'[d] = call[d]
  BY DEF IInv, TypeOK
<1>2. /\ late' \subseteq [call : Caller, try : 0..kMaxRetries,
                          stmt : {"login", "user", "token"}]
      /\ IsFiniteSet(late')
      /\ \A s \in late' \ late : s.call = c /\ s.stmt = stmt
      /\ \A d \in Caller \ {c} : Pending(d)' = Pending(d)
      /\ Cardinality(Pending(c)') <= Cardinality(Pending(c)) + 1
      /\ Cardinality(Pending(c)') \in Nat
  BY PostponeLate
<1>3. call[c].pc # "new" /\ call[c].tok \in LToken
  BY DEF IInv, CallInv, CallOK
<1>4. TypeOK' /\ AccountInv'
  BY <1>2 DEF Follows, IInv, TypeOK, AccountInv
<1>5. CallsKeep
  BY <1>1, <1>3 DEF CallsKeep, Follows
<1>6. TablesKeep
  BY DEF TablesKeep, IInv, TypeOK
<1>7. OthersKept(c)
  BY <1>1, <1>2 DEF OthersKept
<1>8. CallOK(c)'
  BY <1>1 DEF CallOK, Follows, Done
<1>9. Budget(c)'
  <2> SUFFICES ASSUME NEW u \in User
               PROVE  rows[call[c].tok][u] + Cardinality(Pending(c)') + LeftOf(n)
                        <= kMaxRetries + 1
    BY <1>1 DEF Budget, Left, LeftOf
  <2>1. rows[call[c].tok][u] + Cardinality(Pending(c)) + Left(c) <= kMaxRetries + 1
    BY <1>3 DEF IInv, BudgetInv, Budget
  <2>2. rows[call[c].tok][u] \in Nat /\ Cardinality(Pending(c)) \in Nat
    BY <1>3, PendingFinite DEF IInv, TypeOK
  <2>3. n \in CallState
    BY DEF Follows
  <2>4. LeftOf(n) \in Nat /\ Left(c) \in Nat
    BY <2>3, LeftBound, LoginAssumption DEF LeftOf, CallState
  <2> QED BY <1>2, <2>1, <2>2, <2>4, LoginAssumption
<1>10. \A s \in late' \ late : LateOK(s)'
  <2>1. stmt = "token" => OwnAccount(c)
    BY DEF IInv, CallInv, CallOK
  <2>2. stmt = "token" => OwnAccount(c)'
    BY <1>1, <2>1 DEF OwnAccount, Presented, Follows
  <2> QED BY <1>1, <1>2, <1>3, <2>2 DEF LateOK, Follows
<1>11. /\ call'[c].tok \in {call[c].tok} \cup Fresh \cup {None}
       /\ \A t \in LToken, u \in User : ~(rows'[t][u] > rows[t][u])
  BY <1>1 DEF IInv, TypeOK
<1> QED BY <1>2, <1>4, <1>5, <1>6, <1>7, <1>8, <1>9, <1>10, <1>11, StepFrame
        DEF Keeps

LEMMA LoginOnceStep ==
  ASSUME IInv, NEW c \in Caller, LoginOnce(c)
  PROVE  IInv'
<1>1. /\ UNCHANGED <<users, account, admins>>
      /\ call[c] \in CallState /\ call[c].pc = "login"
      /\ call[c].tok \in LToken
  BY DEF LoginOnce, IInv, TypeOK, CallInv, CallOK
<1>2. CASE /\ Store(call[c].tok, Matching(Presented(c)))
           /\ Answer(c, LoginCode(Matching(Presented(c))))
           /\ UNCHANGED late
  <2>1. LoginCode(Matching(Presented(c))) \in Code
    BY DEF LoginCode, Code
  <2>2. LoginCode(Matching(Presented(c))) = 0 => Matching(Presented(c)) # {}
    BY DEF LoginCode
  <2> QED BY <1>1, <1>2, <2>1, <2>2, MatchingAccounts, StoreStep
<1>3. CASE Postpone(c, "login") /\ Retry(c) /\ UNCHANGED rows
  <2>1. CASE call[c].try < kMaxRetries
    <3> DEFINE n == [call[c] EXCEPT !.try = @ + 1]
    <3>1. call' = [call EXCEPT ![c] = n]
      BY <1>3, <2>1 DEF Retry
    <3>2. call[c].try + 1 \in 0..kMaxRetries /\ call[c].try \in Nat
      BY <1>1, <2>1, LoginAssumption DEF CallState
    <3>3. /\ n \in CallState /\ n.pc = "login" /\ n.tok = call[c].tok
          /\ n.user = call[c].user /\ n.name = call[c].name
          /\ n.pass = call[c].pass /\ n.try = call[c].try + 1
      BY <1>1, <3>2 DEF CallState
    <3> HIDE DEF n
    <3>4. LeftOf(n) + 1 <= Left(c) /\ LeftOf(n) <= LeftOf(call[c])
      BY <1>1, <3>2, <3>3, LoginAssumption DEF LeftOf, Left
    <3>5. Follows(c, n)
      BY <1>1, <3>3, <3>4 DEF Follows, IInv, CallInv, CallOK
    <3> QED BY <1>1, <1>3, <3>1, <3>3, <3>4, <3>5, PostponeStep
  <2>2. CASE ~(call[c].try < kMaxRetries)
    <3> DEFINE n == [call[c] EXCEPT !.pc = "done", !.code = 5]
    <3>1. call' = [call EXCEPT ![c] = n]
      BY <1>3, <2>2 DEF Retry, Answer
    <3>2. 5 \in Code
      BY DEF Code
    <3>3. /\ n \in CallState /\ n.pc = "done" /\ n.code = 5 /\ n.tok = call[c].tok
          /\ n.user = call[c].user /\ n.name = call[c].name
          /\ n.pass = call[c].pass
      BY <1>1, <3>2 DEF CallState
    <3> HIDE DEF n
    <3>4. LeftOf(n) + 1 <= Left(c) /\ LeftOf(n) <= LeftOf(call[c])
      BY <1>1, <3>3, LoginAssumption DEF LeftOf, Left, CallState
    <3>5. Follows(c, n)
      BY <1>1, <3>3, <3>4 DEF Follows, IInv, CallInv, CallOK
    <3> QED BY <1>1, <1>3, <3>1, <3>3, <3>4, <3>5, PostponeStep
  <2> QED BY <2>1, <2>2
<1>4. CASE Answer(c, 5) /\ UNCHANGED <<rows, late>>
  BY <1>1, <1>4, AnswerStep DEF Code, tables
<1> QED BY <1>2, <1>3, <1>4 DEF LoginOnce

LEMMA AddTokenStep ==
  ASSUME IInv, NEW c \in Caller, AddToken(c)
  PROVE  IInv'
<1>1. /\ UNCHANGED <<users, account, admins>>
      /\ call[c] \in CallState /\ call[c].pc = "addtoken"
      /\ call[c].tok \in LToken /\ OwnAccount(c)
  BY DEF AddToken, IInv, TypeOK, CallInv, CallOK
<1>2. CASE Store(call[c].tok, {call[c].user}) /\ Answer(c, 0) /\ UNCHANGED late
  <2>1. /\ {call[c].user} \in SUBSET User /\ {call[c].user} # {}
        /\ \A u \in {call[c].user} : account[u] = Presented(c)
    BY <1>1 DEF OwnAccount
  <2>2. 0 \in Code
    BY DEF Code
  <2> QED BY <1>1, <1>2, <2>1, <2>2, StoreStep
<1>3. CASE Postpone(c, "token") /\ Answer(c, 5) /\ UNCHANGED rows
  <2>1. PICK n : Follows(c, n) /\ n.pc = "done" /\ call' = [call EXCEPT ![c] = n]
    BY <1>1, <1>3, AnswerFollows DEF Code
  <2>2. n.tok = call[c].tok /\ n.user = call[c].user
    BY <1>1, <2>1, LoginAssumption DEF Follows
  <2>3. LeftOf(n) + 1 <= Left(c)
    BY <1>1, <2>1 DEF LeftOf, Left
  <2> QED BY <1>1, <1>3, <2>1, <2>2, <2>3, PostponeStep
<1> QED BY <1>2, <1>3 DEF AddToken

-----------------------------------------------------------------------------
(* INSERT INTO user.                                                       *)
LEMMA InsertAccount ==
  ASSUME IInv, NEW u \in User, NEW p \in Credentials, KeyFree(p.name),
         InsertUser(u, p)
  PROVE  /\ users' \subseteq User /\ users \subseteq users'
         /\ account' \in [User -> Credentials \cup {None}]
         /\ account'[u] = p
         /\ AccountInv'
         /\ \A v \in User : account[v] # None => account'[v] = account[v]
<1>1. /\ users \subseteq User /\ account \in [User -> Credentials \cup {None}]
      /\ u \notin users /\ account[u] = None
      /\ users' = users \cup {u} /\ account' = [account EXCEPT ![u] = p]
  BY DEF IInv, TypeOK, AccountInv, InsertUser
<1>2. p # None
  BY LoginAssumption DEF Credentials
<1>3. /\ account'[u] = p
      /\ \A v \in User \ {u} : account'[v] = account[v]
  BY <1>1
<1>4. UniqueNames => \A v \in users : account[v].name # p.name
  BY DEF KeyFree, Named
<1>5. AccountInv'
  <2>1. \A v \in users' : account'[v] # None
    BY <1>1, <1>2, <1>3 DEF IInv, AccountInv
  <2>2. ASSUME UniqueNames, NEW v \in users', NEW w \in users',
               account'[v].name = account'[w].name
        PROVE  v = w
    BY <1>1, <1>3, <1>4, <2>2 DEF IInv, AccountInv
  <2> QED BY <2>1, <2>2 DEF AccountInv
<1> QED BY <1>1, <1>3, <1>5

LEMMA PresentedIsLegal ==
  ASSUME IInv, NEW c \in Caller, call[c].pc # "new"
  PROVE  Presented(c) \in Credentials /\ Presented(c).name = call[c].name
BY DEF Presented, Credentials, IInv, CallInv, CallOK

LEMMA AddUserStep ==
  ASSUME IInv, NEW c \in Caller, AddUser(c)
  PROVE  IInv'
<1>1. /\ UNCHANGED <<rows, admins>>
      /\ call[c] \in CallState /\ call[c].pc = "adduser" /\ call[c].tok = None
      /\ Presented(c) \in Credentials /\ Presented(c).name = call[c].name
  BY PresentedIsLegal DEF AddUser, IInv, TypeOK, CallInv, CallOK
<1>2. ASSUME NEW u \in User, NEW t \in Fresh, KeyFree(call[c].name),
             InsertUser(u, Presented(c)),
             call' = [call EXCEPT ![c].pc = "addtoken", ![c].user = u,
                                  ![c].tok = t],
             UNCHANGED late
      PROVE  IInv'
  <2>1. PICK n : /\ Follows(c, n) /\ call' = [call EXCEPT ![c] = n]
                 /\ n.user = u /\ n.name = call[c].name /\ n.pass = call[c].pass
    BY <1>1, <1>2, DrawFollows
  <2>2. /\ users' \subseteq User /\ users \subseteq users'
        /\ account' \in [User -> Credentials \cup {None}]
        /\ account'[u] = Presented(c)
        /\ AccountInv'
        /\ \A v \in User : account[v] # None => account'[v] = account[v]
    BY <1>1, <1>2, InsertAccount
  <2>3. TypeOK'
    <3>1. call' \in [Caller -> CallState]
      BY <2>1 DEF Follows, IInv, TypeOK
    <3>2. admins' \subseteq users' /\ UNCHANGED <<rows, late>>
      BY <1>1, <1>2, <2>2 DEF IInv, TypeOK
    <3> QED BY <2>2, <3>1, <3>2 DEF IInv, TypeOK
  <2> QED BY <1>1, <1>2, <2>1, <2>2, <2>3, LocalStep DEF Presented
<1>3. ASSUME NEW u \in User, KeyFree(call[c].name),
             InsertUser(u, Presented(c)), Answer(c, 5), UNCHANGED late
      PROVE  IInv'
  <2>1. PICK n : Follows(c, n) /\ n.pc = "done" /\ call' = [call EXCEPT ![c] = n]
    BY <1>1, <1>3, AnswerFollows DEF Code
  <2>2. /\ users' \subseteq User /\ users \subseteq users'
        /\ account' \in [User -> Credentials \cup {None}]
        /\ AccountInv'
        /\ \A v \in User : account[v] # None => account'[v] = account[v]
    BY <1>1, <1>3, InsertAccount
  <2>3. TypeOK'
    <3>1. call' \in [Caller -> CallState]
      BY <2>1 DEF Follows, IInv, TypeOK
    <3>2. admins' \subseteq users' /\ UNCHANGED <<rows, late>>
      BY <1>1, <1>3, <2>2 DEF IInv, TypeOK
    <3> QED BY <2>2, <3>1, <3>2 DEF IInv, TypeOK
  <2> QED BY <1>1, <1>3, <2>1, <2>2, <2>3, LocalStep
<1>4. CASE Postpone(c, "user") /\ Answer(c, 5) /\ UNCHANGED <<users, account>>
  <2>1. PICK n : Follows(c, n) /\ n.pc = "done" /\ call' = [call EXCEPT ![c] = n]
    BY <1>1, <1>4, AnswerFollows DEF Code
  <2>2. call'[c] = n /\ \A d \in Caller \ {c} : call'[d] = call[d]
    BY <2>1 DEF IInv, TypeOK
  <2>3. /\ late' \subseteq [call : Caller, try : 0..kMaxRetries,
                            stmt : {"login", "user", "token"}]
        /\ IsFiniteSet(late')
        /\ \A s \in late' \ late : s.call = c /\ s.stmt = "user"
        /\ \A d \in Caller : Pending(d)' = Pending(d)
    BY <1>4, PostponeLate
  <2>4. TypeOK' /\ AccountInv'
    BY <1>1, <1>4, <2>1, <2>3 DEF Follows, IInv, TypeOK, AccountInv
  <2>5. Answer(c, 5) /\ n.tok = None
    <3>1. call' = [call EXCEPT ![c].pc = "done", ![c].code = 5]
      BY <1>4 DEF Answer
    <3>2. call'[c].tok = call[c].tok
      BY <3>1 DEF IInv, TypeOK, CallState
    <3> QED BY <1>1, <1>4, <2>2, <3>2
  <2>6. CallsKeep
    BY <1>1, <2>1, <2>2 DEF CallsKeep, Follows
  <2>7. TablesKeep /\ OthersKept(c)
    BY <1>1, <1>4, <2>2, <2>3 DEF TablesKeep, OthersKept, IInv, TypeOK
  <2>8. CallOK(c)' /\ Budget(c)'
    BY <2>1, <2>2, <2>5, LoginAssumption DEF CallOK, Done, Follows, Budget
  <2>9. \A s \in late' \ late : LateOK(s)'
    BY <2>1, <2>2, <2>3 DEF LateOK, Follows
  <2>10. /\ call'[c].tok \in {call[c].tok} \cup Fresh \cup {None}
         /\ \A t \in LToken, u \in User : ~(rows'[t][u] > rows[t][u])
    BY <1>1, <2>2, <2>5 DEF IInv, TypeOK
  <2> QED BY <2>3, <2>4, <2>6, <2>7, <2>8, <2>9, <2>10, StepFrame DEF Keeps
<1>5. CASE Answer(c, 5) /\ UNCHANGED <<users, account, late>>
  BY <1>1, <1>5, AnswerStep DEF Code, tables
<1> QED BY <1>2, <1>3, <1>4, <1>5 DEF AddUser

-----------------------------------------------------------------------------
(* The server executes a statement whose connection had failed.            *)
LEMMA LateStatementFrame ==
  ASSUME IInv, NEW s \in late, late' = late \ {s}, UNCHANGED <<admins, call>>
  PROVE  /\ s.call \in Caller /\ LateOK(s)
         /\ late' \subseteq late /\ IsFiniteSet(late')
         /\ CallsKeep
         /\ \A d \in Caller \ {s.call} : Pending(d)' = Pending(d)
         /\ s.stmt = "user" => Pending(s.call)' = Pending(s.call)
         /\ s.stmt # "user" =>
              /\ Cardinality(Pending(s.call)') + 1 = Cardinality(Pending(s.call))
              /\ Cardinality(Pending(s.call)') \in Nat
<1>1. s.call \in Caller /\ LateOK(s) /\ IsFiniteSet(late)
  BY DEF IInv, TypeOK, LateInv
<1>2. IsFiniteSet(late')
  BY <1>1, FS_Subset
<1>3. CallsKeep
  BY DEF CallsKeep
<1>4. /\ \A d \in Caller \ {s.call} : Pending(d)' = Pending(d)
      /\ s.stmt = "user" => Pending(s.call)' = Pending(s.call)
      /\ s.stmt # "user" => Pending(s.call)' = Pending(s.call) \ {s}
                            /\ s \in Pending(s.call)
  BY DEF Pending
<1>5. IsFiniteSet(Pending(s.call)) /\ Cardinality(Pending(s.call)) \in Nat
  BY <1>1, PendingFinite
<1>6. s \in Pending(s.call) =>
        /\ IsFiniteSet(Pending(s.call) \ {s})
        /\ Cardinality(Pending(s.call) \ {s}) = Cardinality(Pending(s.call)) - 1
  BY <1>5, FS_RemoveElement
<1>7. IsFiniteSet(Pending(s.call) \ {s}) =>
        Cardinality(Pending(s.call) \ {s}) \in Nat
  BY FS_CardinalityType
<1>8. s.stmt # "user" =>
        /\ Cardinality(Pending(s.call)') + 1 = Cardinality(Pending(s.call))
        /\ Cardinality(Pending(s.call)') \in Nat
  BY <1>4, <1>5, <1>6, <1>7
<1> QED BY <1>1, <1>2, <1>3, <1>4, <1>8

LEMMA LateStoreStep ==
  ASSUME IInv, NEW s \in late, s.stmt # "user", late' = late \ {s},
         NEW us \in SUBSET User, \A u \in us : account[u] = Presented(s.call),
         Store(call[s.call].tok, us), UNCHANGED <<users, account, admins, call>>
  PROVE  IInv'
<1> DEFINE c == s.call
           t == call[c].tok
<1>1. /\ c \in Caller /\ LateOK(s)
      /\ late' \subseteq late /\ IsFiniteSet(late')
      /\ CallsKeep
      /\ \A d \in Caller \ {c} : Pending(d)' = Pending(d)
      /\ Cardinality(Pending(c)') + 1 = Cardinality(Pending(c))
      /\ Cardinality(Pending(c)') \in Nat
  BY LateStatementFrame
<1>2. t \in LToken
  BY <1>1 DEF LateOK
<1>3. /\ rows' \in [LToken -> [User -> Nat]]
      /\ \A u \in User : /\ u \in us => rows'[t][u] = rows[t][u] + 1
                         /\ u \notin us => rows'[t][u] = rows[t][u]
      /\ \A v \in LToken \ {t} : rows'[v] = rows[v]
  BY <1>2, StoreRows
<1>4. rows \in [LToken -> [User -> Nat]]
  BY DEF IInv, TypeOK
<1>5. \A d \in Caller \ {c} : call[d].tok \in LToken => call[d].tok # t
  BY <1>1, <1>2, LoginAssumption DEF IInv, DrawInv
<1>6. Presented(c)' = Presented(c) /\ call'[c] = call[c] /\ call' = call
  BY DEF Presented
<1>7. \A u \in us : account'[u] = Presented(c)
  OBVIOUS
<1> HIDE DEF c, t
<1>8. TypeOK' /\ AccountInv'
  BY <1>1, <1>3 DEF IInv, TypeOK, AccountInv
<1>9. TablesKeep
  <2>1. \A v \in LToken, u \in User : rows[v][u] <= rows'[v][u]
    <3> TAKE v \in LToken, u \in User
    <3>1. rows[v][u] \in Nat
      BY <1>4
    <3> QED BY <1>2, <1>3, <3>1
  <2> QED BY <2>1 DEF TablesKeep
<1>10. OthersKept(c)
  BY <1>1, <1>3, <1>5, <1>6 DEF OthersKept
<1>11. CallOK(c)'
  BY <1>1, <1>6, <1>8, <1>9, CallKept DEF Keeps
<1>12. Budget(c)'
  <2> SUFFICES ASSUME NEW u \in User
               PROVE  rows'[t][u] + Cardinality(Pending(c)') + Left(c)
                        <= kMaxRetries + 1
    BY <1>6 DEF Budget, Left, t
  <2>1. rows[t][u] + Cardinality(Pending(c)) + Left(c) <= kMaxRetries + 1
    BY <1>1, <1>2 DEF IInv, BudgetInv, Budget, t
  <2>2. rows[t][u] \in Nat /\ rows'[t][u] <= rows[t][u] + 1 /\ rows'[t][u] \in Nat
    BY <1>2, <1>3, <1>4
  <2>3. Left(c) \in Nat
    BY <1>1, LeftBound
  <2> QED BY <1>1, <2>1, <2>2, <2>3, LoginAssumption
<1>13. \A v \in LToken, u \in User : rows'[v][u] > rows[v][u] => Owned(v, u)'
  <2> SUFFICES ASSUME NEW v \in LToken, NEW u \in User, rows'[v][u] > rows[v][u]
               PROVE  Owned(v, u)'
    OBVIOUS
  <2>1. v = t /\ u \in us
    BY <1>3, <1>4
  <2> QED BY <1>1, <1>6, <1>7, <2>1 DEF Owned, t
<1>14. call'[c].tok \in {call[c].tok} \cup Fresh \cup {None} /\ late' \ late = {}
  BY <1>1, <1>6
<1> QED BY <1>1, <1>8, <1>9, <1>10, <1>11, <1>12, <1>13, <1>14, StepFrame
        DEF Keeps

LEMMA LateUserStep ==
  ASSUME IInv, NEW s \in late, s.stmt = "user", late' = late \ {s},
         LateInsertUser(Presented(s.call)), UNCHANGED <<rows, admins, call>>
  PROVE  IInv'
<1>1. /\ s.call \in Caller /\ LateOK(s)
      /\ late' \subseteq late /\ IsFiniteSet(late')
      /\ CallsKeep
      /\ \A d \in Caller : Pending(d)' = Pending(d)
  BY LateStatementFrame
<1>2. Presented(s.call) \in Credentials
  BY <1>1, PresentedIsLegal DEF LateOK
<1>3. /\ users' \subseteq User /\ users \subseteq users'
      /\ account' \in [User -> Credentials \cup {None}]
      /\ AccountInv'
      /\ \A v \in User : account[v] # None => account'[v] = account[v]
  <2>1. CASE UNCHANGED <<users, account>>
    BY <2>1 DEF IInv, TypeOK, AccountInv
  <2>2. ASSUME NEW u \in User, KeyFree(Presented(s.call).name),
               InsertUser(u, Presented(s.call))
        PROVE  /\ users' \subseteq User /\ users \subseteq users'
               /\ account' \in [User -> Credentials \cup {None}]
               /\ AccountInv'
               /\ \A v \in User : account[v] # None => account'[v] = account[v]
    BY <1>2, <2>2, InsertAccount
  <2> QED BY <2>1, <2>2 DEF LateInsertUser
<1>4. TypeOK'
  BY <1>1, <1>3 DEF IInv, TypeOK
<1>5. TablesKeep
  BY <1>3 DEF TablesKeep, IInv, TypeOK
<1>6. OthersKept(s.call)
  BY <1>1 DEF OthersKept
<1>7. CallOK(s.call)'
  BY <1>1, <1>4, <1>5, CallKept DEF Keeps
<1>8. Budget(s.call)'
  <2>1. Budget(s.call) /\ Left(s.call)' = Left(s.call)
        /\ Pending(s.call)' = Pending(s.call)
    BY <1>1 DEF IInv, BudgetInv, Left
  <2> QED BY <2>1 DEF Budget
<1>9. /\ call'[s.call].tok \in {call[s.call].tok} \cup Fresh \cup {None}
      /\ late' \ late = {}
      /\ \A t \in LToken, u \in User : ~(rows'[t][u] > rows[t][u])
  BY <1>1 DEF IInv, TypeOK
<1> QED BY <1>1, <1>3, <1>4, <1>5, <1>6, <1>7, <1>8, <1>9, StepFrame DEF Keeps

LEMMA LateStatementStep ==
  ASSUME IInv, NEW s \in late, LateStatement(s)
  PROVE  IInv'
<1>1. /\ late' = late \ {s} /\ UNCHANGED <<admins, call>>
      /\ s.call \in Caller /\ s.stmt \in {"login", "token", "user"}
  BY DEF LateStatement, IInv, TypeOK
<1>2. CASE s.stmt = "login"
  <2>1. Store(call[s.call].tok, Matching(Presented(s.call)))
        /\ UNCHANGED <<users, account>>
    BY <1>2 DEF LateStatement
  <2> QED BY <1>1, <1>2, <2>1, MatchingAccounts, LateStoreStep
<1>3. CASE s.stmt = "token"
  <2>1. Store(call[s.call].tok, {call[s.call].user})
        /\ UNCHANGED <<users, account>>
    BY <1>3 DEF LateStatement
  <2>2. /\ {call[s.call].user} \in SUBSET User
        /\ \A u \in {call[s.call].user} : account[u] = Presented(s.call)
    BY <1>3 DEF IInv, LateInv, LateOK, OwnAccount
  <2> QED BY <1>1, <1>3, <2>1, <2>2, LateStoreStep
<1>4. CASE s.stmt = "user"
  <2>1. LateInsertUser(Presented(s.call)) /\ UNCHANGED rows
    BY <1>4 DEF LateStatement
  <2> QED BY <1>1, <1>4, <2>1, LateUserStep
<1> QED BY <1>1, <1>2, <1>3, <1>4

-----------------------------------------------------------------------------
(* The end of the process, and the administrators.                         *)
LEMMA CrashStep ==
  ASSUME IInv, Crash
  PROVE  IInv'
<1>1. UNCHANGED <<users, account, rows, admins, late>>
  BY DEF Crash, tables
<1>2. \A c \in Caller :
        /\ call'[c] \in CallState
        /\ \/ call'[c] = call[c]
           \/ call'[c].pc = "lost" /\ call[c].pc # "new"
        /\ call'[c].tok = call[c].tok /\ call'[c].user = call[c].user
        /\ call'[c].name = call[c].name /\ call'[c].pass = call[c].pass
  <2> TAKE c \in Caller
  <2> DEFINE n == [call[c] EXCEPT !.pc = "lost"]
  <2>1. /\ n \in CallState /\ n.pc = "lost" /\ n.tok = call[c].tok
        /\ n.user = call[c].user /\ n.name = call[c].name
        /\ n.pass = call[c].pass
    BY DEF IInv, TypeOK, CallState
  <2>2. call'[c] = call[c] \/ (call'[c] = n /\ call[c].pc # "new")
    BY DEF Crash
  <2> HIDE DEF n
  <2> QED BY <2>1, <2>2 DEF IInv, TypeOK
<1>3. TypeOK' /\ AccountInv'
  <2>1. call' \in [Caller -> CallState]
    BY <1>2 DEF Crash
  <2> QED BY <1>1, <2>1 DEF IInv, TypeOK, AccountInv
<1>4. Keeps
  BY <1>1, <1>2 DEF Keeps, CallsKeep, TablesKeep, IInv, TypeOK
<1>5. CallInv'
  <2> SUFFICES ASSUME NEW c \in Caller PROVE CallOK(c)'
    BY DEF CallInv
  <2>1. CASE call'[c] = call[c]
    BY <1>3, <1>4, <2>1, CallKept
  <2>2. CASE call'[c].pc = "lost" /\ call[c].pc # "new"
    <3>1. call[c].name \in Name /\ call[c].pass \in Pass
      BY <2>2 DEF IInv, CallInv, CallOK
    <3> QED BY <1>2, <2>2, <3>1 DEF CallOK, Done
  <2> QED BY <1>2, <2>1, <2>2
<1>6. DrawInv'
  BY <1>2 DEF IInv, DrawInv
<1>7. LateInv'
  BY <1>1, <1>4, LateKept DEF LateInv, IInv
<1>8. Authentic'
  <2> SUFFICES ASSUME NEW t \in LToken, NEW u \in User, rows[t][u] > 0
               PROVE  Owned(t, u)'
    BY <1>1 DEF Authentic, Owned
  <2>1. Owned(t, u)
    BY DEF IInv, Authentic, Owned
  <2> QED BY <1>4, <2>1, OwnedKept
<1>9. BudgetInv'
  <2> SUFFICES ASSUME NEW c \in Caller PROVE Budget(c)'
    BY DEF BudgetInv
  <2>1. /\ call'[c].tok = call[c].tok /\ Pending(c)' = Pending(c)
        /\ rows' = rows /\ Budget(c)
    BY <1>1, <1>2 DEF Pending, IInv, BudgetInv
  <2>2. Left(c)' <= Left(c) /\ Left(c)' \in Nat /\ Left(c) \in Nat
    <3>1. Left(c) \in Nat
      BY LeftBound
    <3>2. Left(c)' \in {0, Left(c)}
      BY <1>2 DEF Left
    <3> QED BY <3>1, <3>2
  <2>3. ASSUME call[c].tok \in LToken, NEW u \in User
        PROVE  rows[call[c].tok][u] + Cardinality(Pending(c)) + Left(c)'
                 <= kMaxRetries + 1
    <3>1. rows[call[c].tok][u] + Cardinality(Pending(c)) + Left(c) <= kMaxRetries + 1
      BY <2>1, <2>3 DEF Budget
    <3>2. rows[call[c].tok][u] \in Nat /\ Cardinality(Pending(c)) \in Nat
      BY <2>3, PendingFinite DEF IInv, TypeOK
    <3> QED BY <2>2, <3>1, <3>2, LoginAssumption
  <2> QED BY <2>1, <2>3 DEF Budget
<1> QED BY <1>3, <1>5, <1>6, <1>7, <1>8, <1>9 DEF IInv

\* Steps that leave the calls, their rows and their statements alone.
LEMMA QuietStep ==
  ASSUME IInv, UNCHANGED <<account, rows, late, call>>,
         users' \subseteq users, admins' \subseteq users'
  PROVE  IInv'
<1>1. TypeOK' /\ AccountInv' /\ CallsKeep /\ TablesKeep
  BY DEF IInv, TypeOK, AccountInv, CallsKeep, TablesKeep
<1>2. CallInv' /\ LateInv'
  BY <1>1, CallKept, LateKept DEF Keeps, CallInv, LateInv, IInv
<1>3. DrawInv'
  BY DEF IInv, DrawInv
<1>4. Authentic'
  BY DEF IInv, Authentic, Presented
<1>5. BudgetInv'
  <2>1. ASSUME NEW c \in Caller PROVE Budget(c)'
    <3>1. Budget(c) /\ Pending(c)' = Pending(c) /\ Left(c)' = Left(c)
      BY DEF IInv, BudgetInv, Pending, Left
    <3> QED BY <3>1 DEF Budget
  <2> QED BY <2>1 DEF BudgetInv
<1> QED BY <1>1, <1>2, <1>3, <1>4, <1>5 DEF IInv

LEMMA NextIInv == IInv /\ [Next]_vars => IInv'
<1> SUFFICES ASSUME IInv, [Next]_vars PROVE IInv'
  OBVIOUS
<1>1. CASE \E c \in Caller : \E p \in Credentials, form \in Form :
             Log(c, p, form) \/ Adlog(c, p, form) \/ Reg(c, p, form)
  BY <1>1, RequestStep
<1>2. CASE \E c \in Caller : CallStep(c)
  BY <1>2, LoginOnceStep, RegLookStep, AdLookStep, AddUserStep, AddTokenStep
     DEF CallStep
<1>3. CASE \E s \in late : LateStatement(s)
  BY <1>3, LateStatementStep
<1>4. CASE Crash
  BY <1>4, CrashStep
<1>5. CASE Environment
  <2>1. UNCHANGED <<account, rows, late, call>>
    BY <1>5 DEF Environment
  <2>2. users' \subseteq users /\ admins' \subseteq users'
    BY <1>5 DEF Environment, IInv, TypeOK
  <2> QED BY <2>1, <2>2, QuietStep
<1>6. CASE UNCHANGED vars
  BY <1>6, QuietStep DEF vars, tables, IInv, TypeOK
<1> QED BY <1>1, <1>2, <1>3, <1>4, <1>5, <1>6 DEF Next, Step, Serve

LEMMA Inductive == Spec => []IInv
BY InitIInv, NextIInv, PTL DEF Spec

-----------------------------------------------------------------------------
\* The calls and the tables always have values of their types.
THEOREM TypeCorrect == Spec => []TypeOK
<1>1. IInv => TypeOK
  BY DEF IInv
<1> QED BY Inductive, <1>1, PTL

\* Every row of login_token is for an account whose name and password were
\* presented by the call that drew the token.
THEOREM AuthenticCorrect == Spec => []Authentic
<1>1. IInv => Authentic
  BY DEF IInv
<1> QED BY Inductive, <1>1, PTL

\* A call answered with success returned a token with such a row.
THEOREM SuccessStoredCorrect == Spec => []SuccessStored
<1>1. IInv => SuccessStored
  BY DEF IInv, CallInv, CallOK, SuccessStored
<1> QED BY Inductive, <1>1, PTL

\* A login leaves at most one row for each attempt: those stored, those that
\* may be executed late and those still to send are no more than that.
THEOREM RowsBoundedCorrect == Spec => []RowsBounded
<1>1. IInv => RowsBounded
  <2> SUFFICES ASSUME IInv, NEW t \in LToken, NEW u \in User
               PROVE  rows[t][u] <= kMaxRetries + 1
    BY DEF RowsBounded
  <2>1. rows[t][u] \in Nat
    BY DEF IInv, TypeOK
  <2>2. CASE rows[t][u] > 0
    <3>1. PICK c \in Caller : call[c].tok = t
      BY <2>2 DEF IInv, Authentic
    <3>2. rows[t][u] + Cardinality(Pending(c)) + Left(c) <= kMaxRetries + 1
      BY <3>1 DEF IInv, BudgetInv, Budget
    <3>3. Cardinality(Pending(c)) \in Nat /\ Left(c) \in Nat
      BY PendingFinite, LeftBound
    <3> QED BY <2>1, <3>2, <3>3, LoginAssumption
  <2>3. CASE ~(rows[t][u] > 0)
    BY <2>1, <2>3, LoginAssumption
  <2> QED BY <2>2, <2>3
<1> QED BY Inductive, <1>1, PTL

\* With a unique key on the name, the rows of a token are of one user that
\* exists: they are all for the name presented with the token.
THEOREM TokenOneOwnerCorrect ==
  ASSUME UniqueNames
  PROVE  Spec => []TokenOneOwner
<1>1. IInv => TokenOneOwner
  <2> SUFFICES ASSUME IInv, NEW t \in LToken, NEW u \in users, NEW w \in users,
                      rows[t][u] > 0, rows[t][w] > 0
               PROVE  u = w
    BY DEF TokenOneOwner
  <2>1. u \in User /\ w \in User
    BY DEF IInv, TypeOK
  <2>2. PICK c \in Caller : call[c].tok = t /\ account[u] = Presented(c)
    BY <2>1 DEF IInv, Authentic
  <2>3. PICK d \in Caller : call[d].tok = t /\ account[w] = Presented(d)
    BY <2>1 DEF IInv, Authentic
  <2>4. c = d
    BY <2>2, <2>3, LoginAssumption DEF IInv, DrawInv
  <2> QED BY <2>2, <2>3, <2>4 DEF IInv, AccountInv
<1> QED BY Inductive, <1>1, PTL
=============================================================================
