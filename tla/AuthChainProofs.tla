-------------------------- MODULE AuthChainProofs --------------------------
(***************************************************************************)
(* Proofs about AuthChain, for any sets of calls, names, users and tokens  *)
(* and any number of retries, when user.username has a unique key.         *)
(*                                                                         *)
(* Each component's inductive invariant is kept by the steps of the chain, *)
(* because a step of the chain is a step of each component or leaves it    *)
(* alone; IdentityProven follows from the three invariants and Linked,     *)
(* which ties what one component holds to what another stored.             *)
(***************************************************************************)
EXTENDS AuthChain, TLAPS

\* The components with what is proved of them.
LoginP == INSTANCE LoginSessionProofs WITH late <- lateLogin

ExchangeP == INSTANCE UserTokenProofs
               WITH logins <- Sessions, late <- lateUser,
                    now <- 0, LoginExpire <- 0, MaxTime <- 0

VerifyP == INSTANCE VerifyTokenProofs WITH late <- lateVerify

-----------------------------------------------------------------------------
\* The theorems are about the same specifications as AuthChain's instances.
LEMMA SameAssumptions ==
  /\ LoginP!LoginAssumption
  /\ ExchangeP!UserTokenAssumption
  /\ VerifyP!VerifyAssumption
BY ChainAssumption
   DEF Login!LoginAssumption, LoginP!LoginAssumption,
       Login!Rejection, LoginP!Rejection,
       Exchange!UserTokenAssumption, ExchangeP!UserTokenAssumption,
       Verify!VerifyAssumption, VerifyP!VerifyAssumption

LEMMA SameLogin ==
  /\ Login!Init => LoginP!Init
  /\ Login!Serve => LoginP!Serve
  /\ Login!Next => LoginP!Next
  /\ UNCHANGED Login!vars => UNCHANGED LoginP!vars
<1>1. Login!Init => LoginP!Init
  BY DEF Login!Init, LoginP!Init
<1>2. Login!Serve => LoginP!Serve
  BY DEF Login!tables, LoginP!tables, Login!Credentials,
         LoginP!Credentials, Login!Presented, LoginP!Presented,
         Login!Named, LoginP!Named, Login!Matching, LoginP!Matching,
         Login!Fresh, LoginP!Fresh, Login!Answer, LoginP!Answer,
         Login!Request, LoginP!Request, Login!Reject, LoginP!Reject,
         Login!Log, LoginP!Log, Login!Adlog, LoginP!Adlog, Login!Reg,
         LoginP!Reg, Login!Store, LoginP!Store, Login!Postpone,
         LoginP!Postpone, Login!Retry, LoginP!Retry, Login!LoginCode,
         LoginP!LoginCode, Login!LoginOnce, LoginP!LoginOnce,
         Login!RegLook, LoginP!RegLook, Login!Admitted, LoginP!Admitted,
         Login!AdLook, LoginP!AdLook, Login!KeyFree, LoginP!KeyFree,
         Login!InsertUser, LoginP!InsertUser, Login!AddUser,
         LoginP!AddUser, Login!AddToken, LoginP!AddToken,
         Login!LateInsertUser, LoginP!LateInsertUser, Login!LateStatement,
         LoginP!LateStatement, Login!CallStep,
         LoginP!CallStep, Login!Serve, LoginP!Serve,
         Login!Rejection, LoginP!Rejection
<1>3. Login!Next => LoginP!Next
  BY DEF Login!tables, LoginP!tables, Login!Credentials,
         LoginP!Credentials, Login!Presented, LoginP!Presented,
         Login!Named, LoginP!Named, Login!Matching, LoginP!Matching,
         Login!Fresh, LoginP!Fresh, Login!Answer, LoginP!Answer,
         Login!Request, LoginP!Request, Login!Reject, LoginP!Reject,
         Login!Log, LoginP!Log, Login!Adlog, LoginP!Adlog, Login!Reg,
         LoginP!Reg, Login!Store, LoginP!Store, Login!Postpone,
         LoginP!Postpone, Login!Retry, LoginP!Retry, Login!LoginCode,
         LoginP!LoginCode, Login!LoginOnce, LoginP!LoginOnce,
         Login!RegLook, LoginP!RegLook, Login!Admitted, LoginP!Admitted,
         Login!AdLook, LoginP!AdLook, Login!KeyFree, LoginP!KeyFree,
         Login!InsertUser, LoginP!InsertUser, Login!AddUser,
         LoginP!AddUser, Login!AddToken, LoginP!AddToken,
         Login!LateInsertUser, LoginP!LateInsertUser, Login!LateStatement,
         LoginP!LateStatement, Login!Crash, LoginP!Crash, Login!CallStep,
         LoginP!CallStep, Login!Serve, LoginP!Serve, Login!Step,
         LoginP!Step, Login!Environment, LoginP!Environment, Login!Next,
         LoginP!Next, Login!Rejection, LoginP!Rejection
<1>4. UNCHANGED Login!vars => UNCHANGED LoginP!vars
  BY DEF Login!vars, LoginP!vars
<1> QED BY <1>1, <1>2, <1>3, <1>4

LEMMA SameExchange ==
  /\ Exchange!Init => ExchangeP!Init
  /\ Exchange!Next => ExchangeP!Next
  /\ UNCHANGED Exchange!vars => UNCHANGED ExchangeP!vars
<1>1. Exchange!Init => ExchangeP!Init
  BY DEF Exchange!Init, ExchangeP!Init
<1>2. Exchange!Next => ExchangeP!Next
  BY DEF Exchange!env, ExchangeP!env, Exchange!Text, ExchangeP!Text,
         Exchange!Forget, ExchangeP!Forget, Exchange!Over, ExchangeP!Over,
         Exchange!Deliver, ExchangeP!Deliver, Exchange!Draw, ExchangeP!Draw,
         Exchange!SelectPlain, ExchangeP!SelectPlain, Exchange!SelectQuoted,
         ExchangeP!SelectQuoted, Exchange!OverRead, ExchangeP!OverRead,
         Exchange!Answer, ExchangeP!Answer, Exchange!Get, ExchangeP!Get, Exchange!Retry, ExchangeP!Retry,
         Exchange!Expired, ExchangeP!Expired, Exchange!Found,
         ExchangeP!Found, Exchange!Select, ExchangeP!Select,
         Exchange!SetToken, ExchangeP!SetToken, Exchange!Update,
         ExchangeP!Update, Exchange!Tell, ExchangeP!Tell, Exchange!Read,
         ExchangeP!Read, Exchange!ReadLogin, ExchangeP!ReadLogin,
         Exchange!ReadUser, ExchangeP!ReadUser, Exchange!LateUpdate,
         ExchangeP!LateUpdate, Exchange!Lose, ExchangeP!Lose,
         Exchange!Crash, ExchangeP!Crash, Exchange!GetterStep,
         ExchangeP!GetterStep, Exchange!ReaderStep, ExchangeP!ReaderStep,
         Exchange!Serve, ExchangeP!Serve, Exchange!Step, ExchangeP!Step,
         Exchange!AddUser, ExchangeP!AddUser, Exchange!AddLogin,
         ExchangeP!AddLogin, Exchange!RemoveUser, ExchangeP!RemoveUser,
         Exchange!Tick, ExchangeP!Tick, Exchange!Environment,
         ExchangeP!Environment, Exchange!Next, ExchangeP!Next
<1>3. UNCHANGED Exchange!vars => UNCHANGED ExchangeP!vars
  BY DEF Exchange!vars, ExchangeP!vars
<1> QED BY <1>1, <1>2, <1>3

LEMMA SameVerify ==
  /\ Verify!Init => VerifyP!Init
  /\ Verify!Next => VerifyP!Next
  /\ UNCHANGED Verify!vars => UNCHANGED VerifyP!vars
<1>1. Verify!Init => VerifyP!Init
  BY DEF Verify!Init, VerifyP!Init
<1>2. Verify!Next => VerifyP!Next
  BY DEF Verify!rows, VerifyP!rows, Verify!env, VerifyP!env, Verify!Drawn,
         VerifyP!Drawn, Verify!Fresh, VerifyP!Fresh, Verify!AskAnswer,
         VerifyP!AskAnswer, Verify!Ask, VerifyP!Ask, Verify!MayAsk,
         VerifyP!MayAsk, Verify!Check, VerifyP!Check, Verify!InsertRow,
         VerifyP!InsertRow, Verify!Insert, VerifyP!Insert,
         Verify!UseAnswer, VerifyP!UseAnswer, Verify!Present,
         VerifyP!Present, Verify!Look, VerifyP!Look, Verify!Affected,
         VerifyP!Affected, Verify!MarkUsed, VerifyP!MarkUsed, Verify!Use,
         VerifyP!Use, Verify!Fetch, VerifyP!Fetch, Verify!LateStatement,
         VerifyP!LateStatement, Verify!Lose, VerifyP!Lose, Verify!Crash,
         VerifyP!Crash, Verify!Serve, VerifyP!Serve, Verify!Step,
         VerifyP!Step, Verify!Rotate, VerifyP!Rotate, Verify!Administer,
         VerifyP!Administer, Verify!Environment, VerifyP!Environment,
         Verify!Next, VerifyP!Next
<1>3. UNCHANGED Verify!vars => UNCHANGED VerifyP!vars
  BY DEF Verify!vars, VerifyP!vars
<1> QED BY <1>1, <1>2, <1>3

-----------------------------------------------------------------------------
(* A call asks with the token it was given, a user.token drawn for the     *)
(* user it asks for; and a user.token was drawn by a call of gettoken,     *)
(* under whose login token, if it was sent one, the user has a row.        *)
AskOK(i) ==
  /\ ask[i].pc = "new" => ask[i].vt = None
  /\ ask[i].pc = "check" => ask[i].tok # None
  /\ ask[i].vt # None => /\ ask[i].tok \in UToken
                         /\ ask[i].user \in User
                         /\ drawnFor[ask[i].tok] = ask[i].user

AskLinked == \A i \in Issuer : AskOK(i)

Backs(g, t, u) ==
  t \in get[g].drew /\ (get[g].tok \in LToken => rows[get[g].tok][u] > 0)

Backed(t, u) == \E g \in Getter : Backs(g, t, u)

GettersStarted ==
  \A g \in Getter : /\ get[g].pc = "new" => get[g].tok = None
                    /\ get[g].pc \in {"select", "update"} => get[g].tok # None
                    /\ get[g].tok = None => get[g].drew = {}

DrawLinked ==
  /\ \A t \in UToken : drawnFor[t] # None => Backed(t, drawnFor[t])
  /\ GettersStarted

Linked == AskLinked /\ DrawLinked

IInv == LoginP!IInv /\ ExchangeP!IInv /\ VerifyP!IInv /\ Linked

-----------------------------------------------------------------------------
(* What a step of LoginSession does to the tables UserToken reads: nothing, *)
(* a new user, or a row of the login token of a call for an account with    *)
(* the name and the password that call presented.                           *)
Joins(u) == account[u] = None /\ users' = users \cup {u} /\ rows' = rows

Stores(c, us) ==
  /\ call[c].tok \in LToken
  /\ \A u \in us : u \in User /\ account[u] = LoginP!Presented(c)
  /\ \A u, w \in us : u = w
  /\ LoginP!Store(call[c].tok, us)
  /\ users' = users

LEMMA MatchingStores ==
  ASSUME UniqueNames, LoginP!IInv, NEW c \in Caller, call[c].tok \in LToken,
         LoginP!Store(call[c].tok, LoginP!Matching(LoginP!Presented(c))),
         users' = users
  PROVE  \E us : Stores(c, us)
<1> DEFINE us == LoginP!Matching(LoginP!Presented(c))
<1>1. \A u \in us : u \in User /\ account[u] = LoginP!Presented(c)
  BY DEF LoginP!Matching, LoginP!IInv, LoginP!TypeOK
<1>2. \A u, w \in us : u = w
  BY DEF LoginP!Matching, LoginP!IInv, LoginP!AccountInv
<1> QED BY <1>1, <1>2 DEF Stores

LEMMA OwnStores ==
  ASSUME NEW c \in Caller, call[c].tok \in LToken, LoginP!OwnAccount(c),
         LoginP!Store(call[c].tok, {call[c].user}), users' = users
  PROVE  \E us : Stores(c, us)
<1>1. Stores(c, {call[c].user})
  BY DEF Stores, LoginP!OwnAccount
<1> QED BY <1>1

LEMMA LoginEffect ==
  ASSUME UniqueNames, LoginP!IInv, LoginP!Serve
  PROVE  \/ UNCHANGED <<users, rows>>
         \/ \E u \in User : Joins(u)
         \/ \E c \in Caller : \E us : Stores(c, us)
<1>1. ASSUME NEW c \in Caller, NEW p \in LoginP!Credentials, NEW form \in Form,
             \/ LoginP!Log(c, p, form)
             \/ LoginP!Adlog(c, p, form)
             \/ LoginP!Reg(c, p, form)
      PROVE  UNCHANGED <<users, rows>>
  BY <1>1 DEF LoginP!Log, LoginP!Adlog, LoginP!Reg, LoginP!tables
<1>2. ASSUME NEW c \in Caller, LoginP!RegLook(c) \/ LoginP!AdLook(c)
      PROVE  UNCHANGED <<users, rows>>
  BY <1>2 DEF LoginP!RegLook, LoginP!AdLook, LoginP!tables
<1>3. ASSUME NEW c \in Caller, LoginP!LoginOnce(c)
      PROVE  UNCHANGED <<users, rows>> \/ \E us : Stores(c, us)
  <2>1. call[c].tok \in LToken
    BY <1>3 DEF LoginP!LoginOnce, LoginP!IInv, LoginP!CallInv, LoginP!CallOK
  <2> QED BY <2>1, <1>3, MatchingStores DEF LoginP!LoginOnce
<1>4. ASSUME NEW c \in Caller, LoginP!AddUser(c)
      PROVE  UNCHANGED <<users, rows>> \/ \E u \in User : Joins(u)
  BY <1>4 DEF LoginP!AddUser, LoginP!InsertUser, Joins
<1>5. ASSUME NEW c \in Caller, LoginP!AddToken(c)
      PROVE  UNCHANGED <<users, rows>> \/ \E us : Stores(c, us)
  <2>1. call[c].tok \in LToken /\ LoginP!OwnAccount(c)
    BY <1>5 DEF LoginP!AddToken, LoginP!IInv, LoginP!CallInv, LoginP!CallOK
  <2> QED BY <2>1, <1>5, OwnStores DEF LoginP!AddToken
<1>6. ASSUME NEW s \in lateLogin, LoginP!LateStatement(s)
      PROVE  \/ UNCHANGED <<users, rows>>
             \/ \E u \in User : Joins(u)
             \/ \E c \in Caller : \E us : Stores(c, us)
  <2>1. s.call \in Caller /\ s.stmt \in {"login", "user", "token"}
    BY DEF LoginP!IInv, LoginP!TypeOK
  <2>2. LoginP!LateOK(s)
    BY DEF LoginP!IInv, LoginP!LateInv
  <2>3. CASE s.stmt = "login"
    BY <2>1, <2>2, <2>3, <1>6, MatchingStores DEF LoginP!LateStatement, LoginP!LateOK
  <2>4. CASE s.stmt = "token"
    BY <2>1, <2>2, <2>4, <1>6, OwnStores DEF LoginP!LateStatement, LoginP!LateOK
  <2>5. CASE s.stmt = "user"
    BY <2>5, <1>6 DEF LoginP!LateStatement, LoginP!LateInsertUser,
                      LoginP!InsertUser, Joins
  <2> QED BY <2>1, <2>3, <2>4, <2>5
<1> QED BY <1>1, <1>2, <1>3, <1>4, <1>5, <1>6 DEF LoginP!Serve, LoginP!CallStep

-----------------------------------------------------------------------------
\* The steps of LoginSession are an environment of UserToken.
LEMMA SessionRow ==
  ASSUME NEW t \in LToken, NEW u \in User
  PROVE  rows[t][u] > 0 <=> [tok |-> t, user |-> u, expire |-> 0] \in Sessions
BY DEF Sessions

LEMMA SessionsKept ==
  ASSUME rows' = rows
  PROVE  Sessions' = Sessions
BY DEF Sessions

LEMMA StoresLogin ==
  ASSUME UniqueNames, LoginP!IInv, NEW c \in Caller, NEW us, Stores(c, us)
  PROVE  \/ Sessions' = Sessions
         \/ \E t \in LToken, u \in User :
              Exchange!AddLogin([tok |-> t, user |-> u, expire |-> 0])
<1> DEFINE t == call[c].tok
<1>1. rows \in [LToken -> [User -> Nat]] /\ t \in LToken
  BY DEF LoginP!IInv, LoginP!TypeOK, Stores
<1>2. rows' = [rows EXCEPT ![t] =
                 [u \in User |-> IF u \in us THEN @[u] + 1 ELSE @[u]]]
  BY DEF Stores, LoginP!Store
<1>3. \A k \in LToken, u \in User :
        rows'[k][u] = IF k = t /\ u \in us THEN rows[k][u] + 1 ELSE rows[k][u]
  BY <1>1, <1>2
<1>4. CASE us = {}
  <2>1. \A k \in LToken, u \in User : rows'[k][u] = rows[k][u]
    BY <1>3, <1>4
  <2> QED BY <2>1 DEF Sessions
<1>5. CASE us # {}
  <2>1. PICK u \in us : TRUE
    BY <1>5
  <2>2. us = {u} /\ u \in User /\ account[u] = LoginP!Presented(c)
    BY <2>1 DEF Stores
  <2> DEFINE l == [tok |-> t, user |-> u, expire |-> 0]
  <2>3. \A k \in LToken, w \in User :
          rows'[k][w] > 0 <=> rows[k][w] > 0 \/ (k = t /\ w = u)
    BY <1>1, <1>3, <2>2
  <2>4. Sessions' = Sessions \cup {l}
    BY <2>2, <2>3, <1>1 DEF Sessions
  <2>5. ASSUME NEW m \in Sessions, m.tok = t, m.user \in users, u \in users
        PROVE  m.user = u
    <3>1. m.user \in User /\ rows[t][m.user] > 0
      BY <2>5 DEF Sessions
    <3>2. PICK d \in Caller :
            call[d].tok = t /\ account[m.user] = LoginP!Presented(d)
      BY <3>1, <1>1 DEF LoginP!IInv, LoginP!Authentic
    <3>3. t # None
      BY <1>1, SameAssumptions DEF LoginP!LoginAssumption
    <3>4. d = c
      BY <3>2, <3>3 DEF LoginP!IInv, LoginP!DrawInv
    <3> QED BY <3>2, <3>4, <2>2, <2>5 DEF LoginP!IInv, LoginP!AccountInv
  <2>6. Exchange!AddLogin(l)
    BY <2>4, <2>5 DEF Exchange!AddLogin, Stores
  <2> QED BY <2>2, <2>6, <1>1
<1> QED BY <1>4, <1>5

LEMMA JoinsUser ==
  ASSUME LoginP!IInv, NEW u \in User, Joins(u)
  PROVE  Exchange!AddUser(u)
<1>1. ASSUME NEW l \in Sessions, l.user = u
      PROVE  FALSE
  <2>1. l.tok \in LToken /\ rows[l.tok][u] > 0
    BY <1>1 DEF Sessions
  <2>2. PICK d \in Caller :
          call[d].tok = l.tok /\ account[u] = LoginP!Presented(d)
    BY <2>1 DEF LoginP!IInv, LoginP!Authentic
  <2>3. l.tok # None
    BY <2>1, SameAssumptions DEF LoginP!LoginAssumption
  <2>4. call[d].name \in Name /\ call[d].pass \in Pass
    BY <2>2, <2>3 DEF LoginP!IInv, LoginP!CallInv, LoginP!CallOK
  <2> QED BY <2>2, <2>4, SameAssumptions
          DEF Joins, LoginP!Presented, LoginP!LoginAssumption
<1> QED BY <1>1, SessionsKept DEF Joins, Exchange!AddUser

LEMMA LoginForExchange ==
  ASSUME UniqueNames, LoginP!IInv, LoginStep
  PROVE  [Exchange!Next]_(Exchange!vars)
<1>1. LoginP!Serve /\ UNCHANGED <<userToken, userVars>>
  BY SameLogin DEF LoginStep
<1>2. CASE UNCHANGED <<users, rows>>
  BY <1>1, <1>2, SessionsKept DEF Exchange!vars, userVars
<1>3. ASSUME NEW u \in User, Joins(u)
      PROVE  Exchange!Next
  BY <1>1, <1>3, JoinsUser DEF Exchange!Next, Exchange!Environment, userVars
<1>4. ASSUME NEW c \in Caller, NEW us, Stores(c, us)
      PROVE  [Exchange!Next]_(Exchange!vars)
  <2>1. CASE Sessions' = Sessions
    BY <1>1, <1>4, <2>1 DEF Stores, Exchange!vars, userVars
  <2>2. ASSUME NEW t \in LToken, NEW u \in User,
               Exchange!AddLogin([tok |-> t, user |-> u, expire |-> 0])
        PROVE  Exchange!Next
    BY <1>1, <2>2 DEF Exchange!Next, Exchange!Environment, userVars
  <2> QED BY <1>4, <2>1, <2>2, StoresLogin
<1> QED BY <1>1, <1>2, <1>3, <1>4, LoginEffect

-----------------------------------------------------------------------------
\* UserToken sets a user.token that is the user's already, or nobody's.
LEMMA SetTokenRotates ==
  ASSUME ExchangeP!IInv, NEW u \in User, NEW t \in UToken, drawnFor[t] = u,
         Exchange!SetToken(u, t), UNCHANGED <<users, eligible>>
  PROVE  userToken' = userToken \/ Verify!Rotate(u, t)
<1>1. userToken \in [User -> UToken \cup {None}]
  BY DEF ExchangeP!IInv, ExchangeP!TypeOK
<1>2. CASE u \notin users
  BY <1>2 DEF Exchange!SetToken
<1>3. CASE u \in users /\ userToken[u] = t
  BY <1>1, <1>3 DEF Exchange!SetToken
<1>4. CASE u \in users /\ userToken[u] # t
  <2>1. t # None
    BY SameAssumptions DEF ExchangeP!UserTokenAssumption
  <2>2. \A w \in User : userToken[w] # t
    BY <1>4, <2>1 DEF ExchangeP!IInv, ExchangeP!DrawnInv
  <2> QED BY <1>4, <2>2 DEF Exchange!SetToken, Verify!Rotate
<1> QED BY <1>2, <1>3, <1>4

LEMMA ExchangeRotates ==
  ASSUME ExchangeP!IInv, Exchange!Serve, UNCHANGED <<users, eligible>>
  PROVE  userToken' = userToken \/ \E u \in User, t \in UToken : Verify!Rotate(u, t)
<1>1. ASSUME NEW g \in Getter, Exchange!Update(g)
      PROVE  userToken' = userToken \/ \E u \in User, t \in UToken : Verify!Rotate(u, t)
  <2>1. /\ get[g].user \in User
        /\ get[g].out \in UToken
        /\ drawnFor[get[g].out] = get[g].user
    BY <1>1 DEF Exchange!Update, ExchangeP!IInv, ExchangeP!GetInv,
                ExchangeP!GetterOK, ExchangeP!Owns
  <2>2. CASE Exchange!SetToken(get[g].user, get[g].out)
    BY <2>1, <2>2, SetTokenRotates
  <2>3. CASE UNCHANGED userToken
    BY <2>3
  <2> QED BY <1>1, <2>2, <2>3 DEF Exchange!Update
<1>2. ASSUME NEW s \in lateUser, Exchange!LateUpdate(s)
      PROVE  userToken' = userToken \/ \E u \in User, t \in UToken : Verify!Rotate(u, t)
  <2>1. s.user \in User /\ s.tok \in UToken /\ drawnFor[s.tok] = s.user
    BY DEF ExchangeP!IInv, ExchangeP!TypeOK, ExchangeP!DrawnInv
  <2> QED BY <1>2, <2>1, SetTokenRotates DEF Exchange!LateUpdate
<1>3. ASSUME NEW g \in Getter, NEW t \in Exchange!Text \cup {None}, Exchange!Get(g, t)
      PROVE  userToken' = userToken
  BY <1>3 DEF Exchange!Get
<1>4. ASSUME NEW g \in Getter, Exchange!Select(g)
      PROVE  userToken' = userToken
  BY <1>4 DEF Exchange!Select
<1>5. ASSUME NEW w \in Reader, NEW t \in Exchange!Text \cup {None},
             Exchange!Read(w, t) \/ Exchange!ReaderStep(w)
      PROVE  userToken' = userToken
  BY <1>5 DEF Exchange!Read, Exchange!ReaderStep, Exchange!ReadLogin,
              Exchange!ReadUser
<1> QED BY <1>1, <1>2, <1>3, <1>4, <1>5 DEF Exchange!Serve, Exchange!GetterStep

-----------------------------------------------------------------------------
\* A step of the chain is, for each component, one of its steps or nothing.
LEMMA LoginSteps ==
  ASSUME [Next]_vars
  PROVE  [Login!Next]_(Login!vars)
<1>1. CASE LoginStep
  BY <1>1 DEF LoginStep, Login!Next, Login!Step
<1>2. CASE ExchangeStep \/ VerifyStep
  BY <1>2 DEF ExchangeStep, VerifyStep, loginVars, Login!vars
<1>3. CASE Crash
  BY <1>3 DEF Crash, Login!Next, Login!Step
<1>4. CASE Administrators
  BY <1>4 DEF Administrators, Login!Next, Login!Environment, Login!vars
<1>5. CASE UNCHANGED vars
  BY <1>5 DEF vars, loginVars, Login!vars
<1> QED BY <1>1, <1>2, <1>3, <1>4, <1>5 DEF Next

LEMMA ExchangeSteps ==
  ASSUME UniqueNames, LoginP!IInv, [Next]_vars
  PROVE  [Exchange!Next]_(Exchange!vars)
<1>1. CASE LoginStep
  BY <1>1, LoginForExchange
<1>2. CASE ExchangeStep
  BY <1>2 DEF ExchangeStep, Exchange!Next, Exchange!Step
<1>3. CASE VerifyStep
  BY <1>3, SessionsKept DEF VerifyStep, loginVars, userVars, Exchange!vars
<1>4. CASE Crash
  BY <1>4 DEF Crash, Exchange!Next, Exchange!Step
<1>5. CASE Administrators
  <2>1. Sessions' = Sessions /\ UNCHANGED <<userToken, userVars>>
    BY <1>5, SessionsKept DEF Administrators
  <2>2. users \subseteq User
    BY DEF LoginP!IInv, LoginP!TypeOK
  <2>3. users' = users \/ \E u \in User : users' = users \ {u}
    BY <1>5, <2>2 DEF Administrators
  <2> QED BY <2>1, <2>3 DEF Exchange!Next, Exchange!Environment,
                            Exchange!RemoveUser, Exchange!vars, userVars
<1>6. CASE UNCHANGED vars
  BY <1>6, SessionsKept DEF vars, loginVars, userVars, Exchange!vars
<1> QED BY <1>1, <1>2, <1>3, <1>4, <1>5, <1>6 DEF Next

LEMMA VerifySteps ==
  ASSUME UniqueNames, LoginP!IInv, ExchangeP!IInv, [Next]_vars
  PROVE  [Verify!Next]_(Verify!vars)
<1>1. CASE LoginStep
  <2>1. users' = users \/ \E u \in User : users' = users \cup {u}
    BY <1>1, LoginEffect, SameLogin DEF LoginStep, Joins, Stores
  <2>2. UNCHANGED <<userToken, eligible, owner, isUse, lateVerify, ask, use>>
    BY <1>1 DEF LoginStep, verifyVars
  <2> QED BY <2>1, <2>2 DEF Verify!Next, Verify!Environment, Verify!Administer,
                            Verify!vars, Verify!rows
<1>2. CASE ExchangeStep
  <2>1. UNCHANGED <<users, eligible, owner, isUse, lateVerify, ask, use>>
    BY <1>2 DEF ExchangeStep, verifyVars
  <2>2. userToken' = userToken \/ \E u \in User, t \in UToken : Verify!Rotate(u, t)
    BY <1>2, <2>1, ExchangeRotates DEF ExchangeStep
  <2> QED BY <2>1, <2>2 DEF Verify!Next, Verify!Environment, Verify!vars, Verify!rows
<1>3. CASE VerifyStep
  BY <1>3 DEF VerifyStep, Verify!Next, Verify!Step
<1>4. CASE Crash
  BY <1>4 DEF Crash, Verify!Next, Verify!Step
<1>5. CASE Administrators
  <2>1. UNCHANGED <<userToken, owner, isUse, lateVerify, ask, use>>
    BY <1>5 DEF Administrators, verifyVars
  <2>2. users \subseteq User
    BY DEF LoginP!IInv, LoginP!TypeOK
  <2>3. UNCHANGED <<users, eligible>> \/ \E u \in User : Verify!Administer(u)
    BY <1>5, <2>1, <2>2 DEF Administrators, Verify!Administer
  <2> QED BY <2>1, <2>3 DEF Verify!Next, Verify!Environment, Verify!vars, Verify!rows
<1>6. CASE UNCHANGED vars
  BY <1>6 DEF vars, verifyVars, Verify!vars
<1> QED BY <1>1, <1>2, <1>3, <1>4, <1>5, <1>6 DEF Next

-----------------------------------------------------------------------------
(* What ties the components is kept: rows are not taken back, what a token *)
(* was drawn for is settled, a call keeps the login token it was given.    *)
RowsGrow ==
  \A t \in LToken, u \in User : rows[t][u] > 0 => rows'[t][u] > 0

DrawnStays ==
  \A t \in UToken : drawnFor[t] # None => drawnFor'[t] = drawnFor[t]

GettersKeep ==
  \A g \in Getter : /\ get[g].tok # None => get'[g].tok = get[g].tok
                    /\ get[g].drew \subseteq get'[g].drew

LEMMA RowsStay ==
  ASSUME UniqueNames, LoginP!IInv, [Next]_vars
  PROVE  RowsGrow
<1>1. CASE LoginStep
  <2>1. rows' = rows \/ \E c \in Caller : \E us : Stores(c, us)
    BY <1>1, LoginEffect, SameLogin DEF LoginStep, Joins
  <2>2. ASSUME NEW c \in Caller, NEW us, Stores(c, us)
        PROVE  RowsGrow
    BY <2>2 DEF Stores, LoginP!Store, LoginP!IInv, LoginP!TypeOK, RowsGrow
  <2> QED BY <2>1, <2>2 DEF RowsGrow
<1>2. CASE ~LoginStep
  <2>1. rows' = rows
    BY <1>2 DEF Next, ExchangeStep, VerifyStep, Crash, Administrators, loginVars, vars
  <2> QED BY <2>1 DEF RowsGrow
<1> QED BY <1>1, <1>2

\* A call of gettoken that forgets what it has read keeps what it was sent and
\* what it drew.
LEMMA ForgetKeeps ==
  ASSUME NEW r \in ExchangeP!GetState
  PROVE  LET f == Exchange!Forget(r)
             o == Exchange!Over(r)
         IN  /\ f.tok = r.tok /\ f.drew = r.drew
             /\ o.tok = r.tok /\ o.drew = r.drew
             /\ DOMAIN f = DOMAIN r /\ DOMAIN o = DOMAIN r
BY DEF ExchangeP!GetState, Exchange!Forget, Exchange!Over

\* What a step of one call of gettoken leaves of it and of the others.
Advances(g) ==
  /\ get'[g].pc \in {"select", "update", "done"}
  /\ get'[g].tok = get[g].tok
  /\ get[g].drew \subseteq get'[g].drew
  /\ \A h \in Getter : h # g => get'[h] = get[h]

LEMMA AnswerAdvances ==
  ASSUME ExchangeP!IInv, NEW g \in Getter, NEW code, Exchange!Answer(g, code)
  PROVE  Advances(g)
<1> get \in [Getter -> ExchangeP!GetState]
  BY DEF ExchangeP!IInv, ExchangeP!TypeOK
<1> DEFINE o == Exchange!Over(get[g])
           n == [o EXCEPT !.pc = "done", !.code = code]
<1>1. get' = [get EXCEPT ![g] = n]
  BY DEF Exchange!Answer
<1>2. o.tok = get[g].tok /\ o.drew = get[g].drew /\ DOMAIN o = DOMAIN get[g]
  BY ForgetKeeps
<1> HIDE DEF o
<1>3. n.pc = "done" /\ n.tok = get[g].tok /\ n.drew = get[g].drew
  BY <1>2 DEF ExchangeP!GetState
<1> QED BY <1>1, <1>3 DEF Advances

LEMMA RetryAdvances ==
  ASSUME ExchangeP!IInv, NEW g \in Getter, Exchange!Retry(g)
  PROVE  Advances(g)
<1> get \in [Getter -> ExchangeP!GetState]
  BY DEF ExchangeP!IInv, ExchangeP!TypeOK
<1>1. CASE get[g].try < kMaxRetries
  <2> DEFINE f == Exchange!Forget(get[g])
             n == [f EXCEPT !.pc = "select", !.try = get[g].try + 1]
  <2>1. get' = [get EXCEPT ![g] = n]
    BY <1>1 DEF Exchange!Retry
  <2>2. f.tok = get[g].tok /\ f.drew = get[g].drew /\ DOMAIN f = DOMAIN get[g]
    BY ForgetKeeps
  <2> HIDE DEF f
  <2>3. n.pc = "select" /\ n.tok = get[g].tok /\ n.drew = get[g].drew
    BY <2>2 DEF ExchangeP!GetState
  <2> QED BY <2>1, <2>3 DEF Advances
<1>2. CASE ~(get[g].try < kMaxRetries)
  BY <1>2, AnswerAdvances DEF Exchange!Retry
<1> QED BY <1>1, <1>2

LEMMA DrawAdvances ==
  ASSUME ExchangeP!IInv, NEW g \in Getter, NEW u, Exchange!Draw(g, u)
  PROVE  Advances(g)
BY DEF ExchangeP!IInv, ExchangeP!TypeOK, ExchangeP!GetState, Exchange!Draw, Advances

\* A call of gettoken, once it has its text.
LEMMA GetterSteps ==
  ASSUME ExchangeP!IInv, NEW g \in Getter, Exchange!GetterStep(g)
  PROVE  get[g].pc \in {"select", "update"} /\ Advances(g)
<1>1. CASE Exchange!Select(g)
  <2>1. \/ \E code : Exchange!Answer(g, code)
        \/ Exchange!Retry(g)
        \/ \E u : Exchange!Draw(g, u)
    BY <1>1 DEF Exchange!Select, Exchange!SelectPlain, Exchange!SelectQuoted
  <2>2. get[g].pc = "select"
    BY <1>1 DEF Exchange!Select
  <2> QED BY <2>1, <2>2, AnswerAdvances, RetryAdvances, DrawAdvances
<1>2. CASE Exchange!Update(g)
  <2>1. \/ \E code : Exchange!Answer(g, code)
        \/ Exchange!Retry(g)
        \/ Exchange!Deliver(g)
    BY <1>2 DEF Exchange!Update
  <2>2. Exchange!Deliver(g) => Advances(g)
    BY DEF ExchangeP!IInv, ExchangeP!TypeOK, ExchangeP!GetState,
           Exchange!Deliver, Advances
  <2>3. get[g].pc = "update"
    BY <1>2 DEF Exchange!Update
  <2> QED BY <2>1, <2>2, <2>3, AnswerAdvances, RetryAdvances
<1> QED BY <1>1, <1>2 DEF Exchange!GetterStep

\* A token drawn by a step was drawn by a call of gettoken, for the user of the
\* row of login_token it has found, if it was sent a login token.
Draws ==
  \A t \in UToken :
    \/ drawnFor'[t] = drawnFor[t]
    \/ /\ drawnFor[t] = None
       /\ drawnFor'[t] \in User
       /\ \E g \in Getter :
            /\ t \in get'[g].drew
            /\ get'[g].tok \in LToken => rows[get'[g].tok][drawnFor'[t]] > 0

LEMMA DrawDraws ==
  ASSUME IInv, NEW g \in Getter, NEW u \in User, Exchange!Draw(g, u),
         get[g].tok \in LToken => rows[get[g].tok][u] > 0
  PROVE  Draws
<1> /\ get \in [Getter -> ExchangeP!GetState]
    /\ drawnFor \in [UToken -> User \cup {None}]
  BY DEF IInv, ExchangeP!IInv, ExchangeP!TypeOK
<1>1. PICK t \in UToken :
        /\ drawnFor[t] = None
        /\ drawnFor' = [drawnFor EXCEPT ![t] = u]
        /\ get' = [get EXCEPT ![g].pc = "update", ![g].user = u, ![g].out = t,
                              ![g].drew = @ \cup {t}]
  BY DEF Exchange!Draw
<1>2. get'[g].tok = get[g].tok /\ t \in get'[g].drew
  BY <1>1 DEF ExchangeP!GetState
<1>3. drawnFor'[t] = u /\ \A k \in UToken : k # t => drawnFor'[k] = drawnFor[k]
  BY <1>1
<1> QED BY <1>1, <1>2, <1>3 DEF Draws

LEMMA SelectDraws ==
  ASSUME IInv, NEW g \in Getter, Exchange!GetterStep(g)
  PROVE  Draws
<1>1. CASE UNCHANGED drawnFor
  BY <1>1 DEF Draws
<1>2. CASE Exchange!Update(g)
  BY <1>1, <1>2 DEF Exchange!Update
<1>3. CASE get[g].tok \in LToken /\ Exchange!SelectPlain(g)
  <2>1. ASSUME NEW l \in Exchange!Found(get[g].tok), Exchange!Draw(g, l.user)
        PROVE  Draws
    <3>1. l.tok = get[g].tok /\ l.user \in User /\ rows[l.tok][l.user] > 0
      BY DEF Exchange!Found, Sessions
    <3> QED BY <2>1, <3>1, DrawDraws
  <2> QED BY <1>1, <1>3, <2>1 DEF Exchange!SelectPlain
<1>4. CASE get[g].tok \in Quoted /\ Exchange!SelectQuoted(g)
  <2>1. get[g].tok \notin LToken
    BY <1>4, SameAssumptions DEF ExchangeP!UserTokenAssumption
  <2> QED BY <1>1, <1>4, <2>1, DrawDraws DEF Exchange!SelectQuoted
<1> QED BY <1>1, <1>2, <1>3, <1>4 DEF Exchange!GetterStep, Exchange!Select

LEMMA GetterLinks ==
  ASSUME IInv, [Next]_vars
  PROVE  GettersKeep /\ GettersStarted' /\ Draws
<1> USE DEF GettersKeep, GettersStarted
<1> GettersStarted
  BY DEF IInv, Linked, DrawLinked
<1> get \in [Getter -> ExchangeP!GetState]
  BY DEF IInv, ExchangeP!IInv, ExchangeP!TypeOK
<1>1. CASE UNCHANGED <<get, drawnFor>>
  BY <1>1 DEF Draws
<1>2. ASSUME NEW g \in Getter, Exchange!GetterStep(g)
      PROVE  GettersKeep /\ GettersStarted' /\ Draws
  <2>1. Draws
    BY <1>2, SelectDraws
  <2>2. get[g].pc \in {"select", "update"} /\ Advances(g)
    BY <1>2, GetterSteps DEF IInv
  <2>3. get[g].tok # None
    BY <2>2
  <2> QED BY <2>1, <2>2, <2>3 DEF Advances
<1>3. ASSUME NEW g \in Getter, NEW t \in Exchange!Text \cup {None}, Exchange!Get(g, t)
      PROVE  GettersKeep /\ GettersStarted' /\ Draws
  <2>1. get[g].pc = "new" /\ get[g].tok = None /\ get[g].drew = {} /\ Draws
    BY <1>3 DEF Exchange!Get, Draws
  <2>2. CASE t = None
    <3>1. Exchange!Answer(g, 1)
      BY <1>3, <2>2 DEF Exchange!Get
    <3> DEFINE o == Exchange!Over(get[g])
               n == [o EXCEPT !.pc = "done", !.code = 1]
    <3>2. get' = [get EXCEPT ![g] = n]
      BY <3>1 DEF Exchange!Answer
    <3>3. o.tok = get[g].tok /\ o.drew = get[g].drew /\ DOMAIN o = DOMAIN get[g]
      BY ForgetKeeps
    <3> HIDE DEF o
    <3>4. n.pc = "done" /\ n.tok = None /\ n.drew = {}
      BY <2>1, <3>3 DEF ExchangeP!GetState
    <3> QED BY <2>1, <3>2, <3>4
  <2>3. CASE t # None
    BY <1>3, <2>1, <2>3 DEF Exchange!Get, ExchangeP!GetState
  <2> QED BY <2>2, <2>3
<1>4. CASE Crash
  <2>1. /\ get' = [g \in Getter |-> Exchange!Lose(get[g], Exchange!Over(get[g]))]
        /\ drawnFor' = drawnFor
    BY <1>4 DEF Crash, Exchange!Crash
  <2>2. ASSUME NEW g \in Getter
        PROVE  /\ get'[g] = get[g] \/ get'[g].pc = "lost"
               /\ get'[g].tok = get[g].tok
               /\ get'[g].drew = get[g].drew
    <3> DEFINE o == Exchange!Over(get[g])
               n == [o EXCEPT !.pc = "lost"]
    <3>1. get'[g] \in {get[g], n}
      BY <2>1 DEF Exchange!Lose
    <3>2. o.tok = get[g].tok /\ o.drew = get[g].drew /\ DOMAIN o = DOMAIN get[g]
      BY ForgetKeeps
    <3> HIDE DEF o
    <3>3. n.pc = "lost" /\ n.tok = get[g].tok /\ n.drew = get[g].drew
      BY <3>2 DEF ExchangeP!GetState
    <3> HIDE DEF n
    <3> QED BY <3>1, <3>3
  <2> QED BY <2>1, <2>2 DEF Draws
<1>5. CASE ExchangeStep
  <2>1. ASSUME NEW w \in Reader, NEW t \in Exchange!Text \cup {None},
               Exchange!Read(w, t) \/ Exchange!ReaderStep(w)
        PROVE  UNCHANGED <<get, drawnFor>>
    BY <2>1 DEF Exchange!Read, Exchange!ReaderStep, Exchange!ReadLogin,
                Exchange!ReadUser
  <2>2. ASSUME NEW s \in lateUser, Exchange!LateUpdate(s)
        PROVE  UNCHANGED <<get, drawnFor>>
    BY <2>2 DEF Exchange!LateUpdate
  <2> QED BY <1>1, <1>2, <1>3, <1>5, <2>1, <2>2 DEF ExchangeStep, Exchange!Serve
<1>6. CASE LoginStep \/ VerifyStep \/ Administrators \/ UNCHANGED vars
  BY <1>1, <1>6 DEF LoginStep, VerifyStep, Administrators, vars, userVars
<1> QED BY <1>4, <1>5, <1>6 DEF Next

LEMMA DrawLinkedStep ==
  ASSUME UniqueNames, IInv, [Next]_vars
  PROVE  DrawLinked' /\ DrawnStays
<1>1. RowsGrow
  BY RowsStay DEF IInv
<1>2. GettersKeep /\ GettersStarted' /\ Draws
  BY GetterLinks
<1>3. \A t \in UToken : drawnFor[t] # None => drawnFor[t] \in User /\ Backed(t, drawnFor[t])
  BY DEF IInv, Linked, DrawLinked, ExchangeP!IInv, ExchangeP!TypeOK
<1>4. \A t \in UToken : drawnFor'[t] # None => Backed(t, drawnFor[t])'
  <2> SUFFICES ASSUME NEW t \in UToken, drawnFor'[t] # None
               PROVE  Backed(t, drawnFor[t])'
    OBVIOUS
  <2>1. CASE drawnFor'[t] = drawnFor[t]
    <3> DEFINE u == drawnFor[t]
    <3>1. u \in User /\ Backed(t, u)
      BY <1>3, <2>1
    <3> GettersStarted
      BY DEF IInv, Linked, DrawLinked
    <3>2. PICK g \in Getter : Backs(g, t, u)
      BY <3>1 DEF Backed
    <3>3. get'[g].tok = get[g].tok /\ t \in get'[g].drew
      BY <1>2, <3>2 DEF Backs, GettersKeep, GettersStarted
    <3> QED BY <1>1, <2>1, <3>1, <3>2, <3>3 DEF Backed, Backs, RowsGrow
  <2>2. CASE drawnFor'[t] # drawnFor[t]
    BY <1>1, <1>2, <2>2 DEF Draws, RowsGrow, Backed, Backs
  <2> QED BY <2>1, <2>2
<1>5. DrawnStays
  BY <1>2 DEF Draws, DrawnStays
<1> QED BY <1>2, <1>4, <1>5 DEF DrawLinked, GettersStarted

-----------------------------------------------------------------------------
LEMMA AskKept ==
  ASSUME DrawnStays, NEW i \in Issuer, AskOK(i),
         \/ ask'[i] = ask[i]
         \/ /\ ask'[i].pc \notin {"new", "check"}
            /\ ask'[i].tok = ask[i].tok
            /\ ask'[i].vt = ask[i].vt
            /\ ask'[i].user = ask[i].user
  PROVE  AskOK(i)'
BY SameAssumptions DEF AskOK, DrawnStays, VerifyP!VerifyAssumption

LEMMA CheckLinks ==
  ASSUME IInv, NEW i \in Issuer, Verify!Check(i), UNCHANGED drawnFor
  PROVE  AskOK(i)'
<1> ask \in [Issuer -> VerifyP!AskState] /\ ask[i].pc = "check"
  BY DEF IInv, VerifyP!IInv, VerifyP!TypeOK, Verify!Check
<1>1. AskOK(i) /\ ask[i].vt = None
  BY DEF IInv, Linked, AskLinked, VerifyP!IInv, VerifyP!DrawInv
<1>2. ASSUME NEW u \in users, NEW v \in Verify!Fresh, Verify!MayAsk(u, ask[i].tok),
             ask' = [ask EXCEPT ![i].pc = "insert", ![i].user = u, ![i].vt = v]
      PROVE  AskOK(i)'
  <2>1. u \in User /\ userToken[u] = ask[i].tok
    BY <1>2 DEF Verify!MayAsk, IInv, VerifyP!IInv, VerifyP!TypeOK
  <2>2. ask[i].tok \in UToken
    BY <1>1 DEF AskOK, VerifyP!AskState
  <2>3. drawnFor[ask[i].tok] = u
    BY <1>1, <2>1 DEF AskOK, IInv, ExchangeP!IInv, ExchangeP!DrawnInv
  <2>4. ask'[i].pc = "insert" /\ ask'[i].user = u /\ ask'[i].tok = ask[i].tok
    BY <1>2 DEF VerifyP!AskState
  <2> QED BY <2>1, <2>2, <2>3, <2>4 DEF AskOK
<1>3. ASSUME NEW code, Verify!AskAnswer(i, code)
      PROVE  AskOK(i)'
  <2>1. ask'[i].pc = "done" /\ ask'[i].vt = None
    BY <1>1, <1>3 DEF Verify!AskAnswer, VerifyP!AskState
  <2> QED BY <2>1 DEF AskOK
<1> QED BY <1>2, <1>3 DEF Verify!Check

LEMMA AskLinkedStep ==
  ASSUME UniqueNames, IInv, [Next]_vars
  PROVE  AskLinked'
<1> ask \in [Issuer -> VerifyP!AskState] /\ AskLinked
  BY DEF IInv, Linked, VerifyP!IInv, VerifyP!TypeOK
<1> DrawnStays
  BY DrawLinkedStep
<1>1. CASE UNCHANGED ask
  BY <1>1, AskKept DEF AskLinked
<1>2. CASE VerifyStep
  <2> UNCHANGED drawnFor
    BY <1>2 DEF VerifyStep, userVars
  <2>1. ASSUME NEW i \in Issuer, AskOK(i)', \A j \in Issuer : j # i => ask'[j] = ask[j]
        PROVE  AskLinked'
    BY <2>1, AskKept DEF AskLinked
  <2>2. ASSUME NEW i \in Issuer, NEW t \in UToken \cup {None}, Verify!Ask(i, t)
        PROVE  AskLinked'
    <3>1. AskOK(i)'
      BY <2>2 DEF Verify!Ask, Verify!AskAnswer, VerifyP!AskState, AskLinked, AskOK
    <3>2. \A j \in Issuer : j # i => ask'[j] = ask[j]
      BY <2>2 DEF Verify!Ask, Verify!AskAnswer
    <3> QED BY <3>1, <3>2, <2>1
  <2>3. ASSUME NEW i \in Issuer, Verify!Check(i)
        PROVE  AskLinked'
    <3>1. AskOK(i)'
      BY <2>3, CheckLinks
    <3>2. \A j \in Issuer : j # i => ask'[j] = ask[j]
      BY <2>3 DEF Verify!Check, Verify!AskAnswer
    <3> QED BY <3>1, <3>2, <2>1
  <2>4. ASSUME NEW i \in Issuer, Verify!Insert(i)
        PROVE  AskLinked'
    <3>1. PICK code : Verify!AskAnswer(i, code)
      BY <2>4 DEF Verify!Insert
    <3>2. /\ ask'[i].pc = "done" /\ ask'[i].tok = ask[i].tok
          /\ ask'[i].vt = ask[i].vt /\ ask'[i].user = ask[i].user
      BY <3>1 DEF Verify!AskAnswer, VerifyP!AskState
    <3>3. \A j \in Issuer : j # i => ask'[j] = ask[j]
      BY <3>1 DEF Verify!AskAnswer
    <3>4. AskOK(i)'
      BY <3>2, AskKept DEF AskLinked
    <3> QED BY <3>3, <3>4, <2>1
  <2>5. ASSUME NEW r \in Redeemer, NEW v \in VToken \cup {None},
               \/ Verify!Present(r, v)
               \/ Verify!Look(r) \/ Verify!Use(r) \/ Verify!Fetch(r)
        PROVE  UNCHANGED ask
    BY <2>5 DEF Verify!Present, Verify!Look, Verify!Use, Verify!Fetch
  <2>6. ASSUME NEW s \in lateVerify, Verify!LateStatement(s)
        PROVE  UNCHANGED ask
    BY <2>6 DEF Verify!LateStatement
  <2> QED BY <1>1, <1>2, <2>2, <2>3, <2>4, <2>5, <2>6 DEF VerifyStep, Verify!Serve
<1>3. CASE Crash
  <2>1. ask' = [i \in Issuer |-> Verify!Lose(ask[i])]
    BY <1>3 DEF Crash, Verify!Crash
  <2>2. ASSUME NEW i \in Issuer
        PROVE  \/ ask'[i] = ask[i]
               \/ /\ ask'[i].pc = "lost" /\ ask'[i].tok = ask[i].tok
                  /\ ask'[i].vt = ask[i].vt /\ ask'[i].user = ask[i].user
    BY <2>1 DEF Verify!Lose, VerifyP!AskState
  <2> QED BY <2>2, AskKept DEF AskLinked
<1>4. CASE LoginStep \/ ExchangeStep \/ Administrators \/ UNCHANGED vars
  BY <1>1, <1>4 DEF LoginStep, ExchangeStep, Administrators, verifyVars, vars
<1> QED BY <1>2, <1>3, <1>4 DEF Next

-----------------------------------------------------------------------------
LEMMA InitIInv == Init => IInv
<1> SUFFICES ASSUME Init PROVE IInv
  OBVIOUS
<1>1. LoginP!IInv /\ ExchangeP!IInv /\ VerifyP!IInv
  BY SameAssumptions, SameLogin, SameExchange, SameVerify, LoginP!InitIInv,
     ExchangeP!InitIInv, VerifyP!InitIInv DEF Init
<1>2. Linked
  BY DEF Init, Exchange!Init, Verify!Init, Linked, AskLinked, AskOK, DrawLinked,
         GettersStarted
<1> QED BY <1>1, <1>2 DEF IInv

LEMMA NextIInv == UniqueNames /\ IInv /\ [Next]_vars => IInv'
<1> SUFFICES ASSUME UniqueNames, IInv, [Next]_vars PROVE IInv'
  OBVIOUS
<1> LoginP!IInv /\ ExchangeP!IInv /\ VerifyP!IInv
  BY DEF IInv
<1>1. LoginP!IInv'
  BY SameAssumptions, SameLogin, LoginSteps, LoginP!NextIInv
<1>2. ExchangeP!IInv'
  BY SameAssumptions, SameExchange, ExchangeSteps, ExchangeP!NextIInv
<1>3. VerifyP!IInv'
  BY SameAssumptions, SameVerify, VerifySteps, VerifyP!NextIInv
<1>4. Linked'
  BY AskLinkedStep, DrawLinkedStep DEF Linked
<1> QED BY <1>1, <1>2, <1>3, <1>4 DEF IInv

LEMMA Inductive == ASSUME UniqueNames PROVE Spec => []IInv
BY InitIInv, NextIInv, PTL DEF Spec

(* README.md:62: an id web_v_token tells is the id of an account whose     *)
(* name and password were presented to log, reg or adlog, if the calls of  *)
(* gettoken were sent tokens.                                              *)
THEOREM IdentityProvenCorrect ==
  ASSUME UniqueNames
  PROVE  Spec => []IdentityProven
<1>1. ASSUME IInv PROVE IdentityProven
  <2> SUFFICES ASSUME NEW r \in Redeemer, Verify!Succeeded(r)
               PROVE  LET u == use[r].user IN
                      \E i \in Issuer, g \in Getter :
                        /\ ask[i].vt = use[r].tok
                        /\ drawnFor[ask[i].tok] = u
                        /\ ask[i].tok \in get[g].drew
                        /\ get[g].tok \in LToken =>
                             \E c \in Caller : /\ call[c].tok = get[g].tok
                                               /\ account[u] = Login!Presented(c)
    BY DEF IdentityProven
  <2> DEFINE u == use[r].user
  <2>1. /\ use[r].tok \in VToken
        /\ owner[use[r].tok] # None
        /\ u = owner[use[r].tok]
    BY <1>1 DEF IInv, VerifyP!IInv, VerifyP!ReadInv, VerifyP!Passed, Verify!Succeeded
  <2>2. PICK i \in Issuer : ask[i].vt = use[r].tok /\ ask[i].user = u
    BY <1>1, <2>1 DEF IInv, VerifyP!IInv, VerifyP!OwnerInv
  <2>3. /\ ask[i].tok \in UToken /\ u \in User
        /\ drawnFor[ask[i].tok] = u
    BY <1>1, <2>1, <2>2, SameAssumptions
       DEF IInv, Linked, AskLinked, AskOK, VerifyP!VerifyAssumption
  <2>4. PICK g \in Getter : Backs(g, ask[i].tok, u)
    BY <1>1, <2>3, SameAssumptions
       DEF IInv, Linked, DrawLinked, Backed, VerifyP!VerifyAssumption
  <2>5. get[g].tok \in LToken =>
          \E c \in Caller : call[c].tok = get[g].tok /\ account[u] = LoginP!Presented(c)
    BY <1>1, <2>3, <2>4 DEF Backs, IInv, LoginP!IInv, LoginP!Authentic
  <2>6. \A c \in Caller : Login!Presented(c) = LoginP!Presented(c)
    BY DEF Login!Presented, LoginP!Presented
  <2> QED BY <2>2, <2>3, <2>4, <2>5, <2>6 DEF Backs
<1> QED BY <1>1, Inductive, PTL

(* LoginSession and the administrators are an environment UserToken        *)
(* allows.                                                                 *)
THEOREM UserTokenRefinement ==
  ASSUME UniqueNames
  PROVE  Spec => ImplementsUserToken
<1>1. Init => Exchange!Init
  BY DEF Init
<1>2. IInv /\ [Next]_vars => [Exchange!Next]_(Exchange!vars)
  BY ExchangeSteps DEF IInv
<1> QED BY <1>1, <1>2, Inductive, PTL DEF Spec, ImplementsUserToken, Exchange!Spec

(* UserToken, LoginSession and the administrators are an environment       *)
(* VerifyToken allows.                                                     *)
THEOREM VerifyTokenRefinement ==
  ASSUME UniqueNames
  PROVE  Spec => ImplementsVerifyToken
<1>1. Init => Verify!Init
  BY DEF Init
<1>2. IInv /\ [Next]_vars => [Verify!Next]_(Verify!vars)
  BY VerifySteps DEF IInv
<1> QED BY <1>1, <1>2, Inductive, PTL DEF Spec, ImplementsVerifyToken, Verify!Spec
=============================================================================
