----------------------------- MODULE AuthChain -----------------------------
(***************************************************************************)
(* The authentication chain (README.md:62) in one process: LoginSession,   *)
(* UserToken and VerifyToken share the tables user and login_token.  A     *)
(* step is a step of one of them, a crash of the process, or a change made *)
(* by an administrator in the database.  What each component assumes of    *)
(* the rest of the system (its Environment) is checked of the other two.   *)
(* The time is left to UserToken: here no login token expires.             *)
(***************************************************************************)
EXTENDS Naturals

CONSTANTS
  Caller, Getter, Reader, Issuer, Redeemer,  \* the calls
  Name, Pass, User, LToken, Quoted, UToken, VToken, None, Form,
  kMaxRetries, UniqueNames

VARIABLES
  users, account, admins, rows, lateLogin, call,  \* LoginSession
  userToken, lateUser, drawnFor, get, read,       \* UserToken
  eligible, owner, isUse, lateVerify, ask, use    \* VerifyToken

loginVars  == <<account, admins, rows, lateLogin, call>>
userVars   == <<lateUser, drawnFor, get, read>>
verifyVars == <<owner, isUse, lateVerify, ask, use>>
vars == <<users, loginVars, userToken, userVars, eligible, verifyVars>>

Login == INSTANCE LoginSession WITH late <- lateLogin

\* The rows of login_token as gettoken and webgettoken see them.
Sessions ==
  {l \in [tok : LToken, user : User, expire : {0}] : rows[l.tok][l.user] > 0}

Exchange == INSTANCE UserToken
              WITH logins <- Sessions, late <- lateUser,
                   now <- 0, LoginExpire <- 0, MaxTime <- 0

Verify == INSTANCE VerifyToken WITH late <- lateVerify

ASSUME ChainAssumption ==
  Login!LoginAssumption /\ Exchange!UserTokenAssumption /\ Verify!VerifyAssumption

-----------------------------------------------------------------------------
LoginStep ==
  /\ UNCHANGED <<userToken, userVars, eligible, verifyVars>>
  /\ Login!Serve

ExchangeStep ==
  /\ UNCHANGED <<users, loginVars, eligible, verifyVars>>
  /\ Exchange!Serve

VerifyStep ==
  /\ UNCHANGED <<users, loginVars, userToken, userVars, eligible>>
  /\ Verify!Serve

\* The process stops with all the calls it was serving.
Crash ==
  /\ UNCHANGED <<users, account, admins, rows, eligible>>
  /\ Login!Crash
  /\ Exchange!Crash
  /\ Verify!Crash

\* Administrators, in the database.
Administrators ==
  /\ \E u \in users :
       \/ /\ admins' \in {admins \cup {u}, admins \ {u}}
          /\ UNCHANGED <<users, eligible>>
       \/ /\ eligible' \in {eligible \cup {u}, eligible \ {u}}
          /\ UNCHANGED <<users, admins>>
       \/ /\ users' = users \ {u}
          /\ admins' = admins \ {u}
          /\ eligible' = eligible \ {u}
  /\ UNCHANGED <<account, rows, lateLogin, call, userToken, userVars, verifyVars>>

Init ==
  /\ Login!Init
  /\ Exchange!Init
  /\ Verify!Init

Next == LoginStep \/ ExchangeStep \/ VerifyStep \/ Crash \/ Administrators

Spec == Init /\ [][Next]_vars

-----------------------------------------------------------------------------
(* README.md:62: an id web_v_token tells is the id of an account whose     *)
(* name and password were presented to log, reg or adlog: the verify token *)
(* was drawn for a user.token of that user, which a call of gettoken drew  *)
(* for a login token of that user, whatever the three components and the   *)
(* lost, late and repeated statements of each did in between.  The last    *)
(* link holds of a call that was sent a plain token: for another text      *)
(* get_token.cpp:28-30 does not establish whose it is.                     *)
IdentityProven ==
  \A r \in Redeemer : Verify!Succeeded(r) =>
    \E i \in Issuer, g \in Getter :
      /\ ask[i].vt = use[r].tok
      /\ drawnFor[ask[i].tok] = use[r].user
      /\ ask[i].tok \in get[g].drew
      /\ get[g].tok \in LToken =>
           \E c \in Caller : /\ call[c].tok = get[g].tok
                             /\ account[use[r].user] = Login!Presented(c)

(* LoginSession and the administrators are an environment UserToken        *)
(* allows: ids are new, a login token has rows of one user that exists.    *)
ImplementsUserToken == Exchange!Spec

(* UserToken and LoginSession are an environment VerifyToken allows: a     *)
(* user.token a user is given, late or not, is nobody else's.              *)
ImplementsVerifyToken == Verify!Spec
=============================================================================
