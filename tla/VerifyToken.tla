---------------------------- MODULE VerifyToken ----------------------------
(***************************************************************************)
(* One-time verify tokens: v_token makes one for the owner of a user.token *)
(* and web_v_token exchanges it, once, for the owner's id.                 *)
(*                                                                         *)
(* The calls run on the business threads and interleave at every statement *)
(* they send to MySQL; a statement is atomic (the tables are MyISAM), but  *)
(* nothing groups statements.  A statement whose connection fails is       *)
(* reported as an exception although the server may still execute it, at   *)
(* once or later: it is put in late.  A token drawn from TokenCache was    *)
(* never drawn before.                                                     *)
(***************************************************************************)
CONSTANTS
  Issuer,    \* calls of v_token
  Redeemer,  \* calls of web_v_token
  User,      \* ids of users
  UToken,    \* values of user.token
  VToken,    \* values of user_verify_token.token
  None       \* no value

ASSUME VerifyAssumption == None \notin User \cup UToken \cup VToken

VARIABLES
  users,      \* rows of user
  userToken,  \* column user.token, None when empty
  eligible,   \* users not banned whose group has get_user_verify_token
  owner,      \* column user_verify_token.user_id, None when there is no row
  isUse,      \* tokens with is_use = 1
  late,       \* statements reported as failed that may still be executed
  ask,        \* the calls of v_token
  use         \* the calls of web_v_token

rows == <<owner, isUse, late>>
env  == <<users, userToken, eligible>>
vars == <<users, userToken, eligible, owner, isUse, late, ask, use>>

\* TokenCache::Get returns a token nobody has drawn.
Drawn == {ask[i].vt : i \in Issuer}
Fresh == VToken \ Drawn

-----------------------------------------------------------------------------
(* v_token                                                                 *)
AskAnswer(i, c) ==
  ask' = [ask EXCEPT ![i].pc = "done", ![i].code = c]

\* A request arrives with a token, or without (None).
Ask(i, t) ==
  /\ ask[i].pc = "new"
  /\ IF t = None THEN AskAnswer(i, 1)
                 ELSE ask' = [ask EXCEPT ![i].pc = "check", ![i].tok = t]
  /\ UNCHANGED <<env, rows, use>>

\* check_permission_get_user, then TokenCache::Get.
MayAsk(u, t) == u \in eligible /\ userToken[u] = t

Check(i) ==
  /\ ask[i].pc = "check"
  /\ \/ \E u \in users, v \in Fresh :
          /\ MayAsk(u, ask[i].tok)
          /\ ask' = [ask EXCEPT ![i].pc = "insert", ![i].user = u, ![i].vt = v]
     \/ /\ \A u \in users : ~MayAsk(u, ask[i].tok)
        /\ AskAnswer(i, 4)
     \/ AskAnswer(i, 500)   \* the SELECT throws, process_request answers
  /\ UNCHANGED <<env, rows, use>>

\* s_verifytoken: INSERT INTO user_verify_token (user_id, token).
InsertOther(v, u) ==  \* fault: another integer column of the user bound
  \E w \in User : owner' = [owner EXCEPT ![v] = w]
InsertRow(v, u) == owner' = [owner EXCEPT ![v] = u]

Insert(i) ==
  /\ ask[i].pc = "insert"
  /\ \/ /\ InsertRow(ask[i].vt, ask[i].user)
        /\ AskAnswer(i, 0)
        /\ UNCHANGED late
     \/ /\ late' = late \cup {[op |-> "insert", tok |-> ask[i].vt,
                               user |-> ask[i].user]}
        /\ AskAnswer(i, 3)
        /\ UNCHANGED owner
  /\ UNCHANGED <<env, isUse, use>>

-----------------------------------------------------------------------------
(* web_v_token                                                             *)
UseAnswer(r, c) ==
  use' = [use EXCEPT ![r].pc = "done", ![r].code = c]

Present(r, v) ==
  /\ use[r].pc = "new"
  /\ IF v = None THEN UseAnswer(r, 1)
                 ELSE use' = [use EXCEPT ![r].pc = "look", ![r].tok = v]
  /\ UNCHANGED <<env, rows, ask>>

\* vetoken: the row is read, and is_use with it.
Look(r) ==
  LET v == use[r].tok IN
  /\ use[r].pc = "look"
  /\ \/ owner[v] = None /\ UseAnswer(r, 2)
     \/ owner[v] # None /\ v \in isUse /\ UseAnswer(r, 3)
     \/ /\ owner[v] # None /\ v \notin isUse
        /\ use' = [use EXCEPT ![r].pc = "use", ![r].user = owner[v]]
     \/ UseAnswer(r, 500)
  /\ UNCHANGED <<env, rows, ask>>

\* use_verifytoken: UPDATE ... SET is_use = 1 WHERE token = ? AND is_use = 0,
\* true when a row was affected.
AnyRow(v)   == TRUE            \* fault: AND is_use = 0 forgotten
Affected(v) == v \notin isUse
MarkAll(v)  == isUse' = VToken  \* fault: WHERE is_use = 0 only
MarkUsed(v) == isUse' = isUse \cup {v}

Use(r) ==
  LET v == use[r].tok IN
  /\ use[r].pc = "use"
  /\ \/ /\ Affected(v)
        /\ MarkUsed(v)
        /\ use' = [use EXCEPT ![r].pc = "fetch"]
        /\ UNCHANGED late
     \/ /\ ~Affected(v)
        /\ UseAnswer(r, 4)
        /\ UNCHANGED <<isUse, late>>
     \/ /\ late' = late \cup {[op |-> "use", tok |-> v, user |-> use[r].user]}
        /\ UseAnswer(r, 4)
        /\ UNCHANGED isUse
  /\ UNCHANGED <<env, owner, ask>>

\* id_user on the user_id read by vetoken.
Fetch(r) ==
  /\ use[r].pc = "fetch"
  /\ \/ use[r].user \in users /\ UseAnswer(r, 0)
     \/ use[r].user \notin users /\ UseAnswer(r, 5)
     \/ UseAnswer(r, 500)
  /\ UNCHANGED <<env, rows, ask>>

-----------------------------------------------------------------------------
\* The server executes a statement whose connection had failed (external);
\* it stays in late, for both statements have the same effect a second time.
LateStatement(s) ==
  /\ s \in late
  /\ IF s.op = "insert"
     THEN InsertRow(s.tok, s.user) /\ UNCHANGED isUse
     ELSE MarkUsed(s.tok) /\ UNCHANGED owner
  /\ UNCHANGED <<env, late, ask, use>>

\* The process stops: calls under way are lost, the tables stay.
Lose(call) ==
  IF call.pc \in {"new", "done"} THEN call ELSE [call EXCEPT !.pc = "lost"]

Crash ==
  /\ ask' = [i \in Issuer |-> Lose(ask[i])]
  /\ use' = [r \in Redeemer |-> Lose(use[r])]
  /\ UNCHANGED <<env, rows>>

\* What the threads and the database do.
Serve ==
  \/ \E i \in Issuer : \/ \E t \in UToken \cup {None} : Ask(i, t)
                       \/ Check(i) \/ Insert(i)
  \/ \E r \in Redeemer : \/ \E v \in VToken \cup {None} : Present(r, v)
                         \/ Look(r) \/ Use(r) \/ Fetch(r)
  \/ \E s \in late : LateStatement(s)

Step == Serve \/ Crash

(* The rest of the system, as this component relies on it: get_token gives *)
(* a user a user.token no other user has; reg adds users; administrators   *)
(* ban, release, promote and remove them in the database; bans expire.     *)
Rotate(u, t) ==
  /\ u \in users
  /\ \A w \in User : userToken[w] # t
  /\ userToken' = [userToken EXCEPT ![u] = t]
  /\ UNCHANGED <<users, eligible>>

Administer(u) ==
  /\ \/ eligible' = eligible \ {u} /\ UNCHANGED users
     \/ u \in users /\ eligible' = eligible \cup {u} /\ UNCHANGED users
     \/ users' = users \cup {u} /\ UNCHANGED eligible
     \/ users' = users \ {u} /\ eligible' = eligible \ {u}
  /\ UNCHANGED userToken

Environment ==
  /\ \E u \in User : Administer(u) \/ \E t \in UToken : Rotate(u, t)
  /\ UNCHANGED <<rows, ask, use>>

Init ==
  /\ users \in SUBSET User
  /\ userToken = [u \in User |-> None]
  /\ eligible \in SUBSET users
  /\ owner = [v \in VToken |-> None]
  /\ isUse = {}
  /\ late = {}
  /\ ask = [i \in Issuer |-> [pc |-> "new", tok |-> None, user |-> None,
                              vt |-> None, code |-> 0]]
  /\ use = [r \in Redeemer |-> [pc |-> "new", tok |-> None, user |-> None,
                                code |-> 0]]

Next == Step \/ Environment

Spec == Init /\ [][Next]_vars

-----------------------------------------------------------------------------
\* The status codes of v_token.h and web_v_token.h; 500 answers an exception.
AskCode == {0, 1, 2, 3, 4, 500}
UseCode == {0, 1, 2, 3, 4, 5, 500}

AskState == [pc : {"new", "check", "insert", "done", "lost"},
             tok : UToken \cup {None}, user : User \cup {None},
             vt : VToken \cup {None}, code : AskCode]

UseState == [pc : {"new", "look", "use", "fetch", "done", "lost"},
             tok : VToken \cup {None}, user : User \cup {None},
             code : UseCode]

TypeOK ==
  /\ users \subseteq User
  /\ userToken \in [User -> UToken \cup {None}]
  /\ eligible \subseteq users
  /\ owner \in [VToken -> User \cup {None}]
  /\ isUse \subseteq VToken
  /\ late \subseteq [op : {"insert", "use"}, tok : VToken, user : User]
  /\ ask \in [Issuer -> AskState]
  /\ use \in [Redeemer -> UseState]

Succeeded(r) == use[r].pc = "done" /\ use[r].code = 0
Won(r) == \/ use[r].pc \in {"fetch", "lost"}
          \/ use[r].pc = "done" /\ use[r].code \in {0, 5, 500}

(* README.md:76, "is_use" against replay: of all the calls that present a  *)
(* token, however they interleave between vetoken and use_verifytoken,     *)
(* over crashes and lost connections, at most one is told whose it is.     *)
RedeemedAtMostOnce ==
  \A r, s \in Redeemer :
    Succeeded(r) /\ Succeeded(s) /\ use[r].tok = use[s].tok => r = s

(* README.md:62: the id given for a verify token is that of the user whose *)
(* user.token was presented when that verify token was drawn.              *)
RedeemerToldOwner ==
  \A r \in Redeemer : Succeeded(r) =>
    \E i \in Issuer : ask[i].vt = use[r].tok /\ ask[i].user = use[r].user

(* A used token was used for somebody: unless its UPDATE was reported as   *)
(* failed, one of the calls that presented it won the race, rather than    *)
(* all of them being told 4 (web_v_token.cpp:9-10).                        *)
SpentMeansWon ==
  \A v \in isUse :
    \/ \E r \in Redeemer : use[r].tok = v /\ Won(r)
    \/ \E s \in late : s.op = "use" /\ s.tok = v

Told == [r \in Redeemer |->
           IF Succeeded(r) THEN [tok |-> use[r].tok, user |-> use[r].user]
                           ELSE None]

OneTime == INSTANCE OneTimeToken WITH holder <- owner, told <- Told

(* The two handlers and the table implement one-time tokens.               *)
ImplementsOneTimeToken == OneTime!Spec
=============================================================================
