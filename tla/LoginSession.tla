---------------------------- MODULE LoginSession ----------------------------
(***************************************************************************)
(* The first link of the authentication chain (README.md:62): log, reg and *)
(* adlog exchange a name and a password for a login token, a row of        *)
(* login_token.                                                            *)
(*                                                                         *)
(* Calls interleave at every statement; a statement is atomic, nothing     *)
(* groups statements.  A statement whose connection fails may still be     *)
(* executed, once, at any later time: it is put in late.  Passwords stand  *)
(* for their MD5, and a token drawn from TokenCache was never drawn before.*)
(***************************************************************************)
EXTENDS Naturals

CONSTANTS
  Caller,      \* calls of log, reg and adlog
  Name, Pass,  \* legal names and passwords
  User,        \* ids of users
  LToken,      \* values of login_token.token
  None,        \* no value
  Form,        \* what can be wrong with a request: some of Rejection, or "good"
  kMaxRetries, \* of login_once
  UniqueNames  \* user.username has a unique key (the schema is not in src/)

\* The first check a request fails, with the status code of that check.
Rejection == [empty |-> 2, length |-> 3, chars |-> 4, device |-> 4]

ASSUME LoginAssumption ==
  /\ "good" \in Form
  /\ Form \subseteq {"good"} \cup DOMAIN Rejection
  /\ None \notin User \cup LToken \cup [name : Name, pass : Pass]
  /\ kMaxRetries \in Nat
  /\ UniqueNames \in BOOLEAN

VARIABLES
  users,    \* ids of the rows of user
  account,  \* name and password under each id ever inserted, or None
  admins,   \* official users whose group has login_admin
  rows,     \* how many rows login_token has for each token and user
  late,     \* statements reported as failed that may still be executed
  call      \* the calls

tables == <<users, account, rows>>
vars == <<users, account, admins, rows, late, call>>

Credentials == [name : Name, pass : Pass]
Presented(c) == [name |-> call[c].name, pass |-> call[c].pass]

Named(n) == {u \in users : account[u].name = n}
MatchingName(p) == Named(p.name)  \* fault: AND password = ... forgotten
MatchingPass(p) ==                \* fault: WHERE username = ... OR password = ...
  {u \in users : account[u].pass = p.pass}
Matching(p) == {u \in users : account[u] = p}

\* TokenCache::Get returns a token nobody has drawn.
Fresh == LToken \ {call[c].tok : c \in Caller}


-----------------------------------------------------------------------------
Answer(c, code) ==
  call' = [call EXCEPT ![c].pc = "done", ![c].code = code]

Request(c, op, p, form, pc, tok) ==
  call' = [call EXCEPT ![c].op = op, ![c].name = p.name, ![c].pass = p.pass,
                       ![c].form = form, ![c].pc = pc, ![c].tok = tok]

Reject(c, op, p, form) ==
  call' = [call EXCEPT ![c].op = op, ![c].name = p.name, ![c].pass = p.pass,
                       ![c].form = form, ![c].pc = "done",
                       ![c].code = Rejection[form]]

\* log validates everything before it draws a token; adlog has no device;
\* reg looks the name up before it tests the length and the characters.
Log(c, p, form) ==
  /\ call[c].pc = "new"
  /\ \/ form = "good" /\ \E t \in Fresh : Request(c, "log", p, form, "login", t)
     \/ form # "good" /\ Reject(c, "log", p, form)
  /\ UNCHANGED <<tables, admins, late>>

Adlog(c, p, form) ==
  /\ call[c].pc = "new"
  /\ form # "device"
  /\ \/ form = "good" /\ Request(c, "adlog", p, form, "look", None)
     \/ form # "good" /\ Reject(c, "adlog", p, form)
  /\ UNCHANGED <<tables, admins, late>>

Reg(c, p, form) ==
  /\ call[c].pc = "new"
  /\ form # "device"
  /\ \/ form # "empty" /\ Request(c, "reg", p, form, "look", None)
     \/ form = "empty" /\ Reject(c, "reg", p, form)
  /\ UNCHANGED <<tables, admins, late>>

-----------------------------------------------------------------------------
StoreTwice(t, us) ==  \* fault: executed by prepare and again by execute
  rows' = [rows EXCEPT ![t] = [u \in User |-> IF u \in us THEN @[u] + 2 ELSE @[u]]]
StoreForAll(t, us) ==  \* fault: SELECT id FROM user without its WHERE
  rows' = [rows EXCEPT ![t] = [u \in User |-> IF u \in users THEN @[u] + 1 ELSE @[u]]]
Store(t, us) ==
  rows' = [rows EXCEPT ![t] = [u \in User |-> IF u \in us THEN @[u] + 1 ELSE @[u]]]

Postpone(c, stmt) ==
  late' = late \cup {[call |-> c, try |-> call[c].try, stmt |-> stmt]}

\* login_once: INSERT INTO login_token SELECT id FROM user WHERE username and
\* password match, up to kMaxRetries times again when the connection fails.
Retry(c) ==
  IF call[c].try < kMaxRetries
  THEN call' = [call EXCEPT ![c].try = @ + 1]
  ELSE Answer(c, 5)

NotTested(found) == 0   \* fault: the row count is not tested
LoginCode(found) == IF found = {} THEN 6 ELSE 0

LoginOnce(c) ==
  LET found == Matching(Presented(c)) IN
  /\ call[c].pc = "login"
  /\ \/ /\ Store(call[c].tok, found)
        /\ Answer(c, LoginCode(found))
        /\ UNCHANGED late
     \/ Postpone(c, "login") /\ Retry(c) /\ UNCHANGED rows
     \/ Answer(c, 5) /\ UNCHANGED <<rows, late>>   \* any other SQLException
  /\ UNCHANGED <<users, account, admins>>

\* nickname_user, and the checks that follow it in reg and in adlog.
RegLook(c) ==
  LET found == Named(call[c].name) IN
  /\ call[c].pc = "look" /\ call[c].op = "reg"
  /\ \/ found # {} /\ Answer(c, 1)
     \/ /\ found = {} /\ call[c].form # "good"
        /\ Answer(c, Rejection[call[c].form])
     \/ /\ found = {} /\ call[c].form = "good"
        /\ call' = [call EXCEPT ![c].pc = "adduser"]
     \/ Answer(c, 500)   \* the SELECT throws, process_request answers
  /\ UNCHANGED <<tables, admins, late>>

Admitted(c, u) == account[u].pass = call[c].pass /\ u \in admins

AdLook(c) ==
  LET found == Named(call[c].name) IN
  /\ call[c].pc = "look" /\ call[c].op = "adlog"
  /\ \/ found = {} /\ Answer(c, 6)
     \/ \E u \in found : account[u].pass # call[c].pass /\ Answer(c, 6)
     \/ \E u \in found : /\ account[u].pass = call[c].pass
                         /\ u \notin admins
                         /\ Answer(c, 7)
     \/ \E u \in found, t \in Fresh :
          /\ Admitted(c, u)
          /\ call' = [call EXCEPT ![c].pc = "addtoken", ![c].user = u, ![c].tok = t]
     \/ Answer(c, 500)
  /\ UNCHANGED <<tables, admins, late>>

\* s_user: INSERT INTO user, then SELECT LAST_INSERT_ID() on the same
\* connection; ids are never used again.
KeyFree(n) == UniqueNames => Named(n) = {}

InsertUser(u, p) ==
  /\ account[u] = None
  /\ account' = [account EXCEPT ![u] = p]
  /\ users' = users \cup {u}

AddUser(c) ==
  /\ call[c].pc = "adduser"
  /\ \/ \E u \in User, t \in Fresh :
          /\ KeyFree(call[c].name)
          /\ InsertUser(u, Presented(c))
          /\ call' = [call EXCEPT ![c].pc = "addtoken", ![c].user = u, ![c].tok = t]
          /\ UNCHANGED late
     \/ \E u \in User :          \* no LAST_INSERT_ID
          /\ KeyFree(call[c].name)
          /\ InsertUser(u, Presented(c))
          /\ Answer(c, 5)
          /\ UNCHANGED late
     \/ Postpone(c, "user") /\ Answer(c, 5) /\ UNCHANGED <<users, account>>
     \/ Answer(c, 5) /\ UNCHANGED <<users, account, late>>
  /\ UNCHANGED <<rows, admins>>

\* s_logintoken, for reg and adlog.
AddToken(c) ==
  /\ call[c].pc = "addtoken"
  /\ \/ Store(call[c].tok, {call[c].user}) /\ Answer(c, 0) /\ UNCHANGED late
     \/ Postpone(c, "token") /\ Answer(c, 5) /\ UNCHANGED rows
  /\ UNCHANGED <<users, account, admins>>

-----------------------------------------------------------------------------
\* The server executes a statement whose connection had failed (external).
LateInsertUser(p) ==
  IF KeyFree(p.name)
  THEN \E u \in User : InsertUser(u, p)
  ELSE UNCHANGED <<users, account>>

LateStatement(s) ==
  /\ s \in late
  /\ late' = late \ {s}
  /\ CASE s.stmt = "login" -> /\ Store(call[s.call].tok, Matching(Presented(s.call)))
                              /\ UNCHANGED <<users, account>>
       [] s.stmt = "token" -> /\ Store(call[s.call].tok, {call[s.call].user})
                              /\ UNCHANGED <<users, account>>
       [] s.stmt = "user"  -> LateInsertUser(Presented(s.call)) /\ UNCHANGED rows
  /\ UNCHANGED <<admins, call>>

\* The process stops: calls under way are lost, the tables stay.
Crash ==
  /\ call' = [c \in Caller |->
                IF call[c].pc \in {"new", "done"} THEN call[c]
                                                  ELSE [call[c] EXCEPT !.pc = "lost"]]
  /\ UNCHANGED <<tables, admins, late>>

CallStep(c) ==
  LoginOnce(c) \/ RegLook(c) \/ AdLook(c) \/ AddUser(c) \/ AddToken(c)

\* What the threads and the database do.
Serve ==
  \/ \E c \in Caller :
       \/ \E p \in Credentials, form \in Form :
            Log(c, p, form) \/ Adlog(c, p, form) \/ Reg(c, p, form)
       \/ CallStep(c)
  \/ \E s \in late : LateStatement(s)

Step == Serve \/ Crash

\* Administrators, in the database: they promote, demote and remove users.
Environment ==
  /\ \E u \in users :
       \/ admins' = admins \cup {u} /\ UNCHANGED users
       \/ admins' = admins \ {u} /\ UNCHANGED users
       \/ users' = users \ {u} /\ admins' = admins \ {u}
  /\ UNCHANGED <<account, rows, late, call>>

Init ==
  /\ users = {}
  /\ account = [u \in User |-> None]
  /\ admins = {}
  /\ rows = [t \in LToken |-> [u \in User |-> 0]]
  /\ late = {}
  /\ call = [c \in Caller |->
               [pc |-> "new", op |-> None, name |-> None, pass |-> None,
                form |-> "good", tok |-> None, user |-> None, try |-> 0,
                code |-> 0]]

Next == Step \/ Environment

Spec == Init /\ [][Next]_vars

-----------------------------------------------------------------------------
\* The status codes of login.h, register.h and ad_login.h; 500 answers an
\* exception.
Code == {0, 1, 2, 3, 4, 5, 6, 7, 500}

CallState ==
  [pc : {"new", "login", "look", "adduser", "addtoken", "done", "lost"},
   op : {"log", "reg", "adlog", None}, name : Name \cup {None},
   pass : Pass \cup {None}, form : Form, tok : LToken \cup {None},
   user : User \cup {None}, try : 0..kMaxRetries, code : Code]

TypeOK ==
  /\ users \subseteq User
  /\ account \in [User -> Credentials \cup {None}]
  /\ admins \subseteq users
  /\ rows \in [LToken -> [User -> Nat]]
  /\ late \subseteq [call : Caller, try : 0..kMaxRetries,
                     stmt : {"login", "user", "token"}]
  /\ call \in [Caller -> CallState]

Done(c, code) == call[c].pc = "done" /\ call[c].code = code

(* A call answered with success returned a token that login_token holds    *)
(* for an account with the name and the password it presented.             *)
SuccessStored ==
  \A c \in Caller : Done(c, 0) =>
    \E u \in User : rows[call[c].tok][u] > 0 /\ account[u] = Presented(c)

(* README.md:62: every row of login_token, also one a late INSERT ...      *)
(* SELECT stores, is for an account whose name and password were presented *)
(* by the call that drew the row's token.                                  *)
Authentic ==
  \A t \in LToken, u \in User : rows[t][u] > 0 =>
    \E c \in Caller : call[c].tok = t /\ account[u] = Presented(c)

(* A login leaves at most one row for each attempt of login_once           *)
(* (sqlsave.cpp:528-531), whenever the server executes them.               *)
RowsBounded ==
  \A t \in LToken, u \in User : rows[t][u] <= kMaxRetries + 1

(* logintoken (sqlsave.cpp:242) takes the first row with a token: with a   *)
(* unique key on the name, a token has rows of two users only when one of  *)
(* them has been removed.                                                  *)
TokenOneOwner ==
  \A t \in LToken : \A u, w \in users :
    rows[t][u] > 0 /\ rows[t][w] > 0 => u = w

(* README.md:74: login_token has one row for each login or registration.   *)
OneRowPerLogin ==
  \A c \in Caller : Done(c, 0) => \A u \in User : rows[call[c].tok][u] <= 1
=============================================================================
