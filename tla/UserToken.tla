----------------------------- MODULE UserToken -----------------------------
(***************************************************************************)
(* The second link of the authentication chain (README.md:62): gettoken    *)
(* exchanges a login token for a new user.token, with retries when the     *)
(* connection fails, and webgettoken reads the current one.                *)
(*                                                                         *)
(* Calls interleave at every statement.  An UPDATE whose connection fails  *)
(* may still be executed by the server, once, at any later time: it is put *)
(* in late.                                                                *)
(***************************************************************************)
EXTENDS Naturals

CONSTANTS
  Getter,      \* calls of gettoken
  Reader,      \* calls of webgettoken
  User,        \* ids of users
  LToken,      \* values of login_token.token
  Quoted,      \* texts a client sends as a token that end a string of SQL
  UToken,      \* values of user.token
  None,        \* no value
  kMaxRetries, \* of gettoken
  LoginExpire, \* validity of a login token, login_expire of the configuration
  MaxTime      \* bound on the clock

ASSUME UserTokenAssumption ==
  /\ None \notin User \cup LToken \cup UToken \cup Quoted
  /\ LToken \cap Quoted = {}
  /\ {kMaxRetries, LoginExpire} \subseteq Nat

VARIABLES
  users,      \* rows of user
  userToken,  \* column user.token, None when empty
  logins,     \* rows of login_token
  now,        \* std::time
  late,       \* UPDATEs reported as failed that may still be executed
  drawnFor,   \* the user each token was drawn from TokenCache for
  get,        \* the calls of gettoken, drew the tokens each has drawn
  read        \* the calls of webgettoken

env  == <<users, logins, now>>
vars == <<users, userToken, logins, now, late, drawnFor, get, read>>

LoginRow == [tok : LToken, user : User, expire : Nat]

Text == LToken \cup Quoted  \* what the client may send as a token

-----------------------------------------------------------------------------
(* gettoken.  A call that gives no token leaves nothing of what it has     *)
(* read; what it was sent and what it drew are remembered.                 *)
Forget(call) == [call EXCEPT !.user = None, !.out = None]
Over(call)   == [Forget(call) EXCEPT !.try = 0, !.since = 0]

Answer(g, c) ==
  get' = [get EXCEPT ![g] = [Over(@) EXCEPT !.pc = "done", !.code = c]]

Deliver(g) ==
  get' = [get EXCEPT ![g].pc = "done", ![g].code = 0, ![g].try = 0]

Get(g, t) ==
  /\ get[g].pc = "new"
  /\ IF t = None
     THEN Answer(g, 1)
     ELSE get' = [get EXCEPT ![g].pc = "select", ![g].tok = t, ![g].since = now]
  /\ UNCHANGED <<env, userToken, late, drawnFor, read>>

\* A connection error sends the call round the loop, up to kMaxRetries times.
Retry(g) ==
  IF get[g].try < kMaxRetries
  THEN get' = [get EXCEPT ![g] = [Forget(@) EXCEPT !.pc = "select",
                                                   !.try = get[g].try + 1]]
  ELSE Answer(g, 5)

NeverExpired(l) == FALSE          \* fault: expire_time not read
Expired(l) == l.expire < now
Found(t)   == {l \in logins : l.tok = t}

\* TokenCache::Get returns a token nobody has drawn.
Draw(g, u) ==
  \E t \in UToken :
    /\ drawnFor[t] = None
    /\ drawnFor' = [drawnFor EXCEPT ![t] = u]
    /\ get' = [get EXCEPT ![g].pc = "update", ![g].user = u, ![g].out = t,
                          ![g].drew = @ \cup {t}]

\* SELECT user_id, expire_time FROM login_token WHERE token = ... for a text
\* that stays the string it is put into.
SelectPlain(g) ==
  \/ Found(get[g].tok) = {} /\ Answer(g, 2) /\ UNCHANGED drawnFor
  \/ \E l \in Found(get[g].tok) :
       \/ Expired(l) /\ Answer(g, 3) /\ UNCHANGED drawnFor
       \/ ~Expired(l) /\ Draw(g, l.user)

\* The text is not quoted, escaped or bound: one that ends the string changes
\* the SELECT, which then gives any user and time, or no row.
SelectQuoted(g) ==
  \/ \E c \in {2, 3} : Answer(g, c) /\ UNCHANGED drawnFor
  \/ \E u \in User : Draw(g, u)

Select(g) ==
  /\ get[g].pc = "select"
  /\ \/ get[g].tok \in LToken /\ SelectPlain(g)
     \/ get[g].tok \in Quoted /\ SelectQuoted(g)
     \/ (Retry(g) \/ Answer(g, 5)) /\ UNCHANGED drawnFor
  /\ UNCHANGED <<env, userToken, late, read>>

\* UPDATE user SET token = ... WHERE id = ...; the row count is ignored.
SetEveryToken(u, t) ==  \* fault: the WHERE clause lost
  userToken' = [w \in User |-> IF w \in users THEN t ELSE userToken[w]]
SetNothing(u, t) == UNCHANGED userToken  \* fault: the UPDATE is not sent
SetToken(u, t) ==
  userToken' = IF u \in users THEN [userToken EXCEPT ![u] = t] ELSE userToken

Update(g) ==
  /\ get[g].pc = "update"
  /\ \/ /\ SetToken(get[g].user, get[g].out)
        /\ Deliver(g)
        /\ UNCHANGED late
     \/ /\ late' = late \cup {[user |-> get[g].user, tok |-> get[g].out]}
        /\ Retry(g)
        /\ UNCHANGED userToken
     \/ /\ Answer(g, 5)
        /\ UNCHANGED <<userToken, late>>
  /\ UNCHANGED <<env, drawnFor, read>>

-----------------------------------------------------------------------------
(* webgettoken: two SELECTs, logintoken and id_user, prepared: whatever    *)
(* the text is, it is compared with the column.                            *)
OverRead(call) == [call EXCEPT !.tok = None, !.user = None]

Tell(w, c) ==
  read' = [read EXCEPT ![w] = [OverRead(@) EXCEPT !.pc = "done", !.code = c]]

Read(w, t) ==
  /\ read[w].pc = "new"
  /\ IF t = None THEN Tell(w, 1)
                 ELSE read' = [read EXCEPT ![w].pc = "login", ![w].tok = t]
  /\ UNCHANGED <<env, userToken, late, drawnFor, get>>

ReadLogin(w) ==
  /\ read[w].pc = "login"
  /\ \/ Found(read[w].tok) = {} /\ Tell(w, 2)
     \/ \E l \in Found(read[w].tok) :
          IF Expired(l)
          THEN Tell(w, 3)
          ELSE read' = [read EXCEPT ![w].pc = "user", ![w].user = l.user]
     \/ Tell(w, 500)   \* the SELECT throws
  /\ UNCHANGED <<env, userToken, late, drawnFor, get>>

ReadUser(w) ==
  /\ read[w].pc = "user"
  /\ \/ /\ read[w].user \in users
        /\ read' = [read EXCEPT ![w].pc = "done", ![w].code = 0,
                                ![w].out = userToken[read[w].user]]
     \/ read[w].user \notin users /\ Tell(w, 5)
     \/ Tell(w, 500)
  /\ UNCHANGED <<env, userToken, late, drawnFor, get>>

-----------------------------------------------------------------------------
\* The server executes an UPDATE whose connection had failed (external).
LateUpdate(s) ==
  /\ s \in late
  /\ late' = late \ {s}
  /\ SetToken(s.user, s.tok)
  /\ UNCHANGED <<env, drawnFor, get, read>>

\* The process stops: calls under way are lost, the tables stay.
Lose(call, rest) ==
  IF call.pc \in {"new", "done"} THEN call ELSE [rest EXCEPT !.pc = "lost"]

Crash ==
  /\ get' = [g \in Getter |-> Lose(get[g], Over(get[g]))]
  /\ read' = [w \in Reader |-> Lose(read[w], OverRead(read[w]))]
  /\ UNCHANGED <<env, userToken, late, drawnFor>>

GetterStep(g) == Select(g) \/ Update(g)
ReaderStep(w) == ReadLogin(w) \/ ReadUser(w)

\* What the threads and the database do.
Serve ==
  \/ \E g \in Getter : GetterStep(g) \/ \E t \in Text \cup {None} : Get(g, t)
  \/ \E w \in Reader : ReaderStep(w) \/ \E t \in Text \cup {None} : Read(w, t)
  \/ \E s \in late : LateUpdate(s)

Step == Serve \/ Crash

(* The rest of the system: reg adds users, under ids never used before;    *)
(* log, reg and adlog add login tokens, which have rows of two users only  *)
(* when one of them was removed; administrators remove users; time passes. *)
AddUser(u) ==
  /\ \A l \in logins : l.user # u
  /\ users' = users \cup {u}
  /\ UNCHANGED <<logins, now>>

AddLogin(l) ==
  /\ \A m \in logins :
       m.tok = l.tok /\ {m.user, l.user} \subseteq users => m.user = l.user
  /\ logins' = logins \cup {l}
  /\ UNCHANGED <<users, now>>

RemoveUser(u) ==
  /\ users' = users \ {u}
  /\ UNCHANGED <<logins, now>>

Tick ==
  /\ now < MaxTime
  /\ now' = now + 1
  /\ UNCHANGED <<users, logins>>

Environment ==
  /\ \/ \E t \in LToken, u \in User, e \in LoginExpire..(now + LoginExpire) :
          AddLogin([tok |-> t, user |-> u, expire |-> e])
     \/ \E u \in User : AddUser(u) \/ RemoveUser(u)
     \/ Tick
  /\ UNCHANGED <<userToken, late, drawnFor, get, read>>

Init ==
  /\ users = {}
  /\ userToken = [u \in User |-> None]
  /\ logins = {}
  /\ now = 0
  /\ late = {}
  /\ drawnFor = [t \in UToken |-> None]
  /\ get = [g \in Getter |-> [pc |-> "new", tok |-> None, user |-> None,
                              out |-> None, drew |-> {}, try |-> 0, since |-> 0,
                              code |-> 0]]
  /\ read = [w \in Reader |-> [pc |-> "new", tok |-> None, user |-> None,
                               out |-> None, code |-> 0]]

Next == Step \/ Environment

Spec == Init /\ [][Next]_vars

-----------------------------------------------------------------------------
\* The status codes of get_token.cpp and web_get_token.cpp; 500 answers an
\* exception.
GetCode  == {0, 1, 2, 3, 5}
ReadCode == {0, 1, 2, 3, 5, 500}

GetState == [pc : {"new", "select", "update", "done", "lost"},
             tok : Text \cup {None}, user : User \cup {None},
             out : UToken \cup {None}, drew : SUBSET UToken, try : 0..kMaxRetries, since : Nat,
             code : GetCode]

ReadState == [pc : {"new", "login", "user", "done", "lost"},
              tok : Text \cup {None}, user : User \cup {None},
              out : UToken \cup {None}, code : ReadCode]

TypeOK ==
  /\ users \subseteq User
  /\ userToken \in [User -> UToken \cup {None}]
  /\ logins \subseteq LoginRow
  /\ now \in Nat
  /\ late \subseteq [user : User, tok : UToken]
  /\ drawnFor \in [UToken -> User \cup {None}]
  /\ get \in [Getter -> GetState]
  /\ read \in [Reader -> ReadState]

Got(g) == get[g].pc = "done" /\ get[g].code = 0

(* token_user (sqlsave.cpp:202) takes the first row with a token: no two   *)
(* users ever have the same user.token, whatever UPDATEs are repeated,     *)
(* lost or executed late.                                                  *)
TokensDistinct ==
  \A u, w \in User : userToken[u] = userToken[w] /\ userToken[u] # None => u = w

(* What gettoken tells was drawn for the user it is stored for. For a      *)
(* plain text that is the user of the login token, which had not expired   *)
(* when the call was made, retries included; of a text that ends the       *)
(* string (get_token.cpp:28-30) the code does not establish whose it is.   *)
GetterAuthentic ==
  \A g \in Getter : Got(g) =>
    /\ drawnFor[get[g].out] = get[g].user
    /\ get[g].tok \in LToken =>
         \E l \in logins : /\ l.tok = get[g].tok
                           /\ l.user = get[g].user
                           /\ l.expire >= get[g].since

(* A call answered with success leaves the user of its login token with a  *)
(* user.token: the one returned, or another drawn for that user, by        *)
(* another call, also one with a text that ends the string, or by an       *)
(* earlier attempt whose UPDATE was executed late.                         *)
GetterStored ==
  \A g \in Getter : Got(g) /\ get[g].tok \in LToken =>
    \/ get[g].user \notin users
    \/ userToken[get[g].user] = get[g].out
    \/ \E t \in UToken \ {get[g].out} :
         drawnFor[t] = get[g].user /\ userToken[get[g].user] = t

\* webgettoken tells a token of the user the login token belongs to, for any
\* text, although it reads the two tables one after the other.
ReaderAuthentic ==
  \A w \in Reader : read[w].pc = "done" /\ read[w].code = 0 =>
    /\ read[w].out # None => drawnFor[read[w].out] = read[w].user
    /\ \E l \in logins : l.tok = read[w].tok /\ l.user = read[w].user

(* README.md:62: both calls tell a user.token only to the holder of a      *)
(* login token of the same user, for whom it was drawn; gettoken as far as *)
(* the text it is sent is a token.                                         *)
TokensAuthentic == GetterAuthentic /\ ReaderAuthentic
=============================================================================
