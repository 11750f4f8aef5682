-------------------------- MODULE UserTokenProofs --------------------------
(***************************************************************************)
(* Proofs about UserToken, for any sets of calls, users and tokens and any *)
(* number of retries.                                                      *)
(***************************************************************************)
EXTENDS UserToken, TLAPS

\* A login token of the user whose row had not expired at a time.
Holds(t, u, since) ==
  \E l \in logins : l.tok = t /\ l.user = u /\ l.expire >= since

\* What the table holds, and may hold later, was drawn for its user.
DrawnInv ==
  /\ \A u \in User : userToken[u] # None => drawnFor[userToken[u]] = u
  /\ \A s \in late : drawnFor[s.tok] = s.user

\* What a call of gettoken holds from the draw to its answer.
Owns(g) ==
  /\ get[g].user \in User
  /\ get[g].out \in UToken
  /\ drawnFor[get[g].out] = get[g].user
  /\ get[g].tok \in LToken => Holds(get[g].tok, get[g].user, get[g].since)

\* A user whose login token was answered with a token has one until it is
\* removed.
Served(g) ==
  get[g].tok \in LToken /\ get[g].user \in users => userToken[get[g].user] # None

GetterOK(g) ==
  /\ get[g].since <= now
  /\ get[g].pc = "update" \/ Got(g) => Owns(g)
  /\ Got(g) => Served(g)

Told(w) == read[w].pc = "done" /\ read[w].code = 0

ReaderOK(w) ==
  /\ read[w].pc = "user" \/ Told(w) =>
       read[w].user \in User /\ Holds(read[w].tok, read[w].user, 0)
  /\ Told(w) /\ read[w].out # None => drawnFor[read[w].out] = read[w].user

GetInv  == \A g \in Getter : GetterOK(g)
ReadInv == \A w \in Reader : ReaderOK(w)

IInv == TypeOK /\ DrawnInv /\ GetInv /\ ReadInv

LEMMA InitIInv == Init => IInv
BY UserTokenAssumption
   DEF Init, IInv, TypeOK, GetState, ReadState, GetCode, ReadCode, DrawnInv,
       GetInv, GetterOK, ReadInv, ReaderOK, Told, Got

-----------------------------------------------------------------------------
(* What a step leaves of the tables: rows of login_token stay, what a      *)
(* token was drawn for is settled, and a user who could hold a login token *)
(* and has a user.token is not left without one.                           *)
Grows ==
  /\ logins \subseteq logins'
  /\ now <= now'
  /\ \A t \in UToken : drawnFor[t] # None => drawnFor'[t] = drawnFor[t]

KeepsToken ==
  \A u \in User : u \in users' /\ (\E l \in logins : l.user = u) =>
    u \in users /\ (userToken[u] # None => userToken'[u] # None)

\* A call that a step leaves alone keeps what it had.
LEMMA GetterKept ==
  ASSUME IInv, TypeOK', Grows, KeepsToken,
         NEW g \in Getter, get'[g] = get[g]
  PROVE  GetterOK(g)'
<1>1. get[g].since <= now /\ get[g].since \in Nat /\ now \in Nat /\ now' \in Nat
  BY DEF IInv, GetInv, GetterOK, TypeOK, GetState
<1>2. get'[g].since <= now'
  BY <1>1 DEF Grows
<1>3. Owns(g) => Owns(g)'
  BY UserTokenAssumption DEF Owns, Holds, Grows
<1>4. Owns(g) /\ Served(g) => Served(g)'
  BY DEF Owns, Holds, Served, KeepsToken
<1>5. Got(g)' = Got(g) /\ GetterOK(g)
  BY DEF Got, IInv, GetInv
<1> QED BY <1>2, <1>3, <1>4, <1>5 DEF GetterOK

LEMMA ReaderKept ==
  ASSUME IInv, TypeOK', Grows, NEW w \in Reader, read'[w] = read[w]
  PROVE  ReaderOK(w)'
<1>1. ReaderOK(w) /\ read[w].out \in UToken \cup {None}
  BY DEF IInv, ReadInv, TypeOK, ReadState
<1>2. /\ Told(w)' = Told(w)
      /\ Holds(read[w].tok, read[w].user, 0) =>
           Holds(read[w].tok, read[w].user, 0)'
  BY DEF Told, Holds, Grows
<1>3. read[w].user \in User => read[w].user # None
  BY UserTokenAssumption
<1> QED BY <1>1, <1>2, <1>3 DEF ReaderOK, Grows

-----------------------------------------------------------------------------
(* The steps of gettoken.                                                  *)
\* The step of one call writes nothing of the others.
LEMMA GetterFrame ==
  ASSUME IInv, TypeOK', Grows, KeepsToken, DrawnInv',
         NEW g \in Getter, GetterOK(g)', UNCHANGED read,
         \A h \in Getter \ {g} : get'[h] = get[h]
  PROVE  IInv'
<1>1. \A h \in Getter \ {g} : GetterOK(h)'
  BY GetterKept
<1>2. \A w \in Reader : ReaderOK(w)'
  BY ReaderKept
<1> QED BY <1>1, <1>2 DEF IInv, GetInv, ReadInv

\* An answer that gives no token, and a retry, hold nothing.
Leaves(g, n) ==
  /\ n \in GetState
  /\ n.since \in {get[g].since, 0}
  /\ n.pc = "select" \/ (n.pc = "done" /\ n.code # 0)

\* What a call forgets leaves it a call.
LEMMA ForgetState ==
  ASSUME NEW r \in GetState
  PROVE  /\ Forget(r) \in GetState
         /\ Forget(r).since = r.since /\ Forget(r).try = r.try
<1> DEFINE n == [r EXCEPT !.user = None, !.out = None]
<1>1. n \in GetState /\ n.since = r.since /\ n.try = r.try
  BY DEF GetState
<1> QED BY <1>1 DEF Forget

LEMMA OverState ==
  ASSUME NEW r \in GetState
  PROVE  Over(r) \in GetState /\ Over(r).since = 0
<1> DEFINE f == Forget(r)
           n == [f EXCEPT !.try = 0, !.since = 0]
<1>1. f \in GetState
  BY ForgetState
<1> HIDE DEF f
<1>2. 0 \in 0..kMaxRetries
  BY UserTokenAssumption
<1>3. n \in GetState /\ n.since = 0
  BY <1>1, <1>2 DEF GetState
<1>4. Over(r) = n
  BY DEF Over, f
<1> QED BY <1>3, <1>4

LEMMA AnswerLeaves ==
  ASSUME IInv, NEW g \in Getter, NEW c \in GetCode \ {0}, Answer(g, c)
  PROVE  \E n : Leaves(g, n) /\ get' = [get EXCEPT ![g] = n]
<1> DEFINE n == [Over(get[g]) EXCEPT !.pc = "done", !.code = c]
<1>1. get' = [get EXCEPT ![g] = n]
  BY DEF Answer, IInv, TypeOK
<1>2. Over(get[g]) \in GetState /\ Over(get[g]).since = 0
  BY OverState DEF IInv, TypeOK
<1>3. Leaves(g, n)
  BY <1>2 DEF Leaves, GetState
<1> QED BY <1>1, <1>3

LEMMA RetryLeaves ==
  ASSUME IInv, NEW g \in Getter, Retry(g)
  PROVE  \E n : Leaves(g, n) /\ get' = [get EXCEPT ![g] = n]
<1>1. CASE get[g].try < kMaxRetries
  <2> DEFINE n == [Forget(get[g]) EXCEPT !.pc = "select", !.try = get[g].try + 1]
  <2>1. get' = [get EXCEPT ![g] = n]
    BY <1>1 DEF Retry, IInv, TypeOK
  <2>2. get[g] \in GetState /\ get[g].try + 1 \in 0..kMaxRetries
    BY <1>1, UserTokenAssumption DEF GetState, IInv, TypeOK
  <2>3. /\ Forget(get[g]) \in GetState
        /\ Forget(get[g]).since = get[g].since /\ Forget(get[g]).try = get[g].try
    BY <2>2, ForgetState
  <2>4. Leaves(g, n)
    BY <2>2, <2>3 DEF Leaves, GetState
  <2> QED BY <2>1, <2>4
<1>2. CASE ~(get[g].try < kMaxRetries)
  BY <1>2, AnswerLeaves DEF Retry, GetCode
<1> QED BY <1>1, <1>2

LEMMA LeaveStep ==
  ASSUME IInv, NEW g \in Getter, NEW n, Leaves(g, n),
         get' = [get EXCEPT ![g] = n],
         UNCHANGED <<env, userToken, drawnFor, read>>,
         \/ late' = late
         \/ /\ get[g].pc = "update"
            /\ late' = late \cup {[user |-> get[g].user, tok |-> get[g].out]}
  PROVE  IInv'
<1>1. get[g].pc = "update" => Owns(g)
  BY DEF IInv, GetInv, GetterOK
<1>2. late' \subseteq [user : User, tok : UToken] /\ \A s \in late' : drawnFor[s.tok] = s.user
  BY <1>1 DEF IInv, TypeOK, DrawnInv, Owns
<1>3. TypeOK' /\ DrawnInv'
  BY <1>2 DEF IInv, TypeOK, DrawnInv, env, Leaves
<1>4. Grows /\ KeepsToken
  BY DEF Grows, KeepsToken, env, IInv, TypeOK
<1>5. get'[g] = n /\ \A h \in Getter \ {g} : get'[h] = get[h]
  BY DEF IInv, TypeOK
<1>6. GetterOK(g)'
  BY <1>5 DEF IInv, TypeOK, GetInv, GetterOK, Got, Leaves, env
<1> QED BY <1>3, <1>4, <1>5, <1>6, GetterFrame

LEMMA GetStep ==
  ASSUME IInv, NEW g \in Getter, NEW t \in Text \cup {None}, Get(g, t)
  PROVE  IInv'
<1>1. /\ UNCHANGED <<env, userToken, late, drawnFor, read>>
      /\ get[g] \in GetState /\ get[g].pc = "new" /\ now \in Nat
  BY DEF Get, IInv, TypeOK
<1>2. CASE t = None
  <2>1. PICK n : Leaves(g, n) /\ get' = [get EXCEPT ![g] = n]
    BY <1>2, AnswerLeaves DEF Get, GetCode
  <2> QED BY <1>1, <2>1, LeaveStep
<1>3. CASE t # None
  <2> DEFINE n == [get[g] EXCEPT !.pc = "select", !.tok = t, !.since = now]
  <2>1. get' = [get EXCEPT ![g] = n]
    BY <1>3 DEF Get
  <2>2. n \in GetState /\ n.pc = "select" /\ n.since = now
    BY <1>1 DEF GetState
  <2> HIDE DEF n
  <2>3. TypeOK' /\ DrawnInv' /\ Grows /\ KeepsToken
    BY <1>1, <2>1, <2>2 DEF IInv, TypeOK, DrawnInv, Grows, KeepsToken, env
  <2>4. get'[g] = n /\ \A h \in Getter \ {g} : get'[h] = get[h]
    BY <2>1 DEF IInv, TypeOK
  <2>5. GetterOK(g)'
    BY <1>1, <2>2, <2>4 DEF GetterOK, Got, env
  <2> QED BY <1>1, <2>3, <2>4, <2>5, GetterFrame
<1> QED BY <1>2, <1>3

\* A token drawn for a user who, when the text is plain, has its login token.
LEMMA DrawStep ==
  ASSUME IInv, NEW g \in Getter, NEW u \in User, get[g].pc = "select",
         Draw(g, u), UNCHANGED <<env, userToken, late, read>>,
         get[g].tok \in LToken => Holds(get[g].tok, u, get[g].since)
  PROVE  IInv'
<1>1. get[g] \in GetState /\ now \in Nat
  BY DEF IInv, TypeOK
<1>2. PICK t \in UToken :
        /\ drawnFor[t] = None
        /\ drawnFor' = [drawnFor EXCEPT ![t] = u]
        /\ get' = [get EXCEPT ![g].pc = "update", ![g].user = u, ![g].out = t,
                              ![g].drew = @ \cup {t}]
  BY DEF Draw
<1> DEFINE n == [get[g] EXCEPT !.pc = "update", !.user = u, !.out = t,
                               !.drew = @ \cup {t}]
<1>3. get' = [get EXCEPT ![g] = n]
  BY <1>2
<1>4. /\ n \in GetState /\ n.pc = "update" /\ n.user = u /\ n.out = t
      /\ n.tok = get[g].tok /\ n.since = get[g].since
  BY <1>1 DEF GetState
<1> HIDE DEF n
<1>5. Grows /\ KeepsToken
  BY <1>1, <1>2 DEF Grows, KeepsToken, env, IInv, TypeOK
<1>6. TypeOK'
  <2>1. drawnFor' \in [UToken -> User \cup {None}]
    BY <1>2 DEF IInv, TypeOK
  <2>2. get' \in [Getter -> GetState]
    BY <1>3, <1>4 DEF IInv, TypeOK
  <2> QED BY <2>1, <2>2 DEF IInv, TypeOK, env
<1>7. DrawnInv'
  BY <1>2, <1>5, UserTokenAssumption DEF IInv, TypeOK, DrawnInv, Grows
<1>8. get'[g] = n /\ \A h \in Getter \ {g} : get'[h] = get[h]
  BY <1>3 DEF IInv, TypeOK
<1>9. Owns(g)'
  BY <1>2, <1>4, <1>8 DEF Owns, Holds, env, IInv, TypeOK
<1>10. GetterOK(g)'
  BY <1>4, <1>8, <1>9 DEF GetterOK, Got, env, IInv, GetInv
<1> QED BY <1>5, <1>6, <1>7, <1>8, <1>10, GetterFrame

LEMMA SelectStep ==
  ASSUME IInv, NEW g \in Getter, Select(g)
  PROVE  IInv'
<1> DEFINE Answered == \E c \in GetCode \ {0} : Answer(g, c)
<1>1. /\ UNCHANGED <<env, userToken, late, read>>
      /\ get[g] \in GetState /\ get[g].pc = "select" /\ now \in Nat
  BY DEF Select, IInv, TypeOK
<1>2. \/ Answered /\ UNCHANGED drawnFor
      \/ Retry(g) /\ UNCHANGED drawnFor
      \/ /\ get[g].tok \in LToken
         /\ \E l \in Found(get[g].tok) : ~Expired(l) /\ Draw(g, l.user)
      \/ /\ get[g].tok \in Quoted
         /\ \E u \in User : Draw(g, u)
  <2>1. 2 \in GetCode \ {0} /\ 3 \in GetCode \ {0} /\ 5 \in GetCode \ {0}
    BY DEF GetCode
  <2> QED BY <2>1 DEF Select, SelectPlain, SelectQuoted
<1>3. CASE Answered /\ UNCHANGED drawnFor
  <2>1. PICK n : Leaves(g, n) /\ get' = [get EXCEPT ![g] = n]
    BY <1>3, AnswerLeaves
  <2> QED BY <1>1, <1>3, <2>1, LeaveStep
<1>4. CASE Retry(g) /\ UNCHANGED drawnFor
  <2>1. PICK n : Leaves(g, n) /\ get' = [get EXCEPT ![g] = n]
    BY <1>4, RetryLeaves
  <2> QED BY <1>1, <1>4, <2>1, LeaveStep
<1>5. ASSUME NEW l \in Found(get[g].tok), ~Expired(l), Draw(g, l.user)
      PROVE  IInv'
  <2>1. /\ l \in logins /\ l.tok = get[g].tok /\ l.user \in User
        /\ l.expire >= now /\ l.expire \in Nat
    BY <1>1, <1>5 DEF Found, Expired, IInv, TypeOK, LoginRow
  <2>2. get[g].since <= now /\ get[g].since \in Nat
    BY <1>1 DEF IInv, GetInv, GetterOK, GetState
  <2>3. Holds(get[g].tok, l.user, get[g].since)
    BY <1>1, <2>1, <2>2 DEF Holds
  <2> QED BY <1>1, <1>5, <2>1, <2>3, DrawStep
<1>6. ASSUME NEW u \in User, get[g].tok \in Quoted, Draw(g, u)
      PROVE  IInv'
  BY <1>1, <1>6, DrawStep, UserTokenAssumption
<1> QED BY <1>2, <1>3, <1>4, <1>5, <1>6

-----------------------------------------------------------------------------
(* An UPDATE, whenever it is executed, keeps the users their tokens.       *)
LEMMA SetTokenKeeps ==
  ASSUME IInv, UNCHANGED <<env, drawnFor>>, NEW u \in User, NEW t \in UToken,
         drawnFor[t] = u, SetToken(u, t)
  PROVE  /\ userToken' \in [User -> UToken \cup {None}]
         /\ \A v \in User : userToken'[v] # None =>
              drawnFor'[userToken'[v]] = v
         /\ Grows
         /\ KeepsToken
         /\ u \in users => userToken'[u] = t
<1>1. userToken \in [User -> UToken \cup {None}] /\ None \notin UToken
  BY UserTokenAssumption DEF IInv, TypeOK
<1>2. \/ u \in users /\ userToken' = [userToken EXCEPT ![u] = t]
      \/ u \notin users /\ userToken' = userToken
  BY DEF SetToken
<1>3. \A v \in User : userToken[v] # None => drawnFor[userToken[v]] = v
  BY DEF IInv, DrawnInv
<1>4. now \in Nat
  BY DEF IInv, TypeOK
<1> QED BY <1>1, <1>2, <1>3, <1>4 DEF Grows, KeepsToken, env

LEMMA UpdateStep ==
  ASSUME IInv, NEW g \in Getter, Update(g)
  PROVE  IInv'
<1>1. /\ UNCHANGED <<env, drawnFor, read>>
      /\ get[g] \in GetState /\ get[g].pc = "update"
      /\ Owns(g) /\ get[g].since <= now
  BY DEF Update, IInv, TypeOK, GetInv, GetterOK
<1>2. CASE SetToken(get[g].user, get[g].out) /\ Deliver(g) /\ UNCHANGED late
  <2>1. /\ userToken' \in [User -> UToken \cup {None}]
        /\ \A v \in User : userToken'[v] # None => drawnFor'[userToken'[v]] = v
        /\ Grows
        /\ KeepsToken
        /\ get[g].user \in users => userToken'[get[g].user] = get[g].out
    BY <1>1, <1>2, SetTokenKeeps DEF Owns
  <2> DEFINE n == [get[g] EXCEPT !.pc = "done", !.code = 0, !.try = 0]
  <2>2. get' = [get EXCEPT ![g] = n]
    BY <1>2 DEF Deliver
  <2> 0 \in 0..kMaxRetries
    BY UserTokenAssumption
  <2>3. /\ n \in GetState /\ n.pc = "done" /\ n.user = get[g].user
        /\ n.out = get[g].out /\ n.tok = get[g].tok /\ n.since = get[g].since
    BY <1>1 DEF GetState, GetCode
  <2> HIDE DEF n
  <2>4. TypeOK' /\ DrawnInv'
    BY <1>1, <1>2, <2>1, <2>2, <2>3 DEF IInv, TypeOK, DrawnInv, env
  <2>5. get'[g] = n /\ \A h \in Getter \ {g} : get'[h] = get[h]
    BY <2>2 DEF IInv, TypeOK
  <2>6. Owns(g)'
    BY <1>1, <2>3, <2>5 DEF Owns, Holds, env
  <2>7. Served(g)'
    BY <1>1, <2>1, <2>3, <2>5, UserTokenAssumption DEF Served, Owns, env
  <2>8. GetterOK(g)'
    BY <1>1, <2>3, <2>5, <2>6, <2>7 DEF GetterOK, env
  <2> QED BY <1>1, <2>1, <2>4, <2>5, <2>8, GetterFrame
<1>3. CASE /\ late' = late \cup {[user |-> get[g].user, tok |-> get[g].out]}
           /\ Retry(g)
           /\ UNCHANGED userToken
  <2>1. PICK n : Leaves(g, n) /\ get' = [get EXCEPT ![g] = n]
    BY <1>3, RetryLeaves
  <2> QED BY <1>1, <1>3, <2>1, LeaveStep
<1>4. CASE Answer(g, 5) /\ UNCHANGED <<userToken, late>>
  <2>1. PICK n : Leaves(g, n) /\ get' = [get EXCEPT ![g] = n]
    BY <1>4, AnswerLeaves DEF GetCode
  <2> QED BY <1>1, <1>4, <2>1, LeaveStep
<1> QED BY <1>2, <1>3, <1>4 DEF Update

LEMMA LateStep ==
  ASSUME IInv, NEW s \in late, LateUpdate(s)
  PROVE  IInv'
<1>1. /\ UNCHANGED <<env, drawnFor, get, read>>
      /\ s.user \in User /\ s.tok \in UToken /\ drawnFor[s.tok] = s.user
  BY DEF LateUpdate, IInv, TypeOK, DrawnInv
<1>2. /\ userToken' \in [User -> UToken \cup {None}]
      /\ \A v \in User : userToken'[v] # None => drawnFor'[userToken'[v]] = v
      /\ Grows
      /\ KeepsToken
  BY <1>1, SetTokenKeeps DEF LateUpdate
<1>3. TypeOK' /\ DrawnInv'
  BY <1>1, <1>2 DEF IInv, TypeOK, DrawnInv, LateUpdate, env
<1>4. (\A g \in Getter : GetterOK(g)') /\ (\A w \in Reader : ReaderOK(w)')
  BY <1>1, <1>2, <1>3, GetterKept, ReaderKept
<1> QED BY <1>3, <1>4 DEF IInv, GetInv, ReadInv

-----------------------------------------------------------------------------
(* The steps of webgettoken.                                               *)
LEMMA ReaderFrame ==
  ASSUME IInv, NEW w \in Reader, NEW n \in ReadState,
         UNCHANGED <<env, userToken, late, drawnFor, get>>,
         read' = [read EXCEPT ![w] = n], ReaderOK(w)'
  PROVE  IInv'
<1>1. TypeOK' /\ DrawnInv'
  BY DEF IInv, TypeOK, DrawnInv, env
<1>2. Grows /\ KeepsToken
  BY DEF Grows, KeepsToken, env, IInv, TypeOK
<1>3. \A v \in Reader \ {w} : read'[v] = read[v]
  BY DEF IInv, TypeOK
<1>4. \A v \in Reader : ReaderOK(v)'
  BY <1>1, <1>2, <1>3, ReaderKept
<1>5. \A g \in Getter : GetterOK(g)'
  BY <1>1, <1>2, GetterKept
<1> QED BY <1>1, <1>4, <1>5 DEF IInv, GetInv, ReadInv

\* An answer without a token.
LEMMA TellStep ==
  ASSUME IInv, NEW w \in Reader, NEW c \in ReadCode \ {0}, Tell(w, c),
         UNCHANGED <<env, userToken, late, drawnFor, get>>
  PROVE  IInv'
<1> DEFINE n == [OverRead(read[w]) EXCEPT !.pc = "done", !.code = c]
<1>1. read' = [read EXCEPT ![w] = n]
  BY DEF Tell, IInv, TypeOK
<1>2. n \in ReadState /\ n.pc = "done" /\ n.code # 0
  BY DEF IInv, TypeOK, ReadState, OverRead
<1> HIDE DEF n
<1>3. read'[w] = n
  BY <1>1 DEF IInv, TypeOK
<1>4. ReaderOK(w)'
  BY <1>2, <1>3 DEF ReaderOK, Told
<1> QED BY <1>1, <1>2, <1>4, ReaderFrame

LEMMA ReadStep ==
  ASSUME IInv, NEW w \in Reader, NEW t \in Text \cup {None}, Read(w, t)
  PROVE  IInv'
<1>1. UNCHANGED <<env, userToken, late, drawnFor, get>>
  BY DEF Read
<1>2. CASE t = None
  BY <1>1, <1>2, TellStep DEF Read, ReadCode
<1>3. CASE t # None
  <2> DEFINE n == [read[w] EXCEPT !.pc = "login", !.tok = t]
  <2>1. read' = [read EXCEPT ![w] = n]
    BY <1>3 DEF Read
  <2>2. n \in ReadState /\ n.pc = "login"
    BY DEF IInv, TypeOK, ReadState
  <2> HIDE DEF n
  <2>3. read'[w] = n
    BY <2>1 DEF IInv, TypeOK
  <2>4. ReaderOK(w)'
    BY <2>2, <2>3 DEF ReaderOK, Told
  <2> QED BY <1>1, <2>1, <2>2, <2>4, ReaderFrame
<1> QED BY <1>2, <1>3

LEMMA ReadLoginStep ==
  ASSUME IInv, NEW w \in Reader, ReadLogin(w)
  PROVE  IInv'
<1>1. UNCHANGED <<env, userToken, late, drawnFor, get>>
  BY DEF ReadLogin
<1>2. CASE \E c \in ReadCode \ {0} : Tell(w, c)
  BY <1>1, <1>2, TellStep
<1>3. ASSUME NEW l \in Found(read[w].tok),
             read' = [read EXCEPT ![w].pc = "user", ![w].user = l.user]
      PROVE  IInv'
  <2>1. /\ l \in logins /\ l.tok = read[w].tok /\ l.user \in User
        /\ l.expire \in Nat
    BY DEF Found, IInv, TypeOK, LoginRow
  <2> DEFINE n == [read[w] EXCEPT !.pc = "user", !.user = l.user]
  <2>2. read' = [read EXCEPT ![w] = n]
    BY <1>3
  <2>3. /\ n \in ReadState /\ n.pc = "user" /\ n.user = l.user
        /\ n.tok = read[w].tok
    BY <2>1 DEF IInv, TypeOK, ReadState
  <2> HIDE DEF n
  <2>4. read'[w] = n
    BY <2>2 DEF IInv, TypeOK
  <2>5. ReaderOK(w)'
    BY <1>1, <2>1, <2>3, <2>4 DEF ReaderOK, Told, Holds, env
  <2> QED BY <1>1, <2>2, <2>3, <2>5, ReaderFrame
<1>4. \/ \E c \in ReadCode \ {0} : Tell(w, c)
      \/ \E l \in Found(read[w].tok) :
           read' = [read EXCEPT ![w].pc = "user", ![w].user = l.user]
  <2>1. 2 \in ReadCode \ {0} /\ 3 \in ReadCode \ {0} /\ 500 \in ReadCode \ {0}
    BY DEF ReadCode
  <2> QED BY <2>1 DEF ReadLogin
<1> QED BY <1>2, <1>3, <1>4

LEMMA ToldState ==
  ASSUME NEW r \in ReadState, NEW o \in UToken \cup {None}
  PROVE  LET n == [r EXCEPT !.pc = "done", !.code = 0, !.out = o] IN
         n \in ReadState /\ n.user = r.user /\ n.out = o /\ n.tok = r.tok
<1>1. 0 \in ReadCode
  BY DEF ReadCode
<1>2. [r EXCEPT !.pc = "done", !.code = 0, !.out = o] \in ReadState
  BY <1>1 DEF ReadState
<1>3. LET n == [r EXCEPT !.pc = "done", !.code = 0, !.out = o] IN
      n.user = r.user /\ n.out = o /\ n.tok = r.tok
  BY DEF ReadState
<1> QED BY <1>2, <1>3

LEMMA ReadUserStep ==
  ASSUME IInv, NEW w \in Reader, ReadUser(w)
  PROVE  IInv'
<1>1. UNCHANGED <<env, userToken, late, drawnFor, get>>
  BY DEF ReadUser
<1>2. CASE \E c \in ReadCode \ {0} : Tell(w, c)
  BY <1>1, <1>2, TellStep
<1>3. CASE /\ read[w].user \in users
           /\ read' = [read EXCEPT ![w].pc = "done", ![w].code = 0,
                                   ![w].out = userToken[read[w].user]]
  <2> DEFINE u == read[w].user
             o == userToken[u]
             n == [read[w] EXCEPT !.pc = "done", !.code = 0, !.out = o]
  <2>1. read[w] \in ReadState /\ read[w].pc = "user" /\ u \in User
    BY <1>3 DEF ReadUser, IInv, TypeOK
  <2>2. Holds(read[w].tok, u, 0)
    BY <2>1 DEF IInv, ReadInv, ReaderOK
  <2>3. read' = [read EXCEPT ![w] = n]
    BY <1>3
  <2>4. o \in UToken \cup {None} /\ (o # None => drawnFor[o] = u)
    BY <2>1 DEF IInv, TypeOK, DrawnInv
  <2> HIDE DEF o
  <2>5. n \in ReadState /\ n.user = u /\ n.out = o /\ n.tok = read[w].tok
    BY <2>1, <2>4, ToldState
  <2> HIDE DEF n, u
  <2>7. read'[w] = n
    BY <2>3 DEF IInv, TypeOK
  <2>8. ReaderOK(w)'
    BY <1>1, <2>1, <2>2, <2>4, <2>5, <2>7 DEF ReaderOK, Holds, env
  <2> QED BY <1>1, <2>3, <2>5, <2>8, ReaderFrame
<1>4. \/ \E c \in ReadCode \ {0} : Tell(w, c)
      \/ /\ read[w].user \in users
         /\ read' = [read EXCEPT ![w].pc = "done", ![w].code = 0,
                                 ![w].out = userToken[read[w].user]]
  <2>1. 5 \in ReadCode \ {0} /\ 500 \in ReadCode \ {0}
    BY DEF ReadCode
  <2> QED BY <2>1 DEF ReadUser
<1> QED BY <1>2, <1>3, <1>4

-----------------------------------------------------------------------------
(* The end of the process, and the rest of the system.                     *)
LEMMA CrashStep == ASSUME IInv, Crash PROVE IInv'
<1>1. UNCHANGED <<env, userToken, late, drawnFor>>
  BY DEF Crash
<1>2. \A g \in Getter :
        /\ get'[g] \in GetState /\ get'[g].since \in {get[g].since, 0}
        /\ get'[g] = get[g] \/ get'[g].pc = "lost"
  <2> TAKE g \in Getter
  <2> DEFINE n == [Over(get[g]) EXCEPT !.pc = "lost"]
  <2>1. n \in GetState /\ n.pc = "lost" /\ n.since = 0
    <3>1. Over(get[g]) \in GetState /\ Over(get[g]).since = 0
      BY OverState DEF IInv, TypeOK
    <3> QED BY <3>1 DEF GetState
  <2>2. get'[g] \in {get[g], n}
    BY DEF Crash, Lose
  <2> HIDE DEF n
  <2> QED BY <2>1, <2>2 DEF IInv, TypeOK
<1>3. \A w \in Reader :
        /\ read'[w] \in ReadState
        /\ read'[w] = read[w] \/ read'[w].pc = "lost"
  <2> TAKE w \in Reader
  <2> DEFINE n == [OverRead(read[w]) EXCEPT !.pc = "lost"]
  <2>1. n \in ReadState /\ n.pc = "lost"
    BY DEF IInv, TypeOK, ReadState, OverRead
  <2>2. read'[w] \in {read[w], n}
    BY DEF Crash, Lose
  <2> HIDE DEF n
  <2> QED BY <2>1, <2>2 DEF IInv, TypeOK
<1>4. TypeOK'
  <2>1. get' \in [Getter -> GetState] /\ read' \in [Reader -> ReadState]
    BY <1>2, <1>3 DEF Crash
  <2> QED BY <1>1, <2>1 DEF IInv, TypeOK, env
<1>5. DrawnInv' /\ Grows /\ KeepsToken
  BY <1>1 DEF IInv, TypeOK, DrawnInv, Grows, KeepsToken, env
<1>6. \A g \in Getter : GetterOK(g)'
  <2> TAKE g \in Getter
  <2>1. CASE get'[g] = get[g]
    BY <1>4, <1>5, <2>1, GetterKept
  <2>2. CASE get'[g].pc = "lost"
    BY <1>1, <1>2, <2>2 DEF GetterOK, Got, IInv, TypeOK, GetInv, env
  <2> QED BY <1>2, <2>1, <2>2
<1>7. \A w \in Reader : ReaderOK(w)'
  <2> TAKE w \in Reader
  <2>1. CASE read'[w] = read[w]
    BY <1>4, <1>5, <2>1, ReaderKept
  <2>2. CASE read'[w].pc = "lost"
    BY <2>2 DEF ReaderOK, Told
  <2> QED BY <1>3, <2>1, <2>2
<1> QED BY <1>4, <1>5, <1>6, <1>7 DEF IInv, GetInv, ReadInv

\* A user is added under an id that no login token has, so nobody was told
\* that it has a token.
LEMMA EnvironmentStep == ASSUME IInv, Environment PROVE IInv'
<1>1. UNCHANGED <<userToken, late, drawnFor, get, read>>
  BY DEF Environment
<1>2. now \in Nat /\ logins \subseteq LoginRow /\ users \subseteq User
  BY DEF IInv, TypeOK
<1>3. /\ logins \subseteq logins' /\ logins' \subseteq LoginRow
      /\ users' \subseteq User
      /\ now' \in Nat /\ now <= now'
      /\ \A u \in users' \ users : \A l \in logins : l.user # u
  <2>1. CASE \E t \in LToken, u \in User, e \in LoginExpire..(now + LoginExpire) :
               AddLogin([tok |-> t, user |-> u, expire |-> e])
    BY <1>2, <2>1, UserTokenAssumption DEF AddLogin, LoginRow
  <2>2. CASE \E u \in User : AddUser(u) \/ RemoveUser(u)
    BY <1>2, <2>2 DEF AddUser, RemoveUser
  <2>3. CASE Tick
    BY <1>2, <2>3 DEF Tick
  <2> QED BY <2>1, <2>2, <2>3 DEF Environment
<1>4. TypeOK' /\ DrawnInv'
  BY <1>1, <1>3 DEF IInv, TypeOK, DrawnInv
<1>5. Grows /\ KeepsToken
  BY <1>1, <1>3 DEF Grows, KeepsToken
<1>6. (\A g \in Getter : GetterOK(g)') /\ (\A w \in Reader : ReaderOK(w)')
  BY <1>1, <1>4, <1>5, GetterKept, ReaderKept
<1> QED BY <1>4, <1>6 DEF IInv, GetInv, ReadInv

LEMMA StutterStep == ASSUME IInv, UNCHANGED vars PROVE IInv'
<1>1. UNCHANGED <<users, userToken, logins, now, late, drawnFor, get, read>>
  BY DEF vars
<1>2. TypeOK' /\ DrawnInv' /\ Grows /\ KeepsToken
  BY <1>1 DEF IInv, TypeOK, DrawnInv, Grows, KeepsToken
<1> QED BY <1>1, <1>2, GetterKept, ReaderKept DEF IInv, GetInv, ReadInv

LEMMA NextIInv == IInv /\ [Next]_vars => IInv'
<1> SUFFICES ASSUME IInv, [Next]_vars PROVE IInv'
  OBVIOUS
<1>1. CASE \E g \in Getter :
             GetterStep(g) \/ \E t \in Text \cup {None} : Get(g, t)
  BY <1>1, GetStep, SelectStep, UpdateStep DEF GetterStep
<1>2. CASE \E w \in Reader :
             ReaderStep(w) \/ \E t \in Text \cup {None} : Read(w, t)
  BY <1>2, ReadStep, ReadLoginStep, ReadUserStep DEF ReaderStep
<1>3. CASE \E s \in late : LateUpdate(s)
  BY <1>3, LateStep
<1>4. CASE Crash
  BY <1>4, CrashStep
<1>5. CASE Environment
  BY <1>5, EnvironmentStep
<1>6. CASE UNCHANGED vars
  BY <1>6, StutterStep
<1> QED BY <1>1, <1>2, <1>3, <1>4, <1>5, <1>6 DEF Next, Step, Serve

LEMMA Inductive == Spec => []IInv
BY InitIInv, NextIInv, PTL DEF Spec

-----------------------------------------------------------------------------
\* The calls and the tables always have values of their types.
THEOREM TypeCorrect == Spec => []TypeOK
<1>1. IInv => TypeOK
  BY DEF IInv
<1> QED BY Inductive, <1>1, PTL

\* No two users have the same user.token: each token is drawn for one user,
\* and an UPDATE, late or repeated, stores it only there.
THEOREM TokensDistinctCorrect == Spec => []TokensDistinct
<1>1. IInv => TokensDistinct
  BY DEF IInv, DrawnInv, TokensDistinct
<1> QED BY Inductive, <1>1, PTL

(* gettoken and webgettoken tell a token only for a login token of the     *)
(* user it was drawn for, which gettoken finds valid at some time of the   *)
(* call, unless the text sent to gettoken ends its string.                 *)
THEOREM TokensAuthenticCorrect == Spec => []TokensAuthentic
<1>1. IInv => GetterAuthentic
  BY DEF IInv, GetInv, GetterOK, Owns, Holds, GetterAuthentic
<1>2. IInv => ReaderAuthentic
  BY DEF IInv, ReadInv, ReaderOK, Told, Holds, ReaderAuthentic
<1> QED BY Inductive, <1>1, <1>2, PTL DEF TokensAuthentic

\* The user of a login token answered with success has the token returned, or
\* one that another attempt drew for it.
THEOREM GetterStoredCorrect == Spec => []GetterStored
<1>1. IInv => GetterStored
  <2> SUFFICES ASSUME IInv, NEW g \in Getter, Got(g), get[g].tok \in LToken,
                      get[g].user \in users, userToken[get[g].user] # get[g].out
               PROVE  \E t \in UToken \ {get[g].out} :
                        /\ drawnFor[t] = get[g].user
                        /\ userToken[get[g].user] = t
    BY DEF GetterStored
  <2>1. get[g].user \in User /\ userToken[get[g].user] # None
    BY DEF IInv, GetInv, GetterOK, Owns, Served
  <2>2. userToken[get[g].user] \in UToken
    BY <2>1 DEF IInv, TypeOK
  <2> QED BY <2>1, <2>2 DEF IInv, DrawnInv
<1> QED BY Inductive, <1>1, PTL
=============================================================================
