# Verification of scp_backend

TLA+ models of `scp_backend`, the C++20 backend of a game community (SCP:COC-MS):
an HTTP server over asio and llhttp that authenticates players against MySQL.
Source lines are given as `file:line` of the repository.

## 1. The system

A request goes through four layers, each on threads of its own:

```
 client ── TCP ── session (IO threads, main.cpp:86-610)
                    │ on_message_complete posts process_request (main.cpp:144)
                    ▼
          business pool, >= 200 threads (main.cpp:644)
                    │ build_response: router, handlers (main.cpp:208-537)
                    ▼
          ConnectionPool (sqlsave.cpp:47-150) ── MySQL, MyISAM tables
```

| component | state | operations | how it interacts | what is hard |
|---|---|---|---|---|
| Connection pool | queue of connections, `actual_pool_size_`, `health_running_`, reference count | `getConnection`, `releaseConnection`, health thread, constructor, destructor | called by every handler; shared by `getPool()` | condition variable, counter outside the mutex, destruction while in use |
| Login sessions | tables `user`, `login_token` | `log`/`login_once`, `reg`, `adlog` | business threads; retries on connection errors | check-then-insert, retried and late INSERTs, partial failure |
| User tokens | column `user.token` | `gettoken`, `webgettoken` | read `login_token`, write `user` | retries, an UPDATE executed after its retry, two calls for one user |
| Verify tokens | table `user_verify_token` | `v_token`, `web_v_token` | read `user` by `user.token`; the game server redeems | two redeemers, lost replies, bans in between |
| Token cache | vector of tokens, worker thread | `TokenCache::Get` | every token of the three above | start of the worker, growth |
| Log ring | ring of 4096 entries, head, tail, `log_running` | `try_push`, `try_pop`, `log_writer`, `log_stop` | every thread pushes, one writer pops and prints, main stops it | atomic indexes without a lock, written for one producer and used by many; the flag cleared anywhere in the writer's loop |
| HTTP session | socket, parser, buffer, request fields | `do_read`, `on_message_complete`, `process_request`, `do_write`, `reset_parser` | IO threads and business threads share it without a strand | handlers of one session on several threads, requests in several reads, lifetime of the response |
| Parameters | URL, headers, body, `query_params` | callbacks of the parser, `parse_params`, `parse_post_params`, `url_decode` | the session fills them, the router reads them | a read that ends inside a span, escapes, what a request leaves to the next |
| Router | none | `build_response` | session to handlers | codes of eleven handlers against eleven switches |
| User list | table `user` | `adlist`, `get_user_list` | router; `reg` adds users meanwhile | the offset in `int`, pages of a table that grows |
| Start and shutdown | `g_db`, `g_business_pool`, `running`, `g_writer_thread` | `start`, `main`, `console_handler`, `log_stop`, static destructors | destroys what handlers use | order of destruction with handlers running, threads nobody joined |
| Permission cache, server list | maps filled at the start | `loadAll`, `get`, `getServersSnapshot` | read by handlers | never refreshed |
| User information, mail | none | `getinfo`, `maillist` | SELECTs | |
| Configuration, MD5, Base64, status | none | pure functions, files | | |

The authentication chain (README.md:62) goes through three of them: a name and
a password give a `login_token`, a login token a `user.token`, a user token a
one-time `verify_token`, and the game server exchanges a verify token for the id.

What makes each part correct, and where it is stated:

- **Connection pool**: a connection has one user; never more than
  `max_open_conns`; the counter agrees with what exists; nobody sleeps beside a
  free connection; the pool is not destroyed under a handler; the destructor ends.
- **Login sessions**: a login token stands for an account whose name and password
  were presented, and for one account.
- **User tokens**: no two users have one token; a token is told only for a valid
  login token of the same user. `gettoken` keeps to this when the text it is sent is a
  token: it does not test that (get_token.cpp:28-30).
- **Verify tokens**: redeemed at most once, for the user it was made for.
- **Chain**: an id told to the game server is that of somebody who presented a name
  and a password, with the same reserve.
- **HTTP session**: one thread at a time in the parser, the buffer and the socket;
  answers in order; no request lost between two reads.
- **Parameters**: a request is executed with the values the client meant, and with none
  of the request before it.
- **Router**: every code a handler returns has an arm.
- **User list**: consecutive pages join, also while users register.
- **Log ring**: while calls do not overlap, a queue that loses a message only when it
  is full; what was logged before `log_stop` is printed.
- **Start and shutdown**: what a handler uses is destroyed after the last handler,
  but for `g_db`; the process ends when asked to.

## 2. Modules

| module | models | extends / instantiates |
|---|---|---|
| `ConnectionPool` | `ConnectionPool` of sqlsave.cpp:47-150, `getPool`, its destruction | instantiates `ConnectionLease` |
| `ConnectionLease` | abstract: exclusive leases of at most `Max` connections | |
| `ConnectionPoolProofs` | theorems about `ConnectionPool` | `ConnectionPool`, TLAPS |
| `LoginSession` | `log`, `login_once`, `reg`, `adlog` (login.cpp, register.cpp, ad_login.cpp, sqlsave.cpp:408-482, 516-565) | |
| `LoginSessionProofs` | theorems about `LoginSession` | `LoginSession`, TLAPS |
| `UserToken` | `gettoken`, `webgettoken` (get_token.cpp, web_get_token.cpp) | |
| `UserTokenProofs` | theorems about `UserToken` | `UserToken`, TLAPS |
| `VerifyToken` | `v_token`, `web_v_token` (v_token.cpp, web_v_token.cpp, sqlsave.cpp:256-272, 484-515) | instantiates `OneTimeToken` |
| `OneTimeToken` | abstract: a token is exchanged for its owner at most once | |
| `VerifyTokenProofs` | theorems about `VerifyToken` | `VerifyToken`, TLAPS |
| `AuthChain` | the three links on shared tables in one process | instantiates `LoginSession`, `UserToken`, `VerifyToken` |
| `AuthChainProofs` | theorems about `AuthChain` | `AuthChain`; instantiates the three proof modules |
| `Session` | who has the HTTP session of main.cpp:86-610 | |
| `SessionProofs` | theorems about `Session` | `Session`, TLAPS |
| `Request` | what one request becomes: spans, parameters, route, answer (main.cpp:106-247, 303-537) | `UserList` |
| `UserList` | `adlist`, `get_user_list` (ad_userlist.cpp, sqlsave.cpp) | |
| `LogRing` | the log of log-system.h: ring, writer, `log_stop` | instantiates `LogQueue` |
| `LogQueue` | abstract: a bounded queue that drops when full, emptied in order | |
| `LogRingProofs` | theorems about `LogRing` | `LogRing`, TLAPS |
| `Lifecycle` | `start()`, `main` (main.cpp:612-766), the static destructors, the worker of `TokenPool` | |
| `MainProofs` | theorems about the two modules of main.cpp that stand beside `Session` | `Lifecycle`, `Request`, TLAPS |
| `MC...` | symmetry sets and the requests of the client for TLC | the module of the same name |

An operator marked `\* fault:` before a definition is the same definition with a
plausible mistake. It is not part of the specification: it is put in the place of
the definition to see that a property notices.

### ConnectionPool

`pool` is the queue `pool_`, `actual` is `actual_pool_size_`, `conn[t]` the
`unique_ptr` thread `t` holds, `owner` the reference of `g_db`; `pc`, `hpc` and
`dpc` say where the callers, the health thread and the destructor stand. A critical
section of `mutex_` without a blocking call is one action (`GetConnection`,
`Resume`, `ReleasePush`). Steps are cut where another thread may come between:
`releaseConnection` lowers the counter without the mutex (`ReleaseInvalid`) and
notifies later (`NotifyAfterDrop`); the health thread computes what is missing
(`HealthCheck`), takes the mutex (`HealthLock`), connects with the mutex held
(`HealthCreate`, `HealthCount`, which add to the queue and to the counter in two
steps) and notifies once (`HealthDone`). `cv_` is the set of threads whose `pc` is
`"waiting"`; `SpuriousWake` is what `std::condition_variable` allows. The
destructor stores `health_running_` without `health_mtx_`, so its `notify_all`
(`DestroyNotify`) may come between the health thread's test and its wait.

### LoginSession, UserToken, VerifyToken

A call is a record: `pc`, what it has read, and at the end its status `code`, the
one in the handler's header (500 for an exception `process_request` catches). One
action is one SQL statement with the code up to the next one, since the tables are
MyISAM and nothing groups statements. A statement whose connection fails is answered
with the failure and put into `late`: the server may execute it once, at any later
moment, or never. `Crash` loses the calls under way; the tables and `late` stay.
Passwords stand for their MD5. A token is drawn from a set of those never drawn
before, which is what `TokenCache::Get` gives but for the collisions of 256 random
bits. `Environment` has the steps of the rest of the system (administrators, the
other links); `AuthChain` checks that the other links keep to it.

- `LoginSession`: `rows[t][u]` counts the rows of `login_token` with token `t` and
  user `u`; `form` is what the validation of a request finds; `Log`, `Reg`, `Adlog`
  validate in the order of their files, `LoginOnce` is the `INSERT ... SELECT` with
  its retries, `RegLook` and `AdLook` the SELECTs, `AddUser` and `AddToken` the
  INSERTs. `UniqueNames` says whether `user.username` has a unique key: the schema is
  not in the repository.
- `UserToken`: `Select` reads `login_token` and draws a token, `Update` stores it,
  both again on a retry; `ReadLogin` and `ReadUser` are the two SELECTs of
  `webgettoken`. The text a client sends is a value of `LToken`, or of `Quoted` when it
  ends the string that get_token.cpp:28-30 puts it into: the SELECT is then another one,
  and `SelectQuoted` gives any user, or none. `webgettoken` binds its text, which is
  compared with the column whatever it is. `drawnFor` and `drew` are history: for whom a
  token was drawn, and which tokens a call has drawn.
- `VerifyToken`: `Check` is `check_permission_get_user` and `TokenCache::Get`,
  `Insert` the row; `Look` reads the row, `Use` is `UPDATE ... WHERE is_use = 0` with
  its row count, `Fetch` is `id_user`.

### AuthChain

A step is a statement of one link (`Serve` of that module), a crash, or a change an
administrator makes. `login_token` is one table: `Sessions` is what `UserToken` sees
of the `rows` of `LoginSession`. Login tokens do not expire here; `UserToken` has the
clock.

### Session

`reads`, `jobs`, `posted`, `writing` are what keeps the session alive, the
`shared_ptr` each of them holds: `async_read_some` calls, tasks in the business pool,
tasks in the `io_context`, `async_write` operations. `io[t]` is where thread `t` is in
a handler: parsing piece by piece (`Parse` is the callbacks of llhttp), at the test of
`message_complete` (`Test`), before `reset_parser` or before `do_read`. `Build` is
`process_request`. The client sends requests in one or two pieces, waits for its
answers, and may disconnect at any time. A write may be done, and its handler run,
before the handler that read the request has tested `message_complete`: `overtaken`
remembers that the parser was reset under it.

### Request and UserList

Text is a sequence of pieces, and a read takes any number of them: a span (URL, header
name, header value, body) may be shared by two reads, which `cut` records. As in
main.cpp:109-125, a callback for the URL or a header *assigns* its span, so that of a
cut span the last part stays; the one for the body appends. When the last piece is
parsed, `parse_params` and `parse_post_params` fill `params` (`Split` has the arithmetic
of `find` and `substr`, with `npos` and the length that wraps); `Route` is the table of
paths and methods, `Codes` what a handler can return for what it was given, `AnswerCode`
the arms of the switches. `Rows` is `ORDER BY id LIMIT l OFFSET ...` with the offset of
`ad_userlist.cpp:19` in an `int` of `IntMax`. `Registered` is `reg` on another session,
which may commit ids out of order.

`Requests` is what a client may send: paths and names of `Letters`, which are pieces of
text that separate nothing; values in which separators occur too, and are escaped; each
name once; a body in the format that the header names. `Scripts` are sequences of any of
them. The specification is `RequestSpec`, of `RequestInit` and `RequestNext`, so that one
module can hold the proofs about `Lifecycle` and about this one.

### LogRing

An index is loaded or stored in one step and an entry copied in two, so that the steps
of `try_push` (`LoadHead`, `TestFull`, `CopyText`, `CopyLevel`, `Publish`) and of
`try_pop` (`FindEntry`, `TakeLevel`, `Free`) interleave. The writer tests `log_running`
before each round; the round after the last test is `"last"`. Nothing keeps two
producers apart: `serial` holds until a push begins inside another. After that the model
goes on, with the loss and the duplication that follow, but claims only that `log_stop`
returns. Refinement: the queue of `LogQueue` is the texts from `ring_tail` to `ring_head`.

### Lifecycle

`mpc` is where main stands: each statement of `main` that destroys or joins something
is an action, in the order of main.cpp:735-766, followed by the static destructors
(`DestroyTokenPool`, `JoinToken`, `DestroyStatics`). `ptr` is `g_db` and `db` the
object it owned: `reset()` clears the one and then destroys the other, and a handler
may come between. A request is a member of `Task`; while it runs it may load `g_db`
(`LoadDb`), use what it loaded (`UseDb`) and draw a token (`DrawToken`), in any order
and number, which stands for every handler. `token` is the worker of `TokenPool`,
which starts by calling `g_tpool()` itself. What the program does after undefined
behaviour is a choice: it dies or goes on. `death` says of what.

## 3. Runs

| run | configuration | distinct states | question |
|---|---|---|---|
| `pool` | 3 threads, 3 connection identities, size 2 | 109 251 | accounting, exclusivity, capacity, wake-ups, destruction, lease refinement; the destructor ends, waiting threads are served, the pool is refilled |
| `pool_timeout` | 1 thread, size 1 | violation | does `getConnection` come back after its timeout? |
| `login_safety` | 3 calls, 2 names, 2 passwords, 2 ids, 2 tokens, 1 retry | 507 228 | what a login token stands for |
| `login_rows` | 2 calls, 1 retry | violation | one row for each login? |
| `usertoken_safety` | 2 `gettoken`, 1 `webgettoken`, 2 users, 2 tokens, 1 retry, clock 0..1, a login token and a text that ends the string, within `Bounded` | 936 051 | `user.token` |
| `verify_safety` | 2 `v_token`, 2 `web_v_token`, 2 users, 2 tokens of each kind | 422 520 | one-time redemption and its refinement |
| `chain` | 2 calls of login, 2 of `gettoken`, 1 of `v_token` and `web_v_token`, 2 names, ids, login tokens and user tokens, 1 retry, within `Bounded` | 149 546 | is the id told that of an account that logged in, and do the links keep to what the others assume? |
| `session` | 3 io threads, 4 requests | 73 479 | half duplex, order of answers, causes of a drop, liveness |
| `request` | 2 requests on a connection, from 44 pairs; 5 users, pages of 2, `IntMax` 7 | 854 438 | do parameters arrive, is anything inherited, has every code an arm, do pages join? |
| `request_test` | the request of logintest.js after another | violation | is the load test's login understood? |
| `logring` | 2 producers, 2 messages each, ring of 3 | 201 207 | the queue, the drain at `log_stop`, its return |
| `lifecycle` | 4 requests | 18 879 | what is used after it is destroyed, does the process end, and how |

Bounds. The size of the pool is one less than the threads, so that threads wait,
and it has one connection identity more than its size, so that one broken connection
can be replaced before the thread that found it has finished. Two calls on each side
of a token make every race of two; a third login call lets one register, one log in
and one be an administrator. One retry (`kMaxRetries` is larger in the code) already has
a first attempt executed late, after the second. A clock with two values
and `LoginExpire = 0` has rows that are valid, that expire during a call and that have
expired. `Bounded` (MCUserToken) explores no further when two calls have been sent the text
that ends the string, or when the login token has a third row: the two allowed are of one
user, with two times of expiry, or of a removed user and of another. Two pieces make a request that spans reads, four requests two uses of the
connection before and after a request that is refused. Three io threads are the one that
overtakes, the one overtaken and one more. Two requests on a connection are what one can
leave to the next; each is cut at every place. With `IntMax = 7` and pages of 2, the
pages asked for have offsets that fit, that wrap to a negative number and that wrap back
to a positive one; pages 1 and 2, and 2 and 3, follow each other, and five users put rows
on all three. `chain` has the chains of two
users at once, or one with something going wrong. `Bounded` (MCAuthChain) ends a path when
a call other than `gettoken` fails, and lets one thing at a time be wrong (`MaxFaults`): a
statement that may still be executed, a removed user, a failed or a second `gettoken`. In
it nobody is an administrator, so that `adlog` is only refused: its link is checked in
`login_safety` and proved. An id is told after a retry of the login and of `gettoken`,
beside another user's token, and after a text that ends the string. A ring of 3 is full with two entries and wraps round with the third of
four messages. Four requests in `lifecycle`
are one in each state that matters when main begins to stop: waiting in the pool,
using `g_db`, about to load it, drawing a token. `kMaxRetries`, `MaxTime`, `MaxPush`
and `MaxRequests` are the only bounds on counters, and the two `Bounded` the only constraints, `rows` and `reads` being bounded
by them. Symmetry is declared for sets of identities in runs without liveness.
Calls end and are not made again, so runs stop when all are done: this is why
deadlock is not checked for them. The pool is destroyed at the end, a session is
dropped, the log is stopped.

### Fairness

Only `pool`, `pool_timeout`, `session`, `logring` and `lifecycle` have liveness properties.

- Pool: threads that can run do (weak fairness of each thread's steps, of the health
  thread and of the destructor); a handler that has taken the `shared_ptr` uses it or
  leaves. Nothing makes a request arrive, a connection break, a wait wake spuriously, or `main`
  drop the pool. The wait of the health thread has a timeout, so its wake-up is a step
  of the health thread. `RecoverySpec` adds that the database does not refuse
  connections for ever (strong fairness of `HealthCreate`); without it
  `WaitersServed` is false, which is what `pool_timeout` shows.
- Lifecycle: main and the worker of `TokenPool` run when they can (weak fairness). A
  handler that uses `g_db` comes back and, however often it goes on, comes to its end
  (strong fairness of `Finish`): it has no loop without a bound. While the database is
  gone this is not so, `getConnection` having no timeout, and main then waits in
  `join()`: see `pool_timeout`. Nothing makes a request arrive or a key be pressed.
- Log: the writer is a thread that runs when it can, and main is in the `join` of
  `log_stop` (weak fairness of both). Nothing makes a producer push or finish a push.
- Session: some ready handler or task runs as long as there is one (weak fairness of
  `Server`). The client is not fair: it need not send or disconnect.

### What the violations show

- `pool_timeout`: sqlsave.h:131 declares `getConnection(int timeout_ms = 30000)`;
  the body waits without a timeout (sqlsave.cpp:123).
- `login_rows`: README.md:74 says one row of `login_token` per login; the retry of
  `login_once` after a lost reply inserts a second (sqlsave.cpp:531-546).
  `RowsBounded` says that there are no more than attempts.
- `request_test`: the load test logintest.js:15 sends `Content-Type`, and main.cpp:172
  looks for `content-type` in a map of the names as they were sent. The body is not
  parsed, and the login is answered as one with empty parameters, under HTTP 200.

Other divergences the models delimit and the properties do not exclude:

- `Session`: the handler of a read tests `message_complete` after the request has been
  posted to another pool (main.cpp:592). When the answer has been written and the parser
  reset before the test, two reads are started on one socket, which Asio declares unsafe.
  It needs a thread to be suspended for the whole of an answer; `HalfDuplex`,
  `AnswersMatch`, `DroppedForCause` and `Answered` hold until it happens (`overtaken`).
- `UserToken`: gettoken puts the client's text into its SELECT as it is
  (get_token.cpp:28-30), where webgettoken binds it (sqlsave.cpp:242). A text with a
  quote changes the SELECT; the token drawn is then for the user of whatever row it gives.
  `TokensAuthentic`, `GetterStored` and `IdentityProven` therefore speak of the calls of
  gettoken that were sent a token. `TokensDistinct`, the binding of a token to the user it
  was drawn for and the two refinements hold whatever is sent.
- `Request`: a URL or a header that two reads share loses its beginning, because the
  callbacks assign (main.cpp:109-125); the end of a span counts, so that a read that ends
  just before the space after the URL leaves it empty. `ParamsArrive` holds when no span
  but the body is cut. A path that is not in the table is answered with 200 (main.cpp:536).
- `Request`: 4 stands for illegal characters of the name or password in login.h:11, and
  login.cpp:59-62 gives it for the device name too; the router's default device name
  (main.cpp:252) has such characters, so that a login without one is refused
  (`DeviceLegal`), although login.cpp:59 lets the device be empty and logintest.js sends
  none: the sources do not agree on what is meant, and no property is about it. The code 5 of `gettoken` and `webgettoken` has no arm and is
  answered as an unexpected one (`NoUnexpectedCode`).
- `UserList`: `(page - 1) * size` wraps for a large page (ad_userlist.cpp:19); a negative
  offset is refused by the database, a positive one shows the rows of another page.
  `PagesJoin` is about the pages whose offset fits, and about accounts that are added;
  one removed between two calls would leave somebody out.
- `LogRing`: two pushes that overlap read the same `ring_head` and write one entry; a
  message is lost or printed twice, and `ring_head` may move back behind `ring_tail`.
- `Lifecycle`: a null or dangling `g_db` between main.cpp:750 and 755 (`DiesInWindow`); a
  failed start, whose `exit(1)` of main.cpp:684 or `return 1` meets `g_writer_thread`,
  which only `log_stop` joins, and ends in `std::terminate` (`AbortsOnlyEarly`); a
  configuration that could not be loaded; and a worker of `TokenPool` that starts while
  `~TokenPool` waits for it, if the first token was drawn just before. `CleanWhenIdle`
  excludes all of them by what it assumes, and says that nothing else is needed.

## 4. Proofs

TLAPS proves, for every value of the constants that satisfies the module's ASSUME:

| theorem | module | property |
|---|---|---|
| `TypeCorrect`, `AccountingCorrect`, `ExclusiveCorrect`, `CapacityCorrect`, `NoUseAfterDestroyCorrect`, `NoStrandedWaiterCorrect` | `ConnectionPoolProofs` | the safety invariants of the pool |
| `LeaseRefinement` | `ConnectionPoolProofs` | `ConnectionPool` implements `ConnectionLease` |
| `TypeCorrect`, `AtMostOnce`, `ToldOwner`, `SpentForSomebody` | `VerifyTokenProofs` | the invariants of the verify tokens |
| `OneTimeRefinement` | `VerifyTokenProofs` | `VerifyToken` implements `OneTimeToken` |
| `TypeCorrect`, `TokensDistinctCorrect`, `TokensAuthenticCorrect`, `GetterStoredCorrect` | `UserTokenProofs` | the invariants of `user.token` |
| `TypeCorrect`, `AuthenticCorrect`, `SuccessStoredCorrect`, `RowsBoundedCorrect`, `TokenOneOwnerCorrect` | `LoginSessionProofs` | the invariants of the login tokens |
| `IdentityProvenCorrect` | `AuthChainProofs` | the chain proves an identity |
| `UserTokenRefinement`, `VerifyTokenRefinement` | `AuthChainProofs` | the links keep to the environments the others assume |
| `TypeCorrect`, `HalfDuplexCorrect`, `AnswersMatchCorrect`, `DroppedForCauseCorrect` | `SessionProofs` | the invariants of the session |
| `TypeCorrect`, `Drained`, `RingImplementsQueue` | `LogRingProofs` | the log ring, and that it implements `LogQueue` |
| `TypeCorrect`, `DestroyedAfterUseCorrect`, `AbortsOnlyEarlyCorrect`, `DiesInWindowCorrect` | `MainProofs` | what shutdown destroys, and when it may die |
| `ParamsCorrect`, `InheritanceCorrect` | `MainProofs` | what a request is executed with |
| `CodesCorrect` | `MainProofs` | the codes of the operations and their answers |
| `PagesCorrect` | `MainProofs` | the pages of users join |

**Pool.** Assumed: finitely many threads, a positive size, `NoConn` is no connection
(`PoolAssumption`). `Capacity` is not inductive: a thread may give up a slot between
`HealthCheck`, which computes how many are missing, and the refill. `HealthInv`
says why this does no harm: the counter only falls meanwhile, so
`actual + need <= PoolSize` stays true. `Accounting` ties the counter to the
connections that exist, off by one at `"count"`. `OwnerInv` says that a thread owns a
connection exactly while it uses or returns it, and `LifeInv` that the destructor has
no company. `IInv` is their conjunction with `TypeOK` and `Exclusive`;
`NoStrandedWaiter` is proved beside it. The refinement maps each step to a grant,
a return, a discard, a replacement, the closing of the pool, or a stutter.

**Verify tokens.** Assumed: `None` is no user and no token (`VerifyAssumption`). At
most one redemption follows from `WinInv`: a call that passed the UPDATE has its token
in `isUse`, which is never emptied, and two such calls with one token are one call.
That the owner is the right one follows from `DrawInv` (a token is drawn by one call),
`OwnerInv` (a row, stored or still late, is for the user its token was drawn for) and
`ReadInv` (what a call has read of a row is still so: rows are never changed or
removed). The refinement uses all of them.

**User tokens.** Assumed: `UserTokenAssumption`. `DrawnInv` says that what the table
holds, and what a late UPDATE may still store, was drawn for its user; a token is drawn
for one user, so that no two users have the same: this needs nothing of the text, since a
draw is for the user the UPDATE names. `GetterOK` and `ReaderOK` say what a
call holds between its statements. `Served`, the part about `GetterStored`, is kept
because a late UPDATE replaces a token by another of the same user and an id that was
removed is not given out again.

**Login sessions.** Assumed: `LoginAssumption`. `Authentic` needs `LateInv` (a late
statement was sent by a call that had presented what it stores), `DrawInv` (a login
token is drawn by one call) and that accounts and presented credentials never change
(`Keeps`). `RowsBounded` is not inductive, since a late INSERT adds a row at any time:
`BudgetInv` counts the rows, the late INSERTs and the attempts left together, and no step
raises the sum. `TokenOneOwner` assumes the unique key.

**Chain.** Assumed: `ChainAssumption`, the assumptions of the three links, and the unique
key. `LoginForExchange`, `ExchangeSteps` and `VerifySteps` show that a step of one link
is, for another, a step of its environment or nothing: a row is stored for an account of
the name its token was drawn for, a user gets an id without rows, and `user.token` becomes
a token nobody has. Hence each link's `IInv` holds in the chain, and the environments are
refined. `Linked` ties the links: a call of `v_token` holds a token drawn for the user it
asks for, and a token was drawn by a call of `gettoken` (`drew`) under whose login token,
if it was sent one, its user has a row. `IdentityProven` follows along the chain, from `ReadInv` and
`OwnerInv` to `Linked` to `Authentic`. Each link's specification occurs twice there, as
`AuthChain` and as its proof module instantiate it; `SameLogin`, `SameExchange` and
`SameVerify` show that they are the same.

**Session.** Assumed: finitely many io threads (`SessionAssumption`). `Owner` says
who has the session: an outstanding read (`Reading`), a handler that parses or is between
two reads, a task or an answer under way (`Owing`), a handler that resets the parser, or
nobody (`Dropped`), and where the pieces of the request are in each case. `InTurn` holds
it until a reset overtakes a handler; every step passes the session from one to the next.

**Log ring.** Assumed: a ring of at least 2 entries, `Blank` is no message
(`LogRingAssumption`). While `serial`: `PushInv`, one producer pushes, at the head, where
there is room; `WholeInv`, the entries that wait are whole; `CopyInv`, what the writer has
copied is still the oldest entry; `OwedInv` and `LastInv`, what was in the ring when the
flag was cleared is there or printed, and the writer does not end before a round that
began after it. The lemmas on `Succ`, `Span` and `Fwd` are the arithmetic of the ring.

**Lifecycle.** Nothing is assumed of `Task`. `IoInv`, `DbInv`, `TaskInv` and `ExitInv`
tell from where main stands what the `io_context`, `g_db`, the tasks and the thread of
the log can be.

**Request.** Assumed: the pieces that separate are no letters, the client sends members
of `Requests`, ids of users are natural numbers (`RequestAssumption`), and of the pages
that `Limit` is positive and fits an int (`UserListAssumption`). The proof of
`ParamsArrive` and `NothingInherited` has two halves.

- *Reading.* Neither invariant is inductive: while a request is being read, nothing in
  them speaks of what the session holds. `ReadInv` does: a session without a request holds
  nothing; with one, `Partly` says for each span of the request which of its pieces the
  field holds, given how many pieces of the whole stream were read. `Held` is the part about
  one span that is assigned: the pieces from some place `c` on, where `c` is not 0 only if
  `cut` has the span, and `cut` has it as soon as a read has ended inside. The body holds
  all pieces so far. `PartlyRead` shows that a read of any length, which may
  end in one span, complete others and begin a third, keeps this; `StreamLayout` says where
  the spans lie. The parameters are those of the URL with those of the body over them,
  and exist when nothing is left to read and not before.
- *Parsing.* `FormLayout` says where each pair of a form begins and ends, `FormFound` what
  the two `find` of the loop return from there: the '=' of the pair itself, or, for a bare
  name, one of a later pair or none. `SplitForm` follows: a name the client gave a value
  has that value, and no other name of one piece has any, since what a bare name swallows
  is a longer key. `UrlPath` and `UrlQuery` say the same of the URL, also of an end of it,
  `QueryGiven` and `PostGiven` of all parameters.

`Split` is no recursion but the set of the places where the loop reads a pair. Only
`FlattenSeq`, which lays pairs out, is defined by recursion. Induction over it
(`Induction`) is taken inside a set, from the well-foundedness of the natural numbers: the
library's own theorem has an operator as a parameter, which the provers cannot
instantiate.

`NoUnexpectedCode` follows from what `Respond` may answer (`RespondReplies`), operation by
operation. For `PagesJoin`, `ListsInv` remembers that each page was
cut from the table of its time and that tables grow. `Join` is about two pages: the rank of
a user (`Before`) grows with the table, so that somebody who was before the end of the
first page may move to the second but nobody moves back; and `ExactOffset`, that the
offset does not wrap.

Model-checked only: `DestructorTerminates`, `WaitersServed`, `Refilled`, `Answered`,
`Stops`, `CleanWhenIdle` and `LogStopReturns`. They are about liveness under fairness, which
the prover does not handle. `ImplementsLease`, `ImplementsOneTimeToken`, `ImplementsQueue`,
`ImplementsUserToken` and `ImplementsVerifyToken` are both checked and proved.

## 5. Assumptions

- Fresh tokens are distinct. Of `TokenPool` only the life of its worker and of the
  static object is modelled.
- Clients wait for their answers. Two requests in one read are posted as two tasks
  (main.cpp:144), which share the fields and may write at the same time.
- `acceptor.close()` (main.cpp:741) runs on main's thread while io threads may call
  `async_accept` on the same acceptor; accepting is one step of `Lifecycle`.
- A statement is atomic, and one reported as failed is executed at most once.
- Whatever text gettoken is sent, what it sends to the server is one SELECT, which changes
  no table: the connection is opened without the option for several statements
  (sqlsave.cpp:49). A text that equals a token under the collation of the column counts as
  that token. `login_once` builds its INSERT from text too (sqlsave.cpp:521-526), but from
  a name and a device name that login.cpp:54-62 limits to characters without a quote, an
  MD5, an address that Asio has formatted, and numbers.
- The pool's slot and its connection are given up in one step (`ReleaseInvalid`); the code
  destroys the object after `fetch_sub` and `notify_one` (sqlsave.cpp:136-138). `Capacity`
  therefore counts the connections that can be used, not one that was found broken and
  whose destructor has yet to run.
- Memory suffices. `reserve(content_length)` (main.cpp:127-131) may throw for a large
  number, and an exception that leaves `io_context.run` (main.cpp:731) ends the process;
  `Session` has no such outcome.
- `ConsoleHandler` is Ctrl-C. After CTRL_CLOSE_EVENT (main.cpp:612-618) Windows ends the
  process when the handler returns, at whatever point of the orderly stop main has reached.
- The bytes of an answer are taken when the write starts. `do_write` gives Asio a view
  of a string that is destroyed when `do_write` returns (main.cpp:598-600), although
  write.hpp:769-771 asks the caller to keep it.
- The answer of the permission cache does not change by itself: it is loaded once, and
  `refresh` has no caller.
- `s_usertoken` and `refreshServers` after the start have no caller.
- `nlohmann::json` reads back what the client's writer wrote; llhttp reports spans in
  order, and the part of each that lies in the read.

### Not modelled

- Token cache, in part: the vector is filled by a worker and emptied from its end under
  one mutex, and nothing bounds it. What its callers need of it, that no token is given twice, rests on
  256 random bits, not on an order of steps.
- Permission cache and server list: filled before the first request and never changed
  again. `Request` has the list as an operation, the other modules take the answer of a
  permission check as given.
- User information and mail: a permission check, a SELECT and formatting. `Request` has
  their codes.
- Configuration: loaded or not (`Lifecycle`); its values are the constants.
- MD5, Base64 and gzip: pure functions over long inputs, whose values nothing in the
  control depends on.
- System status: reads counters of Windows and formats them.
- Vendored code (asio, llhttp, the MySQL connector, nlohmann::json, yaml-cpp), which is
  most of the repository's lines: modelled by what the code relies on.

## 6. Plan

Done, in this order: `ConnectionPool` and its proofs, `VerifyToken` and its proofs,
`UserToken`, `LoginSession`, `AuthChain`, `Session`, `Lifecycle`, `LogRing` and its proofs,
`Request` with `UserList`, and the proofs about the others.

Left, most important first:

1. `Session` with a client that pipelines: the code promises it nothing, and what is left
   of the guarantees would have to be found first.
2. The vector of `TokenPool` against what is drawn from it.
