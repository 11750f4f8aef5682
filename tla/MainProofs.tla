------------------------------ MODULE MainProofs ------------------------------
(***************************************************************************)
(* Proofs about the two modules that model main.cpp: Lifecycle, its start  *)
(* and shutdown, for any number of requests, and Request, what one session *)
(* makes of what it reads, for all requests a client may send, every way   *)
(* the reads cut them, and any table of users.                             *)
(***************************************************************************)
EXTENDS Lifecycle, Request, FiniteSetTheorems, SequenceTheorems,
        WellFoundedInduction, TLAPS

-----------------------------------------------------------------------------
(* Where main stands tells what the objects are, and what the tasks can    *)
(* still be: the io_context takes requests while main serves or joins its  *)
(* threads, StopPool leaves no task queued, JoinPool none active and       *)
(* ResetPool none at all.                                                  *)
Starting == {"start", "connect", "failed", "listen"}
Stopping == {"resetdb", "freedb", "stoppool", "joinpool", "resetpool",
             "stoplog", "unwind"}
Exiting  == {"exit", "jointoken", "statics", "ended"}

IoInv ==
  /\ mpc \in Starting => io = "none"
  /\ mpc = "serving" => io = "running"
  /\ mpc = "joinio" => io = "stopping"
  /\ mpc \in Stopping => io = "joined"
  /\ mpc \in Exiting => io \in {"none", "destroyed"}

DbInv ==
  /\ mpc \in {"listen", "serving", "joinio", "resetdb"} => ptr
  /\ mpc \in {"listen", "serving", "joinio", "resetdb", "freedb"} => db = "alive"

TaskInv ==
  /\ io = "none" => \A t \in Task : task[t] = "none"
  /\ mpc \in {"joinpool", "resetpool", "stoplog", "unwind"} \cup Exiting =>
       \A t \in Task : task[t] # "queued"
  /\ mpc \in {"resetpool", "stoplog", "unwind"} \cup Exiting =>
       \A t \in Task : ~Active(t)
  /\ mpc \in {"stoplog", "unwind"} \cup Exiting \/ io = "destroyed" =>
       \A t \in Task : ~InPool(t)

ExitInv ==
  /\ mpc = "unwind" => writer = "joined"
  /\ mpc \in Exiting /\ io = "none" => code = 1
  /\ mpc \in Exiting /\ io = "destroyed" => writer = "joined"
  /\ death = "unjoined thread" => code = 1 /\ io = "none"

IInv == TypeOK /\ IoInv /\ DbInv /\ TaskInv /\ ExitInv

LEMMA InitIInv == Init => IInv
BY DEF Init, IInv, TypeOK, IoInv, DbInv, TaskInv, ExitInv, Starting, Stopping,
   Exiting, Active, InPool

-----------------------------------------------------------------------------
(* The steps of main.                                                      *)
LEMMA StartStep ==
  ASSUME IInv, Configure \/ Connect \/ ExitFailed \/ Listen
  PROVE  IInv'
BY ZenonT(30) DEF IInv, TypeOK, IoInv, DbInv, TaskInv, ExitInv, Starting, Stopping,
   Exiting, Active, InPool, Configure, Connect, ExitFailed, Listen, Die, Exit,
   objects, tokens

LEMMA StopStep ==
  ASSUME IInv, StopIo \/ JoinIo \/ ResetPointer \/ FreeDb
  PROVE  IInv'
BY ZenonT(30) DEF IInv, TypeOK, IoInv, DbInv, TaskInv, ExitInv, Starting, Stopping,
   Exiting, Active, InPool, StopIo, JoinIo, ResetPointer, FreeDb, IoJoined,
   tokens

LEMMA PoolStep ==
  ASSUME IInv, StopPool \/ JoinPool \/ ResetPool
  PROVE  IInv'
<1>1. UNCHANGED <<code, running, io, ptr, db, writer, token, started, death>>
  BY DEF StopPool, JoinPool, ResetPool, objects, tokens
<1>2. TypeOK'
  <2>1. task' \in [Task -> {"none", "queued", "running", "holding", "done",
                            "discarded", "destroyed"}]
    BY DEF IInv, TypeOK, StopPool, JoinPool, ResetPool, DestroyDiscarded
  <2>2. /\ mpc \in {"stoppool", "joinpool", "resetpool"}
        /\ mpc' \in {"joinpool", "resetpool", "stoplog"}
    BY DEF StopPool, JoinPool, ResetPool
  <2>3. death = "no"
    BY <2>2 DEF IInv, TypeOK
  <2>4. {running, ptr, started}' \subseteq BOOLEAN
    BY <1>1 DEF IInv, TypeOK
  <2> QED BY <1>1, <2>1, <2>2, <2>3, <2>4 DEF IInv, TypeOK
<1>3. /\ mpc \in {"stoppool", "joinpool", "resetpool"}
      /\ mpc' \in {"joinpool", "resetpool", "stoplog"}
  BY DEF StopPool, JoinPool, ResetPool
<1>4. io = "joined"
  BY <1>3 DEF IInv, IoInv, Stopping
<1>5. IoInv' /\ DbInv' /\ ExitInv'
  BY <1>1, <1>3, <1>4 DEF IInv, IoInv, DbInv, ExitInv, Starting, Stopping,
     Exiting
<1>6. TaskInv'
  <2>1. CASE StopPool
    BY <1>1, <1>4, <2>1 DEF StopPool, TaskInv, Exiting
  <2>2. CASE JoinPool
    BY <1>1, <1>4, <2>2 DEF IInv, JoinPool, Joined, Active, TaskInv, Exiting
  <2>3. CASE ResetPool
    BY <1>1, <1>4, <2>3 DEF IInv, ResetPool, DestroyDiscarded, Active, InPool,
       TaskInv, Exiting
  <2> QED BY <2>1, <2>2, <2>3
<1> QED BY <1>2, <1>5, <1>6 DEF IInv

LEMMA EndStep ==
  ASSUME IInv, LogStop \/ Unwind \/ DestroyTokenPool \/ JoinToken
               \/ DestroyStatics
  PROVE  IInv'
<1>1. UNCHANGED <<running, ptr, db, task, token>>
  BY DEF LogStop, Unwind, DestroyTokenPool, JoinToken, DestroyStatics, Exit,
     objects, tokens
<1>2. /\ mpc \in {"stoplog", "unwind", "exit", "jointoken", "statics"}
      /\ mpc' \in {"unwind", "exit", "jointoken", "statics", "ended", "dead"}
  BY DEF LogStop, Unwind, DestroyTokenPool, JoinToken, DestroyStatics, Exit, Die
<1>3. TypeOK'
  <2>1. /\ code' \in {0, 1} /\ started' \in BOOLEAN
        /\ io' \in {"none", "running", "stopping", "joined", "destroyed"}
        /\ writer' \in {"none", "running", "joined"}
    BY DEF IInv, TypeOK, LogStop, WriterJoined, Unwind, Exit, DestroyTokenPool,
       ClearStarted, JoinToken, DestroyStatics, objects, tokens
  <2>2. /\ death' \in {"no", "unjoined thread"}
        /\ death' = "no" <=> mpc' # "dead"
    BY DEF IInv, TypeOK, LogStop, Unwind, Exit, DestroyTokenPool, JoinToken,
       DestroyStatics, Die
  <2> QED BY <1>1, <1>2, <2>1, <2>2 DEF IInv, TypeOK
<1>4. IoInv' /\ DbInv'
  BY <1>1, <1>2 DEF IInv, IoInv, DbInv, Starting, Stopping, Exiting, LogStop,
     Unwind, Exit, DestroyTokenPool, JoinToken, DestroyStatics, Die, objects
<1>5. TaskInv'
  <2>1. \A t \in Task : task[t] # "queued" /\ ~Active(t) /\ ~InPool(t)
    BY <1>2 DEF IInv, TaskInv, Exiting, Active, InPool
  <2>2. io' = "none" => io = "none"
    BY <1>2 DEF LogStop, Unwind, DestroyTokenPool, JoinToken, DestroyStatics,
       objects
  <2> QED BY <1>1, <2>1, <2>2 DEF IInv, TaskInv, Active, InPool
<1>6. ExitInv'
  <2>1. death = "no"
    BY <1>2 DEF IInv, TypeOK
  <2>2. CASE LogStop \/ Unwind
    BY <2>1, <2>2 DEF IInv, ExitInv, Exiting, LogStop, WriterJoined, Unwind, Exit
  <2>3. CASE DestroyTokenPool \/ JoinToken
    BY <2>1, <2>3 DEF IInv, ExitInv, Exiting, DestroyTokenPool, JoinToken,
       objects
  <2>4. CASE DestroyStatics
    BY <2>1, <2>4 DEF IInv, ExitInv, IoInv, Exiting, DestroyStatics, Die,
       objects
  <2> QED BY <2>2, <2>3, <2>4
<1> QED BY <1>3, <1>4, <1>5, <1>6 DEF IInv

\* The steps that run beside main, and leave it where it is or kill it.
LEMMA BesideMain ==
  ASSUME IInv, UNCHANGED <<code, io, ptr, db, writer>>,
         TaskInv', TypeOK', death' # "unjoined thread" \/ death' = death,
         mpc' \in {mpc, "dead"}
  PROVE  IInv'
BY DEF IInv, IoInv, DbInv, ExitInv, Starting, Stopping, Exiting

LEMMA WorkerStep ==
  ASSUME IInv, Worker \/ ConsoleHandler \/ UNCHANGED vars
  PROVE  IInv'
<1>1. /\ UNCHANGED <<code, io, ptr, db, task, writer>>
      /\ mpc' \in {mpc, "dead"} /\ death' \in {death, "second worker"}
  BY DEF Worker, WorkerStart, WorkerStop, ConsoleHandler, Die, objects, vars
<1>2. TaskInv'
  BY <1>1 DEF IInv, TaskInv, Active, InPool, Exiting
<1>3. TypeOK'
  <2>1. /\ running' \in BOOLEAN /\ started' \in BOOLEAN
        /\ token' \in {"none", "created", "looping", "returned"}
    BY DEF IInv, TypeOK, Worker, WorkerStart, WorkerStop, ConsoleHandler,
       objects, tokens, vars
  <2>2. death' = "no" <=> mpc' # "dead"
    BY DEF IInv, TypeOK, Worker, WorkerStart, WorkerStop, ConsoleHandler, Die,
       vars
  <2> QED BY ZenonT(30), <1>1, <2>1, <2>2 DEF IInv, TypeOK
<1> QED BY <1>1, <1>2, <1>3, BesideMain

LEMMA TaskStep ==
  ASSUME IInv, NEW t \in Task,
         Post(t) \/ Begin(t) \/ Handle(t) \/ Finish(t)
  PROVE  IInv'
<1>1. /\ UNCHANGED <<code, running, io, ptr, db, writer>> /\ Alive
      /\ mpc' \in {mpc, "dead"}
      /\ death' \in {death, "null g_db", "dangling g_db"}
  BY DEF Post, Begin, Handle, LoadDb, UseDb, DrawToken, Finish, Die, objects,
     tokens
<1>2. \/ task' = task
      \/ /\ task[t] = "none" /\ io \in {"running", "stopping"}
         /\ task' = [task EXCEPT ![t] = "queued"]
      \/ /\ task[t] = "queued"
         /\ task' = [task EXCEPT ![t] = "running"]
      \/ /\ Active(t)
         /\ \E s \in {"running", "holding", "done"} :
              task' = [task EXCEPT ![t] = s]
  BY DEF Post, Begin, Handle, LoadDb, UseDb, DrawToken, Finish, Active
<1>3. task \in [Task -> {"none", "queued", "running", "holding", "done",
                         "discarded", "destroyed"}]
  BY DEF IInv, TypeOK
<1>4. io \in {"running", "stopping"} =>
        mpc \notin {"joinpool", "resetpool", "stoplog", "unwind"} \cup Exiting
  BY DEF IInv, IoInv, Stopping, Exiting
<1>5. TaskInv'
  BY <1>1, <1>2, <1>3, <1>4 DEF IInv, TaskInv, Active, InPool, Exiting
<1>6. TypeOK'
  <2>1. task' \in [Task -> {"none", "queued", "running", "holding", "done",
                            "discarded", "destroyed"}]
    BY <1>2, <1>3
  <2>2. /\ started' \in BOOLEAN
        /\ token' \in {"none", "created", "looping", "returned"}
    BY DEF IInv, TypeOK, Post, Begin, Handle, LoadDb, UseDb, DrawToken, Finish,
       tokens
  <2>3. death' = "no" <=> mpc' # "dead"
    BY DEF IInv, TypeOK, Post, Begin, Handle, LoadDb, UseDb, DrawToken, Finish,
       Die
  <2> QED BY ZenonT(30), <1>1, <2>1, <2>2, <2>3 DEF IInv, TypeOK
<1> QED BY <1>1, <1>5, <1>6, BesideMain

LEMMA Invariance == Spec => []IInv
<1>1. IInv /\ [Next]_vars => IInv'
  BY StartStep, StopStep, PoolStep, EndStep, WorkerStep, TaskStep DEF Next, Main
<1> QED BY <1>1, InitIInv, PTL DEF Spec

-----------------------------------------------------------------------------
\* The type invariant.
THEOREM TypeCorrect == Spec => []TypeOK
<1>1. IInv => TypeOK
  BY DEF IInv
<1> QED BY <1>1, Invariance, PTL

(* What main and the static destructors destroy is no longer used by a     *)
(* request, however many there are (main.cpp:744-758, othertool.cpp:325).  *)
THEOREM DestroyedAfterUseCorrect == Spec => []DestroyedAfterUse
<1>1. IInv => DestroyedAfterUse
  BY DEF IInv, TaskInv, Exiting, DestroyedAfterUse
<1> QED BY <1>1, Invariance, PTL

(* Only a start that fails ends with the thread of the log unjoined.       *)
THEOREM AbortsOnlyEarlyCorrect == Spec => []AbortsOnlyEarly
<1>1. IInv => AbortsOnlyEarly
  BY DEF IInv, ExitInv, AbortsOnlyEarly
<1> QED BY <1>1, Invariance, PTL

(* A request meets a missing g_db only between g_db.reset() and the join   *)
(* of the business pool, when no io thread is left (main.cpp:750-755).     *)
THEOREM DiesInWindowCorrect == Spec => DiesInWindow
<1>1. IInv /\ [Next]_vars =>
        [death' \in {"null g_db", "dangling g_db"} /\ Alive =>
           mpc \in {"freedb", "stoppool", "joinpool"} /\ io = "joined"]_vars
  <2> SUFFICES ASSUME IInv, [Next]_vars, Alive,
                      death' \in {"null g_db", "dangling g_db"}
               PROVE  mpc \in {"freedb", "stoppool", "joinpool"}
                      /\ io = "joined"
    OBVIOUS
  <2>1. death = "no"
    BY DEF IInv, TypeOK, Alive
  <2>2. PICK t \in Task : LoadDb(t) \/ UseDb(t)
    <3>1. ~Main
      BY <2>1 DEF Main, Configure, Connect, ExitFailed, Listen, StopIo, JoinIo,
         ResetPointer, FreeDb, StopPool, JoinPool, ResetPool, LogStop, Unwind,
         DestroyTokenPool, JoinToken, DestroyStatics, Die
    <3>2. ~(Worker \/ ConsoleHandler \/ UNCHANGED vars)
      BY <2>1 DEF Worker, WorkerStart, WorkerStop, ConsoleHandler, Die, vars
    <3>3. \A t \in Task : ~(Post(t) \/ Begin(t) \/ DrawToken(t) \/ Finish(t))
      BY <2>1 DEF Post, Begin, DrawToken, Finish
    <3> QED BY <3>1, <3>2, <3>3 DEF Next, Handle
  <2>3. Active(t)
    BY <2>2 DEF Active, LoadDb, UseDb
  <2>4. io # "none" /\ mpc \notin {"resetpool", "stoplog", "unwind"} \cup Exiting
    BY <2>3 DEF IInv, TaskInv, Active
  <2>5. mpc \notin {"listen", "serving", "joinio", "resetdb"}
    <3>1. death' # death
      BY <2>1
    <3>2. ~ptr \/ db = "gone"
      BY <2>2, <3>1 DEF LoadDb, UseDb
    <3> QED BY <3>2 DEF IInv, DbInv
  <2> QED BY <2>4, <2>5 DEF IInv, TypeOK, IoInv, Starting, Stopping, Exiting,
             Alive
<1> QED BY <1>1, Invariance, PTL DEF Spec, DiesInWindow

-----------------------------------------------------------------------------
(* The codes of the operations.                                            *)

\* Each operation has an arm for each of its codes, but for 6 and 10.
LEMMA EveryArm ==
  ASSUME NEW op \in 1..11, NEW ret \in Codes(op), ret > 0
  PROVE  \/ ret \in Bad[op] \cup Denied[op] \cup Failed[op]
         \/ op \in {6, 10} /\ ret = 5
<1>1. CASE op \in Credentials /\ <<>> \in {Param("username"), Param("password")}
  BY <1>1 DEF Codes, Credentials, Bad
<1>2. CASE op \in TokenOps /\ Param("token") = <<>> /\ op \notin Credentials
  BY <1>2 DEF Codes, TokenOps, Credentials, Bad
<1>3. CASE ret \in Returned[op]
  <2>1. CASE op \in 1..4
    BY <1>3, <2>1 DEF Returned, Bad, Denied, Failed
  <2>2. CASE op \in 5..8
    BY <1>3, <2>2 DEF Returned, Bad, Denied, Failed
  <2>3. CASE op \in 9..11
    BY <1>3, <2>3 DEF Returned, Bad, Denied, Failed
  <2> QED BY <2>1, <2>2, <2>3
<1>4. CASE op = 3 /\ ret \in {3, 4}
  BY <1>4 DEF Bad
<1> QED BY <1>1, <1>2, <1>3, <1>4 DEF Codes, Credentials, TokenOps

\* What Respond may answer: a page, a code of the operation or a failure.
Replies(op) ==
  \/ op \notin 1..11 /\ answer' = [op |-> op, ret |-> 0, code |-> 200]
  \/ op \in 1..11 /\ \E ret \in Codes(op) :
       answer' = [op |-> op, ret |-> ret, code |-> AnswerCode(op, ret)]
  \/ op \in 1..11 /\ answer' = [op |-> op, ret |-> -1, code |-> 500]

\* Respond answers with what the routed operation may return (main.cpp:208-529).
LEMMA RespondReplies ==
  ASSUME Respond
  PROVE  Replies(Route(req.method, Path(url)))
<1> DEFINE op == Route(req.method, Path(url))
<1>1. \/ op \notin 1..11 /\ answer' = [op |-> op, ret |-> 0, code |-> 200]
      \/ op \in 1..11 /\ \E ret \in Codes(op) :
           answer' = [op |-> op, ret |-> ret, code |-> AnswerCode(op, ret)]
      \/ op \in 1..11 /\ answer' = [op |-> op, ret |-> -1, code |-> 500]
  <2> HIDE DEF op
  <2> QED BY ZenonT(40) DEF Respond, op
<1> QED BY <1>1 DEF Replies

\* Only Respond makes an answer, and ResetParser forgets it.
LEMMA CodesStep ==
  ASSUME NoUnexpectedCode, [RequestNext]_requestVars
  PROVE  NoUnexpectedCode'
<1>1. CASE UNCHANGED answer
  BY <1>1 DEF NoUnexpectedCode
<1>2. CASE Respond
  <2>1. PICK op : Replies(op)
    BY <1>2, RespondReplies
  <2> QED BY <2>1, EveryArm DEF NoUnexpectedCode, Replies
<1>3. CASE ResetParser
  BY <1>3 DEF ResetParser, NoAnswer, NoUnexpectedCode
<1> QED BY <1>1, <1>2, <1>3
  DEF RequestNext, requestVars, Send, Read, Registered

(* build_response has an arm for every code an operation returns, but for  *)
(* the 5 of get_token and web/get_token (main.cpp:406,496).                *)
THEOREM CodesCorrect == RequestSpec => []NoUnexpectedCode
<1>1. RequestInit => NoUnexpectedCode
  BY DEF RequestInit, NoUnexpectedCode, NoAnswer
<1> QED BY <1>1, CodesStep, PTL DEF RequestSpec

-----------------------------------------------------------------------------
(* The pages of users.                                                     *)

\* A user has a rank: finitely many numbers are below its id.
LEMMA BeforeFinite ==
  ASSUME NEW A \in SUBSET Nat, NEW u \in Nat
  PROVE  IsFiniteSet({v \in A : v < u}) /\ Before(A, u) \in Nat
<1>1. IsFiniteSet(0..u)
  BY FS_Interval
<1>2. ASSUME NEW v \in A, v < u PROVE v \in 0..u
  <2>1. v \in Nat
    OBVIOUS
  <2> QED BY <2>1, <1>2
<1>3. {v \in A : v < u} \subseteq 0..u
  BY <1>2
<1>4. IsFiniteSet({v \in A : v < u})
  BY <1>1, <1>3, FS_Subset
<1> QED BY <1>4, FS_CardinalityType DEF Before

\* The rank of a user grows with its id and with the table.
LEMMA BeforeMonotonic ==
  ASSUME NEW A \in SUBSET Nat, NEW B \in SUBSET Nat, A \subseteq B,
         NEW u \in Nat, NEW v \in Nat, u <= v
  PROVE  Before(A, u) <= Before(B, v)
<1>1. ASSUME NEW w \in A, w < u PROVE w \in B /\ w < v
  <2>1. w \in Nat
    OBVIOUS
  <2> QED BY <2>1, <1>1
<1>2. {w \in A : w < u} \subseteq {w \in B : w < v}
  BY <1>1
<1> QED BY <1>2, BeforeFinite, FS_Subset DEF Before

\* The offset of a page whose offset fits is not changed by the wrap.
LEMMA ExactOffset ==
  ASSUME NEW page \in Int, page >= 1, Exact(page)
  PROVE  Offset(page) = (page - 1) * Limit
<1>1. FirstPage(page) = page
  BY DEF FirstPage
<1> DEFINE n == (page - 1) * Limit
<1>2. n \in Nat /\ n <= IntMax
  <2>1. Limit \in Nat /\ page - 1 \in Nat
    BY UserListAssumption
  <2>2. n \in Nat
    BY <2>1
  <2> QED BY <1>1, <2>2 DEF Exact
<1>3. Offset(page) = Int32(n)
  BY <1>1 DEF Offset
<1> HIDE DEF n
<1>4. n + IntMax + 1 \in 0..(2 * (IntMax + 1) - 1)
  BY <1>2, UserListAssumption
<1>5. \A m \in Nat : \A k \in 0..(m - 1) : k % m = k
  OBVIOUS
<1>6. (n + IntMax + 1) % (2 * (IntMax + 1)) = n + IntMax + 1
  <2>1. 2 * (IntMax + 1) \in Nat
    BY UserListAssumption
  <2> QED BY <2>1, <1>4, <1>5
<1>7. Int32(n) = n
  BY <1>2, <1>6, UserListAssumption DEF Int32
<1> QED BY <1>3, <1>7 DEF n

\* The next page begins Limit rows later (ad_userlist.cpp:19).
LEMMA NextOffset ==
  ASSUME NEW page \in Int, page >= 1, Exact(page + 1)
  PROVE  /\ Offset(page) \in Nat
         /\ Offset(page + 1) = Offset(page) + Limit
<1>1. (page + 1 - 1) * Limit = (page - 1) * Limit + Limit
  BY UserListAssumption
<1>2. (page - 1) * Limit \in Nat
  <2>1. page - 1 \in Nat /\ Limit \in Nat
    BY UserListAssumption
  <2> QED BY <2>1
<1>3. Exact(page)
  BY <1>1, <1>2, UserListAssumption DEF Exact, FirstPage
<1> QED BY <1>1, <1>2, <1>3, ExactOffset

\* A page holds the Limit users from its offset on (sqlsave.cpp, ORDER BY id).
LEMMA InRows ==
  ASSUME NEW A \in SUBSET Nat, NEW page, Offset(page) \in Nat, NEW u \in A
  PROVE  u \in Rows(A, page) <=>
           Offset(page) <= Before(A, u) /\ Before(A, u) < Offset(page) + Limit
<1> DEFINE o == Offset(page)
           b == Before(A, u)
<1>1. o \in Nat /\ b \in Nat /\ Limit \in Nat
  BY BeforeFinite, UserListAssumption
<1>2. u \in Rows(A, page) <=> 0 <= b - o /\ b - o < Limit
  BY Zenon DEF Rows
<1> HIDE DEF o, b
<1>3. 0 <= b - o /\ b - o < Limit <=> o <= b /\ b < o + Limit
  BY <1>1
<1> QED BY <1>2, <1>3 DEF o, b

\* Two consecutive pages, read one after the other.
LEMMA Join ==
  ASSUME NEW A \in SUBSET Nat, NEW B \in SUBSET Nat, A \subseteq B,
         NEW page \in Int, page >= 1, Exact(page + 1)
  PROVE  /\ Rows(A, page) \cap Rows(B, page + 1) # {} =>
              \E u \in B \ A, v \in Rows(A, page) : u < v
         /\ \A u \in A :
              (\E v \in Rows(A, page) : v < u) /\ u \notin Rows(A, page)
                => u \in Rows(B, page + 1) \/ \A v \in Rows(B, page + 1) : v < u
<1> DEFINE o == Offset(page)
<1>1. o \in Nat /\ Offset(page + 1) = o + Limit /\ Limit \in Nat
  BY NextOffset, UserListAssumption
<1>2. /\ Rows(A, page) \subseteq A /\ Rows(B, page + 1) \subseteq B
      /\ Offset(page) \in Nat /\ Offset(page + 1) \in Nat
  BY <1>1 DEF Rows, o
<1>3. \A u \in Rows(A, page) : u \in A /\ o <= Before(A, u) /\ Before(A, u) < o + Limit
  BY <1>2, InRows DEF o
<1>4. \A u \in A : o <= Before(A, u) /\ Before(A, u) < o + Limit => u \in Rows(A, page)
  BY <1>2, InRows DEF o
<1>5. \A u \in Rows(B, page + 1) :
        u \in B /\ o + Limit <= Before(B, u) /\ Before(B, u) < o + Limit + Limit
  BY <1>2, <1>1, InRows
<1>6. \A u \in B : o + Limit <= Before(B, u) /\ Before(B, u) < o + Limit + Limit
                     => u \in Rows(B, page + 1)
  BY <1>2, <1>1, InRows
<1> HIDE DEF o
<1>7. ASSUME NEW w \in Rows(A, page), w \in Rows(B, page + 1)
      PROVE  \E u \in B \ A : u < w
  <2>1. w \in Nat /\ w \in A /\ w \in B
    BY <1>3, <1>5, <1>7
  <2>2. Before(A, w) \in Nat /\ Before(B, w) \in Nat
    BY <2>1, BeforeFinite
  <2>3. Before(A, w) < o + Limit /\ o + Limit <= Before(B, w)
    BY <1>3, <1>5, <1>7
  <2>4. Before(A, w) # Before(B, w)
    BY <1>1, <2>2, <2>3
  <2>5. {v \in A : v < w} # {v \in B : v < w}
    BY <2>4 DEF Before
  <2> QED BY <2>5
<1>8. ASSUME NEW u \in A, NEW v \in Rows(A, page), v < u, u \notin Rows(A, page),
             NEW w \in Rows(B, page + 1), ~(w < u)
      PROVE  u \in Rows(B, page + 1)
  <2>1. u \in Nat /\ v \in Nat /\ w \in Nat /\ u \in B /\ w \in B /\ v \in A
    BY <1>3, <1>5, <1>8
  <2>2. Before(A, v) <= Before(A, u) /\ Before(A, u) <= Before(B, u)
        /\ Before(B, u) <= Before(B, w)
    BY <2>1, <1>8, BeforeMonotonic
  <2>3. /\ Before(A, v) \in Nat /\ Before(A, u) \in Nat
        /\ Before(B, u) \in Nat /\ Before(B, w) \in Nat
    BY <2>1, BeforeFinite
  <2>4. o + Limit <= Before(A, u)
    BY <1>1, <1>3, <1>4, <1>8, <2>2, <2>3
  <2> QED BY <1>1, <1>5, <1>6, <2>1, <2>2, <2>3, <2>4
<1> QED BY <1>7, <1>8

\* The pages a client was given: each was cut from the table of its time,
\* and the table only grew.
Listing == [page : Int, rows : SUBSET User, table : SUBSET User]

ListsInv ==
  /\ table \in SUBSET User
  /\ lists \in Seq(Listing)
  /\ \A i \in DOMAIN lists :
       /\ lists[i].rows = Rows(lists[i].table, lists[i].page)
       /\ lists[i].table \subseteq table
       /\ \A j \in DOMAIN lists : i < j => lists[i].table \subseteq lists[j].table

\* The page asked for is a number: what stoi refuses is page 1.
LEMMA PageInt == Page \in Int
<1>1. \A n \in DOMAIN Numbers : Numbers[n] \in Int
  BY DEF Numbers
<1> QED BY <1>1 DEF Page

\* A page is cut from the table of its time, and a table only grows after it.
LEMMA ListsStep ==
  ASSUME ListsInv, [RequestNext]_requestVars
  PROVE  ListsInv'
<1>1. CASE UNCHANGED <<table, lists>>
  BY <1>1 DEF ListsInv
<1>2. CASE table' = table /\ lists' = Append(lists, Listed)
  <2>1. Listed \in Listing
    BY PageInt DEF Listed, Listing, Rows, ListsInv
  <2>2. lists' \in Seq(Listing) /\ Len(lists') = Len(lists) + 1
        /\ (\A i \in 1..Len(lists) : lists'[i] = lists[i])
        /\ lists'[Len(lists) + 1] = Listed
    BY <1>2, <2>1 DEF ListsInv
  <2>3. Listed.rows = Rows(Listed.table, Listed.page) /\ Listed.table = table
    BY DEF Listed
  <2>4. \A i \in DOMAIN lists' : i \in DOMAIN lists \/ i = Len(lists) + 1
    BY <2>2 DEF ListsInv
  <2>5. DOMAIN lists = 1..Len(lists) /\ Len(lists) \in Nat
    BY DEF ListsInv
  <2> HIDE DEF Listed
  <2>6. ASSUME NEW i \in DOMAIN lists'
        PROVE  lists'[i].rows = Rows(lists'[i].table, lists'[i].page)
               /\ lists'[i].table \subseteq table
    BY <2>2, <2>3, <2>4, <2>5 DEF ListsInv
  <2>7. ASSUME NEW i \in DOMAIN lists', NEW j \in DOMAIN lists', i < j
        PROVE  lists'[i].table \subseteq lists'[j].table
    <3>1. i \in DOMAIN lists
      BY <2>4, <2>5, <2>7
    <3> QED BY <3>1, <2>2, <2>3, <2>4, <2>5, <2>7 DEF ListsInv
  <2> QED BY <1>2, <2>2, <2>6, <2>7 DEF ListsInv
<1>3. CASE Registered
  BY <1>3 DEF Registered, ListsInv
<1>4. CASE Respond
  <2>1. table' = table /\ (UNCHANGED lists \/ lists' = Append(lists, Listed))
    BY <1>4, Zenon DEF Respond
  <2> QED BY <2>1, <1>1, <1>2
<1> QED BY <1>1, <1>3, <1>4
  DEF RequestNext, requestVars, Send, Read, ResetParser

\* So any two consecutive pages in the list join as Join says.
LEMMA ListsJoin ==
  ASSUME ListsInv
  PROVE  PagesJoin
<1> SUFFICES ASSUME NEW i \in DOMAIN lists, NEW j \in DOMAIN lists, i < j,
                    lists[i].page >= 1, lists[j].page = lists[i].page + 1,
                    Exact(lists[j].page)
             PROVE  /\ lists[i].rows \cap lists[j].rows # {} =>
                         \E u \in lists[j].table \ lists[i].table, v \in lists[i].rows :
                            u < v
                    /\ \A u \in lists[i].table :
                         (\E v \in lists[i].rows : v < u) /\ u \notin lists[i].rows
                           => u \in lists[j].rows \/ \A v \in lists[j].rows : v < u
  BY Zenon DEF PagesJoin
<1>1. lists[i] \in Listing /\ lists[j] \in Listing
  BY DEF ListsInv
<1>2. /\ lists[i].table \in SUBSET Nat /\ lists[j].table \in SUBSET Nat
      /\ lists[i].table \subseteq lists[j].table
      /\ lists[i].page \in Int
      /\ lists[i].rows = Rows(lists[i].table, lists[i].page)
      /\ lists[j].rows = Rows(lists[j].table, lists[i].page + 1)
      /\ Exact(lists[i].page + 1)
  BY <1>1, RequestAssumption DEF ListsInv, Listing
<1> QED BY SMTT(20), <1>2, Join

(* Reading on from page to page misses no user, and repeats one only when  *)
(* a smaller id was committed in between (ad_userlist.cpp:19).             *)
THEOREM PagesCorrect == RequestSpec => []PagesJoin
<1>1. RequestInit => ListsInv
  BY DEF RequestInit, ListsInv
<1>2. ListsInv => PagesJoin
  BY ListsJoin
<1> QED BY <1>1, <1>2, ListsStep, PTL DEF RequestSpec

-----------------------------------------------------------------------------
(* Induction, for a set.  The numbers are well founded: what holds of m    *)
(* and of the successor of what it holds of, holds up to n.                *)
LEMMA Least ==
  ASSUME NEW T, T \subseteq Nat, T # {}
  PROVE  \E x \in T : \A y \in T : x <= y
<1>1. PICK x \in T : \A y \in T : ~(<<y, x>> \in OpToRel(<, Nat))
  BY NatLessThanWellFounded, WFMin
<1>2. ASSUME NEW a \in Nat, NEW b \in Nat, a < b
      PROVE  <<a, b>> \in OpToRel(<, Nat)
  BY <1>2, SMT DEF OpToRel
<1>3. \A y \in T : ~(y < x)
  BY <1>1, <1>2, Zenon
<1> QED BY <1>3

\* The step is taken inside a set G: no operator is a parameter.
LEMMA Induction ==
  ASSUME NEW m \in Nat, NEW n \in Nat, NEW G, m \in G,
         \A k \in m..n : k \in G /\ k < n => k + 1 \in G
  PROVE  m..n \subseteq G
<1> DEFINE T == {k \in m..n : k \notin G}
<1> SUFFICES ASSUME T # {} PROVE FALSE
  OBVIOUS
<1>1. T \subseteq Nat
  OBVIOUS
<1>2. PICK x \in T : \A y \in T : x <= y
  <2> HIDE DEF T
  <2> QED BY <1>1, Least
<1>3. x \in Nat /\ m < x /\ x <= n /\ x \notin G
  <2>1. x \in m..n /\ x # m
    OBVIOUS
  <2> QED BY <2>1
<1>4. x - 1 \in m..n /\ ~(x <= x - 1)
  BY <1>3
<1>5. x - 1 \in G /\ x - 1 < n /\ x - 1 + 1 = x
  BY <1>2, <1>3, <1>4
<1> QED BY <1>3, <1>4, <1>5

-----------------------------------------------------------------------------
(* FlattenSeq: the sequences one after the other.                          *)

\* The concatenations of the first sequences, as FlattenSeq has them.
Gathered(seqs) ==
  CHOOSE f : f = [i \in 1..Len(seqs) |->
                    IF i = 1 THEN seqs[i] ELSE f[i - 1] \o seqs[i]]

\* FlattenSeq returns the last of them.
LEMMA FlattenGathered ==
  ASSUME NEW seqs, Len(seqs) # 0
  PROVE  FlattenSeq(seqs) = Gathered(seqs)[Len(seqs)]
BY DEF FlattenSeq, Gathered

\* Concatenation, under a name the provers do not expand.
Cat(s, t) == s \o t

\* Each is the one before it and one sequence more.
LEMMA GatheredStep ==
  ASSUME NEW X, NEW seqs \in Seq(Seq(X)), Len(seqs) # 0
  PROVE  /\ Gathered(seqs)[1] = seqs[1]
         /\ \A i \in 1..(Len(seqs) - 1) :
              Gathered(seqs)[i + 1] = Gathered(seqs)[i] \o seqs[i + 1]
<1> DEFINE n == Len(seqs)
           Eq(f, k) == f = [i \in 1..k |-> IF i = 1 THEN seqs[i] ELSE Cat(f[i - 1], seqs[i])]
           G == {k \in 1..n : \E f : Eq(f, k)}
<1>1. n \in Nat /\ n >= 1
  OBVIOUS
<1>2. 1 \in G
  <2>1. Eq([i \in 1..1 |-> seqs[i]], 1)
    OBVIOUS
  <2> HIDE DEF Eq
  <2> QED BY <1>1, <2>1
<1>3. ASSUME NEW k \in 1..n, k \in G, k < n
      PROVE  k + 1 \in G
  <2>1. PICK f : Eq(f, k)
    BY <1>3
  <2> DEFINE g == [i \in 1..(k + 1) |-> IF i <= k THEN f[i] ELSE Cat(f[k], seqs[i])]
  <2>2. Eq(g, k + 1)
    <3>1. ASSUME NEW i \in 1..(k + 1)
          PROVE  g[i] = IF i = 1 THEN seqs[i] ELSE Cat(g[i - 1], seqs[i])
      <4>1. CASE i = k + 1
        <5>1. k \in 1..(k + 1) /\ k <= k /\ i # 1 /\ i - 1 = k /\ ~(i <= k)
          BY <4>1
        <5>2. g[i] = Cat(f[k], seqs[i]) /\ g[k] = f[k]
          BY <5>1
        <5> QED BY <5>1, <5>2
      <4>2. CASE i # k + 1 /\ i # 1
        <5>1. i \in 1..k /\ i - 1 \in 1..k
          BY <4>2
        <5>2. g[i] = f[i] /\ g[i - 1] = f[i - 1]
          BY <5>1
        <5>3. f[i] = Cat(f[i - 1], seqs[i])
          BY <2>1, <4>2, <5>1
        <5> QED BY <4>2, <5>2, <5>3
      <4>3. CASE i = 1
        BY <2>1, <4>3
      <4> QED BY <4>1, <4>2, <4>3
    <3>2. g = [i \in 1..(k + 1) |-> g[i]]
      OBVIOUS
    <3> QED BY <3>1, <3>2, Zenon
  <2> HIDE DEF Eq, g
  <2> QED BY <1>1, <1>3, <2>2
<1> HIDE DEF n, G, Eq
<1>4. 1..n \subseteq G
  BY <1>1, <1>2, <1>3, Induction
<1>5. \E f : Eq(f, n)
  BY <1>1, <1>4 DEF G
<1>6. Eq(CHOOSE f : Eq(f, n), n)
  BY <1>5, Zenon
<1>7. Eq(Gathered(seqs), n)
  BY <1>6 DEF Gathered, n, Eq, Cat
<1>8. ASSUME NEW f, Eq(f, n)
      PROVE  f[1] = seqs[1] /\ \A i \in 1..(n - 1) : f[i + 1] = Cat(f[i], seqs[i + 1])
  <2> DEFINE g == [j \in 1..n |-> IF j = 1 THEN seqs[j] ELSE Cat(f[j - 1], seqs[j])]
  <2>1. f = g
    BY <1>8, Zenon DEF Eq
  <2>2. g[1] = seqs[1]
    BY <1>1
  <2>3. ASSUME NEW i \in 1..(n - 1) PROVE g[i + 1] = Cat(f[i], seqs[i + 1])
    <3>1. i + 1 \in 1..n /\ i + 1 # 1 /\ i + 1 - 1 = i
      BY <1>1
    <3> QED BY <3>1
  <2> HIDE DEF g
  <2> QED BY <2>1, <2>2, <2>3
<1> QED BY <1>7, <1>8 DEF n, Cat

\* What comes before the i-th sequence.
Skip(seqs, i) == IF i = 1 THEN 0 ELSE Len(Gathered(seqs)[i - 1])

\* A sequence s is the first k sequences one after the other.
LaidOut(seqs, k, s) ==
  /\ \A i \in 1..k : \A j \in 1..Len(seqs[i]) :
       Skip(seqs, i) + j \in 1..Len(s) /\ s[Skip(seqs, i) + j] = seqs[i][j]
  /\ \A p \in 1..Len(s) : \E i \in 1..k : \E j \in 1..Len(seqs[i]) :
       p = Skip(seqs, i) + j

\* Each of them has its sequences laid out one after the other.
LEMMA GatheredLaidOut ==
  ASSUME NEW X, NEW seqs \in Seq(Seq(X)), Len(seqs) # 0, NEW k \in 1..Len(seqs)
  PROVE  Gathered(seqs)[k] \in Seq(X) /\ LaidOut(seqs, k, Gathered(seqs)[k])
<1> DEFINE n == Len(seqs)
           f == Gathered(seqs)
           G == {i \in 1..n : f[i] \in Seq(X) /\ LaidOut(seqs, i, f[i])}
<1>1. n \in Nat /\ n >= 1 /\ \A i \in 1..n : seqs[i] \in Seq(X)
  OBVIOUS
<1>2. f[1] = seqs[1] /\ \A i \in 1..(n - 1) : f[i + 1] = f[i] \o seqs[i + 1]
  BY GatheredStep
<1> HIDE DEF f
<1>3. 1 \in G
  <2>1. 1 \in 1..n /\ f[1] = seqs[1] /\ seqs[1] \in Seq(X)
    BY <1>1, <1>2
  <2>2. LaidOut(seqs, 1, f[1])
    <3>1. Skip(seqs, 1) = 0
      BY DEF Skip
    <3>2. Len(seqs[1]) \in Nat
      BY <2>1
    <3> QED BY <2>1, <3>1, <3>2 DEF LaidOut
  <2> QED BY <2>1, <2>2
<1>4. ASSUME NEW i \in 1..n, i \in G, i < n
      PROVE  i + 1 \in G
  <2> DEFINE s == f[i]
             t == seqs[i + 1]
  <2>1. /\ i + 1 \in 1..n /\ f[i + 1] = s \o t /\ t \in Seq(X)
        /\ s \in Seq(X) /\ LaidOut(seqs, i, s)
    <3>1. i + 1 \in 1..n /\ i \in 1..(n - 1)
      BY <1>1, <1>4
    <3>2. f[i + 1] = f[i] \o seqs[i + 1]
      BY <3>1, <1>2
    <3>3. seqs[i + 1] \in Seq(X) /\ f[i] \in Seq(X) /\ LaidOut(seqs, i, f[i])
      BY <3>1, <1>1, <1>4
    <3> QED BY ONLY <3>1, <3>2, <3>3
  <2>2. Skip(seqs, i + 1) = Len(s)
    <3>1. i + 1 # 1 /\ i + 1 - 1 = i
      BY <1>1
    <3> QED BY <3>1 DEF Skip, f
  <2> HIDE DEF s, t
  <2>3. /\ s \o t \in Seq(X) /\ Len(s \o t) = Len(s) + Len(t)
        /\ Len(s) \in Nat /\ Len(t) \in Nat
        /\ \A j \in 1..Len(s) : (s \o t)[j] = s[j]
        /\ \A j \in 1..Len(t) : (s \o t)[Len(s) + j] = t[j]
    BY <2>1
  <2>4. ASSUME NEW h \in 1..(i + 1), NEW j \in 1..Len(seqs[h])
        PROVE  Skip(seqs, h) + j \in 1..Len(s \o t)
               /\ (s \o t)[Skip(seqs, h) + j] = seqs[h][j]
    <3>1. CASE h = i + 1
      <4>1. seqs[h] = t /\ Skip(seqs, h) = Len(s)
        BY <2>2, <3>1 DEF t
      <4>2. j \in 1..Len(t)
        BY <4>1
      <4>3. Len(s) + j \in 1..Len(s \o t)
        BY <2>3, <4>2
      <4> QED BY <2>3, <4>1, <4>2, <4>3
    <3>2. CASE h # i + 1
      <4>1. h \in 1..i
        BY <1>1, <3>2
      <4>2. Skip(seqs, h) + j \in 1..Len(s) /\ s[Skip(seqs, h) + j] = seqs[h][j]
        BY <2>1, <4>1 DEF LaidOut
      <4> QED BY <2>3, <4>2
    <3> QED BY <3>1, <3>2
  <2>5. ASSUME NEW p \in 1..Len(s \o t)
        PROVE  \E h \in 1..(i + 1) : \E j \in 1..Len(seqs[h]) : p = Skip(seqs, h) + j
    <3>1. CASE p \in 1..Len(s)
      <4>1. PICK h \in 1..i : \E j \in 1..Len(seqs[h]) : p = Skip(seqs, h) + j
        BY <2>1, <3>1 DEF LaidOut
      <4>2. h \in 1..(i + 1)
        BY <1>1
      <4> QED BY <4>1, <4>2
    <3>2. CASE p \notin 1..Len(s)
      <4>1. p - Len(s) \in 1..Len(t) /\ p = Len(s) + (p - Len(s))
        BY <2>3, <3>2
      <4>2. i + 1 \in 1..(i + 1)
        BY <1>1
      <4> QED BY <2>2, <4>1, <4>2 DEF t
    <3> QED BY <3>1, <3>2
  <2>6. LaidOut(seqs, i + 1, s \o t)
    BY <2>4, <2>5 DEF LaidOut
  <2> QED BY <2>1, <2>3, <2>6
<1>5. 1..n \subseteq G
  <2> HIDE DEF n, G
  <2> QED BY <1>1, <1>3, <1>4, Induction
<1> QED BY <1>5 DEF f

\* The equation of Skip, and what FlattenSeq returns.
LEMMA FlattenLayout ==
  ASSUME NEW X, NEW seqs \in Seq(Seq(X)), Len(seqs) # 0
  PROVE  /\ FlattenSeq(seqs) \in Seq(X)
         /\ LaidOut(seqs, Len(seqs), FlattenSeq(seqs))
         /\ Skip(seqs, 1) = 0
         /\ Len(FlattenSeq(seqs)) = Skip(seqs, Len(seqs) + 1)
         /\ \A i \in 1..Len(seqs) : /\ Skip(seqs, i) \in Nat
                                    /\ Skip(seqs, i + 1) = Skip(seqs, i) + Len(seqs[i])
<1> DEFINE n == Len(seqs)
           f == Gathered(seqs)
<1>1. n \in Nat /\ n >= 1 /\ \A i \in 1..n : seqs[i] \in Seq(X)
  OBVIOUS
<1>2. FlattenSeq(seqs) = f[n]
  BY FlattenGathered
<1>3. \A i \in 1..n : f[i] \in Seq(X) /\ LaidOut(seqs, i, f[i])
  BY GatheredLaidOut
<1>4. f[1] = seqs[1] /\ \A i \in 1..(n - 1) : f[i + 1] = f[i] \o seqs[i + 1]
  BY GatheredStep
<1> HIDE DEF f
<1>5. \A i \in 1..n : Skip(seqs, i + 1) = Len(f[i])
  <2>1. \A i \in 1..n : i + 1 # 1 /\ i + 1 - 1 = i
    BY <1>1
  <2> QED BY <2>1 DEF Skip, f
<1>6. Skip(seqs, 1) = 0
  BY DEF Skip
<1>7. ASSUME NEW i \in 1..n
      PROVE  Skip(seqs, i) \in Nat /\ Skip(seqs, i + 1) = Skip(seqs, i) + Len(seqs[i])
  <2>1. CASE i = 1
    BY <1>1, <1>4, <1>5, <1>6, <2>1
  <2>2. CASE i # 1
    <3>1. i - 1 \in 1..n /\ i - 1 \in 1..(n - 1) /\ i - 1 + 1 = i
      BY <1>1, <2>2
    <3>2. f[i] = f[i - 1] \o seqs[i] /\ f[i - 1] \in Seq(X) /\ seqs[i] \in Seq(X)
      BY <1>1, <1>3, <1>4, <3>1
    <3>3. Skip(seqs, i) = Len(f[i - 1]) /\ Skip(seqs, i + 1) = Len(f[i])
      BY <1>5, <3>1
    <3>4. Len(f[i - 1]) \in Nat
          /\ Len(f[i - 1] \o seqs[i]) = Len(f[i - 1]) + Len(seqs[i])
      BY ONLY <3>2
    <3> QED BY ONLY <3>2, <3>3, <3>4
  <2> QED BY <2>1, <2>2
<1>8. n \in 1..n
  BY <1>1
<1> QED BY <1>1, <1>2, <1>3, <1>5, <1>6, <1>7, <1>8

-----------------------------------------------------------------------------
(* The text of a form.                                                     *)

\* What a concatenation holds, and where.
LEMMA Concat ==
  ASSUME NEW X, NEW s \in Seq(X), NEW t \in Seq(X)
  PROVE  /\ s \o t \in Seq(X) /\ Len(s) \in Nat /\ Len(t) \in Nat
         /\ Len(s \o t) = Len(s) + Len(t)
         /\ \A i \in 1..Len(s) : (s \o t)[i] = s[i]
         /\ \A i \in 1..Len(t) : (s \o t)[Len(s) + i] = t[i]
OBVIOUS


-----------------------------------------------------------------------------
(* The text of a form.                                                     *)

\* Escaping keeps the length, leaves no '&' and is undone by url_decode.
LEMMA EscapedLayout ==
  ASSUME NEW v \in Seq(Word)
  PROVE  /\ Escaped(v) \in Seq(Piece \ {"&"}) /\ Len(Escaped(v)) = Len(v)
         /\ Decoded(Escaped(v)) = v
<1>1. v \in [1..Len(v) -> Word] /\ Len(v) \in Nat /\ DOMAIN v = 1..Len(v)
  OBVIOUS
<1>2. ASSUME NEW i \in DOMAIN v
      PROVE  Escaped(v)[i] \in Piece \ {"&"}
  BY <1>1, <1>2, RequestAssumption DEF Escaped, Word, Piece
<1>3. DOMAIN Escaped(v) = 1..Len(v)
  BY <1>1 DEF Escaped
<1>4. Escaped(v) \in [1..Len(v) -> Piece \ {"&"}]
  BY <1>1, <1>2 DEF Escaped
<1>5. Escaped(v) \in Seq(Piece \ {"&"}) /\ Len(Escaped(v)) = Len(v)
  BY <1>1, <1>4
<1>6. ASSUME NEW i \in 1..Len(v)
      PROVE  Decoded(Escaped(v))[i] = v[i]
  <2>1. v[i] \in Word /\ i \in DOMAIN v /\ i \in DOMAIN Escaped(v)
    BY <1>1, <1>3
  <2>2. v[i] # "%26" /\ v[i] # "+"
    BY <2>1, RequestAssumption DEF Word
  <2>3. Escaped(v)[i] = CASE v[i] = "&" -> "%26" [] v[i] = " " -> "+" [] OTHER -> v[i]
    BY <2>1 DEF Escaped
  <2>4. Decoded(Escaped(v))[i] = CASE Escaped(v)[i] = "%26" -> "&"
                                   [] Escaped(v)[i] = "+" -> " "
                                   [] OTHER -> Escaped(v)[i]
    BY <2>1 DEF Decoded
  <2> QED BY ONLY <2>2, <2>3, <2>4
<1>7. DOMAIN Decoded(Escaped(v)) = 1..Len(v)
  BY <1>3 DEF Decoded
<1>8. Decoded(Escaped(v)) = [i \in 1..Len(v) |-> Decoded(Escaped(v))[i]]
  BY <1>3 DEF Decoded
<1>9. v = [i \in 1..Len(v) |-> v[i]]
  BY <1>1
<1> QED BY <1>5, <1>6, <1>8, <1>9

\* A pair is its name, a '=' and the value, or its name.
LEMMA PairLayout ==
  ASSUME NEW p \in Pair
  PROVE  /\ PairText(p) \in Seq(Piece \ {"&"}) /\ PairText(p)[1] = p.name
         /\ p.bare => Len(PairText(p)) = 1
         /\ ~p.bare => /\ Len(PairText(p)) = Len(p.value) + 2
                       /\ PairText(p)[2] = "="
                       /\ \A j \in 1..Len(p.value) :
                            PairText(p)[j + 2] = Escaped(p.value)[j]
<1>1. p.name \in Piece \ {"&"} /\ p.bare \in BOOLEAN /\ p.value \in Seq(Word)
  BY RequestAssumption DEF Pair, Word, Piece
<1>2. CASE p.bare
  BY <1>1, <1>2 DEF PairText
<1>3. CASE ~p.bare
  <2> DEFINE e == Escaped(p.value)
             h == <<p.name, "=">>
  <2>1. e \in Seq(Piece \ {"&"}) /\ Len(e) = Len(p.value) /\ Len(e) \in Nat
    BY <1>1, EscapedLayout
  <2>2. h \in Seq(Piece \ {"&"}) /\ Len(h) = 2 /\ h[1] = p.name /\ h[2] = "="
    <3>1. "=" \in Piece \ {"&"}
      BY DEF Piece, Word
    <3> QED BY <1>1, <3>1
  <2>3. PairText(p) = h \o e
    BY <1>3 DEF PairText
  <2> HIDE DEF e, h
  <2>4. /\ h \o e \in Seq(Piece \ {"&"}) /\ Len(h \o e) = Len(e) + 2
        /\ (h \o e)[1] = p.name /\ (h \o e)[2] = "="
        /\ \A j \in 1..Len(e) : (h \o e)[j + 2] = e[j]
    <3>1. /\ h \o e \in Seq(Piece \ {"&"}) /\ Len(h \o e) = Len(h) + Len(e)
          /\ \A j \in 1..Len(h) : (h \o e)[j] = h[j]
          /\ \A j \in 1..Len(e) : (h \o e)[Len(h) + j] = e[j]
      <4>1. h \in Seq(Piece \ {"&"}) /\ e \in Seq(Piece \ {"&"})
        BY <2>1, <2>2
      <4> QED BY ONLY <4>1, Concat
    <3> QED BY <2>1, <2>2, <3>1
  <2> QED BY <1>3, <2>1, <2>3, <2>4 DEF e
<1> QED BY <1>1, <1>2, <1>3

\* The pairs with the '&' before each but the first.
Segments(ps) ==
  [i \in DOMAIN ps |-> (IF i = 1 THEN <<>> ELSE <<"&">>) \o PairText(ps[i])]

\* How many pieces the '&' takes.
Lead(i) == IF i = 1 THEN 0 ELSE 1

\* A segment is the '&', if it has one, and the text of its pair.
LEMMA SegmentLayout ==
  ASSUME NEW ps \in Seq(Pair), NEW i \in DOMAIN ps
  PROVE  LET s == Segments(ps)[i] t == PairText(ps[i]) IN
         /\ s \in Seq(Piece) /\ Len(s) = Len(t) + Lead(i) /\ Len(t) \in Nat
         /\ i # 1 => s[1] = "&"
         /\ \A j \in 1..Len(t) : s[Lead(i) + j] = t[j]
<1> DEFINE t == PairText(ps[i])
           l == IF i = 1 THEN <<>> ELSE <<"&">>
<1>1. ps[i] \in Pair /\ i \in Nat
  OBVIOUS
<1>2. t \in Seq(Piece) /\ Len(t) \in Nat
  BY <1>1, PairLayout
<1>3. Segments(ps)[i] = l \o t
  BY DEF Segments
<1>4. l \in Seq(Piece) /\ Len(l) = Lead(i) /\ (i # 1 => l[1] = "&")
  <2>1. "&" \in Piece
    BY DEF Piece, Word
  <2> QED BY <2>1 DEF Lead
<1> HIDE DEF t, l
<1>5. /\ l \o t \in Seq(Piece) /\ Len(l \o t) = Len(t) + Len(l)
      /\ \A j \in 1..Len(l) : (l \o t)[j] = l[j]
      /\ \A j \in 1..Len(t) : (l \o t)[Len(l) + j] = t[j]
  BY <1>2, <1>4
<1>6. i # 1 => 1 \in 1..Len(l)
  BY <1>4 DEF Lead
<1> QED BY <1>2, <1>3, <1>4, <1>5, <1>6 DEF t

\* The text of a form is its segments one after the other.
LEMMA FormSegments ==
  ASSUME NEW ps \in Seq(Pair)
  PROVE  /\ FormText(ps) = FlattenSeq(Segments(ps))
         /\ Segments(ps) \in Seq(Seq(Piece))
         /\ Len(Segments(ps)) = Len(ps)
<1>1. Len(ps) \in Nat /\ DOMAIN ps = 1..Len(ps)
  OBVIOUS
<1>2. Segments(ps) \in [1..Len(ps) -> Seq(Piece)]
  <2>1. \A i \in DOMAIN ps : Segments(ps)[i] \in Seq(Piece)
    BY SegmentLayout
  <2> QED BY <1>1, <2>1 DEF Segments
<1> QED BY <1>1, <1>2 DEF FormText, Segments

\* Where the text of the i-th pair begins and ends.
PairBegin(ps, i) == Skip(Segments(ps), i) + Lead(i) + 1
PairEnd(ps, i) == Skip(Segments(ps), i + 1)

\* The pairs of a form one after the other, an '&' between them.
LEMMA FormLayout ==
  ASSUME NEW ps \in Seq(Pair), ps # <<>>
  PROVE  LET T == FormText(ps) n == Len(ps) IN
         /\ T \in Seq(Piece) /\ n \in Nat /\ n >= 1
         /\ PairBegin(ps, 1) = 1 /\ PairEnd(ps, n) = Len(T)
         /\ \A i \in 1..n :
              LET b == PairBegin(ps, i) t == PairText(ps[i]) IN
              /\ b \in Nat /\ b >= 1 /\ PairEnd(ps, i) = b - 1 + Len(t) /\ Len(t) \in Nat
              /\ i # 1 => /\ b = PairEnd(ps, i - 1) + 2
                          /\ b - 1 \in 1..Len(T) /\ T[b - 1] = "&"
              /\ \A j \in 1..Len(t) : b - 1 + j \in 1..Len(T) /\ T[b - 1 + j] = t[j]
         /\ \A p \in 1..Len(T) : \E i \in 1..n :
              \/ i # 1 /\ p = PairBegin(ps, i) - 1
              \/ \E j \in 1..Len(PairText(ps[i])) : p = PairBegin(ps, i) - 1 + j
<1> DEFINE T == FormText(ps)
           n == Len(ps)
           S == Segments(ps)
<1>1. n \in Nat /\ n >= 1 /\ DOMAIN ps = 1..n
  OBVIOUS
<1>2. T = FlattenSeq(S) /\ S \in Seq(Seq(Piece)) /\ Len(S) = n
  BY FormSegments
<1> HIDE DEF T, S
<1>3. /\ T \in Seq(Piece) /\ LaidOut(S, n, T) /\ Skip(S, 1) = 0 /\ Len(T) = Skip(S, n + 1)
      /\ \A i \in 1..n : Skip(S, i) \in Nat /\ Skip(S, i + 1) = Skip(S, i) + Len(S[i])
  BY <1>1, <1>2, FlattenLayout
<1>4. \A i \in 1..n :
        LET t == PairText(ps[i]) IN
        /\ S[i] \in Seq(Piece) /\ Len(S[i]) = Len(t) + Lead(i) /\ Len(t) \in Nat
        /\ i # 1 => S[i][1] = "&"
        /\ \A j \in 1..Len(t) : S[i][Lead(i) + j] = t[j]
  BY <1>1, SegmentLayout DEF S
<1>5. \A i : Lead(i) \in {0, 1} /\ (i = 1 <=> Lead(i) = 0)
  BY DEF Lead
<1>6. \A i : PairBegin(ps, i) = Skip(S, i) + Lead(i) + 1 /\ PairEnd(ps, i) = Skip(S, i + 1)
  BY DEF PairBegin, PairEnd, S
<1>7. /\ \A i \in 1..n : \A j \in 1..Len(S[i]) :
           Skip(S, i) + j \in 1..Len(T) /\ T[Skip(S, i) + j] = S[i][j]
      /\ \A p \in 1..Len(T) : \E i \in 1..n : \E j \in 1..Len(S[i]) : p = Skip(S, i) + j
  BY <1>3 DEF LaidOut
<1>8. PairBegin(ps, 1) = 1 /\ PairEnd(ps, n) = Len(T)
  BY <1>3, <1>5, <1>6
<1>9. ASSUME NEW i \in 1..n
      PROVE  LET b == PairBegin(ps, i) t == PairText(ps[i]) IN
             /\ b \in Nat /\ b >= 1 /\ PairEnd(ps, i) = b - 1 + Len(t) /\ Len(t) \in Nat
             /\ i # 1 => /\ b = PairEnd(ps, i - 1) + 2
                         /\ b - 1 \in 1..Len(T) /\ T[b - 1] = "&"
             /\ \A j \in 1..Len(t) : b - 1 + j \in 1..Len(T) /\ T[b - 1 + j] = t[j]
  <2> DEFINE t == PairText(ps[i])
             b == PairBegin(ps, i)
             o == Skip(S, i)
             l == Lead(i)
  <2>1. /\ o \in Nat /\ PairEnd(ps, i) = o + Len(S[i]) /\ Len(S[i]) = Len(t) + l
        /\ Len(t) \in Nat /\ b = o + l + 1 /\ l \in {0, 1} /\ (i # 1 => l = 1)
    BY <1>3, <1>4, <1>5, <1>6
  <2>2. \A j \in 1..(Len(t) + l) : o + j \in 1..Len(T) /\ T[o + j] = S[i][j]
    BY <1>7, <2>1
  <2>3. ASSUME i # 1
        PROVE  b = PairEnd(ps, i - 1) + 2 /\ b - 1 \in 1..Len(T) /\ T[b - 1] = "&"
    <3>1. PairEnd(ps, i - 1) = o
      <4>1. i - 1 + 1 = i
        BY <1>1
      <4> QED BY <1>6, <4>1
    <3>2. 1 \in 1..(Len(t) + l) /\ b - 1 = o + 1
      BY <2>1, <2>3
    <3>3. b - 1 \in 1..Len(T) /\ T[b - 1] = S[i][1]
      BY ONLY <2>2, <3>2
    <3>4. S[i][1] = "&"
      BY <1>4, <2>3
    <3>5. b = o + 2
      BY <2>1, <2>3
    <3> QED BY ONLY <3>1, <3>3, <3>4, <3>5
  <2>4. ASSUME NEW j \in 1..Len(t)
        PROVE  b - 1 + j \in 1..Len(T) /\ T[b - 1 + j] = t[j]
    <3>1. l + j \in 1..(Len(t) + l) /\ b - 1 + j = o + (l + j)
      BY SMTT(20), <2>1
    <3>2. S[i][l + j] = t[j]
      BY <1>4
    <3> QED BY <2>2, <3>1, <3>2
  <2> HIDE DEF t, b, o, l
  <2>5. b \in Nat /\ b >= 1 /\ PairEnd(ps, i) = b - 1 + Len(t) /\ Len(t) \in Nat
    BY <2>1
  <2> QED BY <2>3, <2>4, <2>5 DEF t, b
<1>10. ASSUME NEW p \in 1..Len(T)
       PROVE  \E i \in 1..n : \/ i # 1 /\ p = PairBegin(ps, i) - 1
                              \/ \E j \in 1..Len(PairText(ps[i])) :
                                   p = PairBegin(ps, i) - 1 + j
  <2>1. PICK i \in 1..n : \E j \in 1..Len(S[i]) : p = Skip(S, i) + j
    BY <1>7
  <2>2. PICK j \in 1..Len(S[i]) : p = Skip(S, i) + j
    BY <2>1
  <2>3. /\ Len(S[i]) = Len(PairText(ps[i])) + Lead(i) /\ Len(PairText(ps[i])) \in Nat
        /\ Lead(i) \in {0, 1} /\ (Lead(i) = 1 => i # 1)
        /\ Skip(S, i) \in Nat /\ PairBegin(ps, i) = Skip(S, i) + Lead(i) + 1
    BY <1>3, <1>4, <1>5, <1>6
  <2>4. CASE j = 1 /\ Lead(i) = 1
    <3>1. i # 1 /\ p = PairBegin(ps, i) - 1
      BY <2>2, <2>3, <2>4
    <3> QED BY <3>1
  <2>5. CASE ~(j = 1 /\ Lead(i) = 1)
    <3>1. /\ j - Lead(i) \in 1..Len(PairText(ps[i]))
          /\ p = PairBegin(ps, i) - 1 + (j - Lead(i))
      BY <2>2, <2>3, <2>5
    <3> QED BY <3>1
  <2> QED BY <2>4, <2>5
<1> QED BY <1>1, <1>3, <1>8, <1>9, <1>10 DEF T

\* No pairs, no text.
LEMMA EmptyForm == FormText(<<>>) = <<>>
BY DEF FormText, FlattenSeq

-----------------------------------------------------------------------------
(* Find.                                                                   *)

\* Find returns npos when the piece does not occur,
LEMMA FindNone ==
  ASSUME NEW s, NEW x, NEW pos, \A i \in pos..Len(s) : s[i] # x
  PROVE  Find(s, x, pos) = 0
BY DEF Find

\* its place when it occurs,
LEMMA FindAt ==
  ASSUME NEW s, NEW x, NEW pos \in Nat, Len(s) \in Nat, NEW p \in pos..Len(s),
         s[p] = x, \A j \in pos..(p - 1) : s[j] # x
  PROVE  Find(s, x, pos) = p
<1>1. \A i \in pos..Len(s) :
        s[i] = x /\ (\A j \in pos..(i - 1) : s[j] # x) => i = p
  <2> SUFFICES ASSUME NEW i \in pos..Len(s), s[i] = x,
                      \A j \in pos..(i - 1) : s[j] # x, i # p
               PROVE  FALSE
    OBVIOUS
  <2>1. i \in pos..(p - 1) \/ p \in pos..(i - 1)
    OBVIOUS
  <2> QED BY <2>1
<1> DEFINE Q(i) == s[i] = x /\ \A j \in pos..(i - 1) : s[j] # x
<1>2. Q(p) /\ \A i \in pos..Len(s) : Q(i) => i = p
  BY <1>1
<1>3. Find(s, x, pos) = CHOOSE i \in pos..Len(s) : Q(i)
  BY DEF Find
<1> HIDE DEF Q
<1> QED BY <1>2, <1>3

\* and the first place when that is known.
LEMMA FindFirst ==
  ASSUME NEW s, NEW x, NEW pos \in Nat, Len(s) \in Nat, NEW p \in pos..Len(s), s[p] = x
  PROVE  /\ Find(s, x, pos) \in pos..Len(s) /\ s[Find(s, x, pos)] = x
         /\ \A j \in pos..(Find(s, x, pos) - 1) : s[j] # x
<1> DEFINE T == {i \in pos..Len(s) : s[i] = x}
<1>1. T \subseteq Nat /\ T # {}
  OBVIOUS
<1>2. PICK m \in T : \A y \in T : m <= y
  <2> HIDE DEF T
  <2> QED BY <1>1, Least
<1>3. m \in pos..Len(s) /\ s[m] = x
  OBVIOUS
<1>4. \A j \in pos..(m - 1) : s[j] # x
  <2> SUFFICES ASSUME NEW j \in pos..(m - 1), s[j] = x PROVE FALSE
    OBVIOUS
  <2>1. j \in T /\ ~(m <= j)
    BY <1>3
  <2> QED BY <1>2, <2>1
<1> HIDE DEF T
<1>5. Find(s, x, pos) = m
  BY <1>3, <1>4, FindAt
<1> QED BY <1>3, <1>4, <1>5

\* What Find returns in the text of a form, from where a pair begins.
LEMMA FormFound ==
  ASSUME NEW ps \in Seq(Pair), ps # <<>>, NEW i \in 1..Len(ps)
  PROVE  LET T == FormText(ps) b == PairBegin(ps, i) e == PairEnd(ps, i) IN
         /\ Find(T, "&", b) = IF i = Len(ps) THEN 0 ELSE e + 1
         /\ ~ps[i].bare => Find(T, "=", b) = b + 1 /\ e = b + 1 + Len(ps[i].value)
         /\ ps[i].bare => Find(T, "=", b) = 0 \/ Find(T, "=", b) >= b + 2
         /\ b \in 1..e /\ e \in 1..Len(T) /\ T[b] = ps[i].name
<1> DEFINE T == FormText(ps)
           n == Len(ps)
           b == PairBegin(ps, i)
           e == PairEnd(ps, i)
           t == PairText(ps[i])
<1>1. /\ T \in Seq(Piece) /\ n \in Nat /\ n >= 1 /\ e = b - 1 + Len(t) /\ Len(t) \in Nat
      /\ b \in Nat /\ b >= 1 /\ PairEnd(ps, n) = Len(T)
      /\ \A j \in 1..Len(t) : b - 1 + j \in 1..Len(T) /\ T[b - 1 + j] = t[j]
  BY FormLayout
<1>2. ASSUME i # n
      PROVE  e + 1 \in 1..Len(T) /\ T[e + 1] = "&"
  <2>1. i + 1 \in 1..n /\ i + 1 # 1 /\ i + 1 - 1 = i
    BY <1>1, <1>2
  <2>2. PairBegin(ps, i + 1) = e + 2
        /\ PairBegin(ps, i + 1) - 1 \in 1..Len(T) /\ T[PairBegin(ps, i + 1) - 1] = "&"
    BY <2>1, FormLayout
  <2>3. e \in Int
    BY <1>1
  <2>4. PairBegin(ps, i + 1) - 1 = e + 1
    BY <2>2, <2>3
  <2> QED BY <2>2, <2>4
<1>3. /\ t \in Seq(Piece \ {"&"}) /\ t[1] = ps[i].name
      /\ ps[i].bare => Len(t) = 1
      /\ ~ps[i].bare => Len(t) = Len(ps[i].value) + 2 /\ t[2] = "="
      /\ ps[i].bare \in BOOLEAN /\ ps[i].value \in Seq(Word) /\ ps[i].name \in Letters
  <2>1. ps[i] \in Pair
    OBVIOUS
  <2> QED BY <2>1, PairLayout DEF Pair
<1> HIDE DEF T, n, b, e, t
<1>4. Len(t) >= 1 /\ Len(T) \in Nat /\ Len(ps[i].value) \in Nat
  BY <1>1, <1>3
<1>5. e = b - 1 + Len(t) /\ Len(t) \in Nat /\ b \in Nat /\ b >= 1
  BY <1>1
<1>6. b \in 1..e /\ e \in 1..Len(T) /\ T[b] = ps[i].name
  <2>1. 1 \in 1..Len(t) /\ Len(t) \in 1..Len(t) /\ b - 1 + 1 = b
    BY <1>1, <1>4
  <2>2. b - 1 + Len(t) \in 1..Len(T) /\ T[b] = t[1]
    BY <1>1, <2>1
  <2> QED BY <1>1, <1>3, <1>4, <2>2
<1>7. \A p \in b..e : T[p] # "&"
  <2> SUFFICES ASSUME NEW p \in b..e PROVE T[p] # "&"
    OBVIOUS
  <2>1. p - b + 1 \in 1..Len(t) /\ b - 1 + (p - b + 1) = p
    BY <1>1
  <2>2. T[p] = t[p - b + 1] /\ t[p - b + 1] # "&"
    BY <1>1, <1>3, <2>1
  <2> QED BY <2>2
<1>8. Find(T, "&", b) = IF i = n THEN 0 ELSE e + 1
  <2>1. CASE i = n
    <3>1. e = Len(T)
      BY <1>1, <2>1 DEF e
    <3> QED BY <1>7, <2>1, <3>1, FindNone
  <2>2. CASE i # n
    <3>1. e + 1 \in b..Len(T) /\ T[e + 1] = "&" /\ e + 1 - 1 = e
      BY <1>1, <1>2, <1>6, <2>2
    <3>2. Find(T, "&", b) = e + 1
      BY ONLY <1>4, <1>7, <1>5, <3>1, FindAt
    <3> QED BY <2>2, <3>2
  <2> QED BY <2>1, <2>2
<1>9. T[b] # "=" /\ T[b] # "&"
  BY <1>3, <1>6, RequestAssumption
<1>10. ASSUME ~ps[i].bare
      PROVE  Find(T, "=", b) = b + 1 /\ e = b + 1 + Len(ps[i].value)
  <2>1. 2 \in 1..Len(t) /\ b - 1 + 2 = b + 1
    BY <1>1, <1>3, <1>4, <1>10
  <2>2. b + 1 \in 1..Len(T) /\ T[b + 1] = "="
    BY <1>1, <1>3, <1>10, <2>1
  <2>3. b + 1 \in b..Len(T) /\ \A j \in b..(b + 1 - 1) : T[j] # "="
    BY <1>1, <1>9, <2>2
  <2>4. Find(T, "=", b) = b + 1
    BY SMTT(20), <1>1, <1>4, <2>2, <2>3, FindAt
  <2>5. Len(t) = Len(ps[i].value) + 2
    BY <1>3, <1>10
  <2>6. e = b + 1 + Len(ps[i].value)
    <3>1. \A k \in Nat : b - 1 + (k + 2) = b + 1 + k
      BY ONLY <1>5
    <3> QED BY ONLY <1>4, <1>5, <2>5, <3>1, Zenon
  <2> QED BY <2>4, <2>6
<1>11. ASSUME ps[i].bare
       PROVE  Find(T, "=", b) = 0 \/ Find(T, "=", b) >= b + 2
  <2>1. e = b
    <3>1. Len(t) = 1
      BY <1>3, <1>11
    <3> QED BY ONLY <1>5, <3>1
  <2>2. ASSUME NEW p \in b..Len(T), T[p] = "="
        PROVE  Find(T, "=", b) >= b + 2
    <3>1. Find(T, "=", b) \in b..Len(T) /\ T[Find(T, "=", b)] = "="
      BY SMTT(20), <1>1, <1>4, <2>2, FindFirst
    <3>2. Find(T, "=", b) # b
      BY <1>9, <3>1
    <3>3. Find(T, "=", b) # b + 1
      <4>1. CASE i = n
        <5>1. b = Len(T)
          BY <1>1, <2>1, <4>1 DEF e
        <5> QED BY <1>1, <3>1, <5>1
      <4>2. CASE i # n
        BY <1>2, <2>1, <3>1, <4>2
      <4> QED BY <4>1, <4>2
    <3> QED BY SMTT(20), <1>1, <1>4, <3>1, <3>2, <3>3
  <2> QED BY <2>2, FindNone
<1> QED BY <1>6, <1>8, <1>10, <1>11 DEF T, n, b, e

-----------------------------------------------------------------------------
(* Split, and the text of a form.                                          *)

\* Where the loop looks for a pair, where it reads one, and what it reads.
Starts(s) == {1} \cup {i + 1 : i \in {j \in DOMAIN s : s[j] = "&"}}
ReadAt(s) == {pos \in Starts(s) : Find(s, "=", pos) # 0}
KeyAt(s, pos) == Decoded(SubSeq(s, pos, Find(s, "=", pos) - 1))
ValueAt(s, pos) ==
  Decoded(SubSeq(s, Find(s, "=", pos) + 1,
                 ValueEnd(s, Find(s, "=", pos), Find(s, "&", pos))))

\* Split in these terms.
LEMMA SplitIs ==
  ASSUME NEW s
  PROVE  /\ DOMAIN Split(s) = {KeyAt(s, pos) : pos \in ReadAt(s)}
         /\ \A k \in DOMAIN Split(s) :
              Split(s)[k] = ValueAt(s, Max({pos \in ReadAt(s) : KeyAt(s, pos) = k}))
BY DEF Split, Starts, ReadAt, KeyAt, ValueAt

\* A pair is read where each pair begins, and nowhere else.
LEMMA FormStarts ==
  ASSUME NEW ps \in Seq(Pair), ps # <<>>
  PROVE  Starts(FormText(ps)) = {PairBegin(ps, i) : i \in 1..Len(ps)}
<1> DEFINE T == FormText(ps)
           n == Len(ps)
<1>1. /\ T \in Seq(Piece) /\ n \in Nat /\ n >= 1 /\ PairBegin(ps, 1) = 1
      /\ \A i \in 1..n : PairBegin(ps, i) \in Nat
      /\ \A i \in 1..n : i # 1 => /\ PairBegin(ps, i) - 1 \in 1..Len(T)
                               /\ T[PairBegin(ps, i) - 1] = "&"
  BY FormLayout
<1>2. \A p \in 1..Len(T) : \E i \in 1..n :
        \/ i # 1 /\ p = PairBegin(ps, i) - 1
        \/ \E j \in 1..Len(PairText(ps[i])) : p = PairBegin(ps, i) - 1 + j
  BY FormLayout
<1>3. ASSUME NEW i \in 1..n, NEW j \in 1..Len(PairText(ps[i]))
      PROVE  T[PairBegin(ps, i) - 1 + j] # "&"
  <2>1. T[PairBegin(ps, i) - 1 + j] = PairText(ps[i])[j]
    BY FormLayout
  <2>2. ps[i] \in Pair
    OBVIOUS
  <2>3. PairText(ps[i]) \in Seq(Piece \ {"&"})
    BY <2>2, PairLayout
  <2>4. PairText(ps[i])[j] \in Piece \ {"&"}
    BY <2>3
  <2> QED BY <2>1, <2>4
<1> HIDE DEF T, n
<1>4. ASSUME NEW p \in 1..Len(T), T[p] = "&"
      PROVE  \E i \in 1..n : p + 1 = PairBegin(ps, i)
  <2>1. PICK i \in 1..n : i # 1 /\ p = PairBegin(ps, i) - 1
    BY <1>2, <1>3, <1>4
  <2>2. p + 1 = PairBegin(ps, i)
    BY <1>1, <2>1
  <2> QED BY <2>2
<1>5. ASSUME NEW i \in 1..n
      PROVE  PairBegin(ps, i) \in Starts(T)
  <2>1. CASE i = 1
    BY <1>1, <2>1 DEF Starts
  <2>2. CASE i # 1
    <3>1. PairBegin(ps, i) - 1 \in DOMAIN T /\ T[PairBegin(ps, i) - 1] = "&"
          /\ PairBegin(ps, i) - 1 + 1 = PairBegin(ps, i)
      BY <1>1, <2>2
    <3> QED BY <3>1 DEF Starts
  <2> QED BY <2>1, <2>2
<1>6. ASSUME NEW pos \in Starts(T)
      PROVE  \E i \in 1..n : pos = PairBegin(ps, i)
  <2>1. CASE pos = 1
    BY <1>1, <2>1
  <2>2. CASE \E p \in 1..Len(T) : T[p] = "&" /\ pos = p + 1
    BY <1>4, <2>2
  <2> QED BY <1>1, <2>1, <2>2 DEF Starts
<1> QED BY <1>5, <1>6 DEF T, n

-----------------------------------------------------------------------------
(* What Split makes of it.                                                 *)

\* url_decode leaves a name as it is.
LEMMA DecodedLetter ==
  ASSUME NEW x \in Letters
  PROVE  Decoded(<<x>>) = <<x>>
<1>1. x # "%26" /\ x # "+"
  BY RequestAssumption
<1>2. DOMAIN <<x>> = 1..1 /\ <<x>>[1] = x /\ <<x>> = [i \in 1..1 |-> x]
  OBVIOUS
<1>3. Decoded(<<x>>) = [i \in 1..1 |-> x]
  BY <1>1, <1>2 DEF Decoded
<1> QED BY <1>2, <1>3

\* One piece of a text.
LEMMA SubSeqOne ==
  ASSUME NEW X, NEW s \in Seq(X), NEW i \in 1..Len(s)
  PROVE  SubSeq(s, i, i) = <<s[i]>>
<1>1. \A j \in i..i : s[j] \in X
  OBVIOUS
<1>2. /\ SubSeq(s, i, i) \in Seq(X) /\ Len(SubSeq(s, i, i)) = 1
      /\ SubSeq(s, i, i)[1] = s[i]
  <2>1. /\ SubSeq(s, i, i) \in Seq(X)
        /\ Len(SubSeq(s, i, i)) = IF i <= i THEN i - i + 1 ELSE 0
        /\ \A j \in 1..(i - i + 1) : SubSeq(s, i, i)[j] = s[i + j - 1]
    BY <1>1, SubSeqProperties
  <2> QED BY <2>1
<1>3. <<s[i]>> \in Seq(X) /\ Len(<<s[i]>>) = 1 /\ <<s[i]>>[1] = s[i]
  OBVIOUS
<1>4. \A j \in 1..Len(SubSeq(s, i, i)) : SubSeq(s, i, i)[j] = <<s[i]>>[j]
  BY ONLY <1>2, <1>3
<1> QED BY ONLY <1>2, <1>3, <1>4, SeqEqual

\* A pair with a value is read as it was meant; a bare name is read, if at
\* all, under a longer key.
LEMMA FormPair ==
  ASSUME NEW ps \in Seq(Pair), ps # <<>>, NEW i \in 1..Len(ps)
  PROVE  LET T == FormText(ps) b == PairBegin(ps, i) IN
         /\ ~ps[i].bare => /\ b \in ReadAt(T) /\ KeyAt(T, b) = <<ps[i].name>>
                           /\ ValueAt(T, b) = ps[i].value
         /\ ps[i].bare /\ b \in ReadAt(T) => \A x : KeyAt(T, b) # <<x>>
<1> DEFINE T == FormText(ps)
           b == PairBegin(ps, i)
           e == PairEnd(ps, i)
           v == ps[i].value
<1>1. /\ Find(T, "&", b) = IF i = Len(ps) THEN 0 ELSE e + 1
      /\ ~ps[i].bare => Find(T, "=", b) = b + 1 /\ e = b + 1 + Len(v)
      /\ ps[i].bare => Find(T, "=", b) = 0 \/ Find(T, "=", b) >= b + 2
      /\ b \in 1..e /\ e \in 1..Len(T) /\ T[b] = ps[i].name
  BY FormFound
<1>2. T \in Seq(Piece) /\ PairEnd(ps, Len(ps)) = Len(T) /\ b \in Starts(T)
  BY FormLayout, FormStarts
<1>3. ~ps[i].bare => \A j \in 1..Len(v) : T[b + 1 + j] = Escaped(v)[j]
  <2> SUFFICES ASSUME ~ps[i].bare, NEW j \in 1..Len(v)
               PROVE  T[b + 1 + j] = Escaped(v)[j]
    OBVIOUS
  <2>1. ps[i] \in Pair /\ v \in Seq(Word)
    BY DEF Pair
  <2>2. /\ Len(PairText(ps[i])) = Len(v) + 2
        /\ PairText(ps[i])[j + 2] = Escaped(v)[j]
    BY <2>1, PairLayout
  <2>3. j + 2 \in 1..Len(PairText(ps[i])) /\ b - 1 + (j + 2) = b + 1 + j
    <3>1. b \in Nat /\ Len(v) \in Nat
      BY <1>1, <2>1
    <3> HIDE DEF b, v
    <3> QED BY <2>2, <3>1
  <2>4. T[b - 1 + (j + 2)] = PairText(ps[i])[j + 2]
    BY <2>3, FormLayout
  <2> QED BY <2>2, <2>3, <2>4
<1>4. v \in Seq(Word) /\ ps[i].name \in Letters /\ ps[i].bare \in BOOLEAN
  BY DEF Pair
<1>5. /\ Escaped(v) \in Seq(Piece) /\ Len(Escaped(v)) = Len(v) /\ Len(v) \in Nat
      /\ Decoded(Escaped(v)) = v
  BY <1>4, EscapedLayout
<1> HIDE DEF T, b, e, v
<1>6. b \in Nat /\ e \in Nat /\ Len(T) \in Nat /\ \A p \in 1..Len(T) : T[p] \in Piece
  BY <1>1, <1>2
<1>7. ASSUME ~ps[i].bare
      PROVE  /\ b \in ReadAt(T) /\ KeyAt(T, b) = <<ps[i].name>>
             /\ ValueAt(T, b) = v
  <2>1. Find(T, "=", b) = b + 1 /\ e = b + 1 + Len(v)
    BY <1>1, <1>7
  <2>2. b \in ReadAt(T)
    <3>1. b + 1 # 0
      BY <1>6
    <3> QED BY <1>2, <2>1, <3>1 DEF ReadAt
  <2>3. SubSeq(T, b, b) = <<ps[i].name>>
    <3>1. b \in 1..Len(T)
      BY <1>1, <1>6
    <3> QED BY <1>1, <1>2, <3>1, SubSeqOne
  <2>4. KeyAt(T, b) = <<ps[i].name>>
    <3>1. Decoded(<<ps[i].name>>) = <<ps[i].name>>
      BY <1>4, DecodedLetter
    <3>2. KeyAt(T, b) = Decoded(SubSeq(T, b, Find(T, "=", b) - 1))
      BY Zenon DEF KeyAt
    <3>3. Find(T, "=", b) - 1 = b
      BY <1>6, <2>1
    <3> QED BY ONLY <2>3, <3>1, <3>2, <3>3, Zenon
  <2>5. ValueEnd(T, b + 1, Find(T, "&", b)) = e
    <3>1. CASE i = Len(ps)
      <4>1. e = Len(T) /\ Find(T, "&", b) = 0 /\ ~(0 > b + 1)
        BY <1>1, <1>2, <1>6, <3>1 DEF e
      <4> QED BY ONLY <4>1, Zenon DEF ValueEnd
    <3>2. CASE i # Len(ps)
      <4>1. Find(T, "&", b) = e + 1 /\ e + 1 > b + 1 /\ e + 1 - 1 = e
        <5>1. e + 1 > b + 1 /\ e + 1 - 1 = e
          BY <1>5, <1>6, <2>1
        <5> QED BY <1>1, <3>2, <5>1
      <4>2. Find(T, "&", b) > b + 1
        BY <4>1
      <4>3. ValueEnd(T, b + 1, Find(T, "&", b)) = Find(T, "&", b) - 1
        BY ONLY <4>2, Zenon DEF ValueEnd
      <4>4. Find(T, "&", b) - 1 = e
        BY <1>6, <4>1
      <4> QED BY ONLY <4>3, <4>4, Zenon
    <3> QED BY <3>1, <3>2
  <2>6. SubSeq(T, b + 1 + 1, e) = Escaped(v)
    <3>1. \A k \in (b + 1 + 1)..e : T[k] \in Piece
      BY <1>1, <1>6
    <3>2. /\ SubSeq(T, b + 1 + 1, e) \in Seq(Piece)
          /\ Len(SubSeq(T, b + 1 + 1, e)) =
               IF b + 1 + 1 <= e THEN e - (b + 1 + 1) + 1 ELSE 0
          /\ \A k \in 1..(e - (b + 1 + 1) + 1) :
               SubSeq(T, b + 1 + 1, e)[k] = T[b + 1 + 1 + k - 1]
      BY <1>6, <3>1, SubSeqProperties
    <3>3. Len(SubSeq(T, b + 1 + 1, e)) = Len(v) /\ e - (b + 1 + 1) + 1 = Len(v)
      BY <1>5, <1>6, <2>1, <3>2
    <3>4. \A k \in 1..Len(v) : T[b + 1 + 1 + k - 1] = Escaped(v)[k]
      <4>1. \A k \in 1..Len(v) : b + 1 + 1 + k - 1 = b + 1 + k
        BY <1>6
      <4> QED BY <1>3, <1>7, <4>1
    <3>5. \A k \in 1..Len(v) : SubSeq(T, b + 1 + 1, e)[k] = Escaped(v)[k]
      BY <3>2, <3>3, <3>4
    <3> QED BY <1>5, <3>2, <3>3, <3>5, SeqEqual
  <2> QED BY <1>5, <2>1, <2>2, <2>4, <2>5, <2>6 DEF ValueAt
<1>8. ASSUME ps[i].bare, b \in ReadAt(T), NEW x
      PROVE  KeyAt(T, b) # <<x>>
  <2> DEFINE f == Find(T, "=", b)
             s == SubSeq(T, b, f - 1)
  <2>1. f # 0
    BY <1>8 DEF ReadAt
  <2>2. f \in b..Len(T) /\ f >= b + 2
    <3>1. \E p \in b..Len(T) : T[p] = "="
      BY <2>1, FindNone
    <3>2. f \in b..Len(T)
      BY <1>6, <3>1, FindFirst
    <3> QED BY <1>1, <1>8, <2>1, <3>2
  <2> HIDE DEF f
  <2>3. Len(s) = f - b /\ Len(s) >= 2 /\ DOMAIN s = 1..Len(s)
    <3>1. \A k \in b..(f - 1) : T[k] \in Piece
      BY <1>1, <1>6, <2>2
    <3>2. s \in Seq(Piece) /\ Len(s) = IF b <= f - 1 THEN f - 1 - b + 1 ELSE 0
      BY <1>6, <2>2, <3>1, SubSeqProperties
    <3> QED BY <1>6, <2>2, <3>2
  <2> HIDE DEF s
  <2>4. DOMAIN Decoded(s) = DOMAIN s
    BY DEF Decoded
  <2>5. 2 \in DOMAIN Decoded(s) /\ ~(2 \in DOMAIN <<x>>)
    BY <2>3, <2>4
  <2> QED BY <2>5 DEF KeyAt, s, f
<1> QED BY <1>7, <1>8 DEF T, b, v

\* The smallest and the largest of a set that is known to have one.
LEMMA MinIs ==
  ASSUME NEW T, T \subseteq Nat, NEW a \in T, \A x \in T : a <= x
  PROVE  Min(T) = a
<1> DEFINE Q(x) == \A y \in T : x <= y
<1>1. Q(a) /\ \A x \in T : Q(x) => x = a
  OBVIOUS
<1>2. Min(T) = CHOOSE x \in T : Q(x)
  BY DEF Min
<1> HIDE DEF Q
<1> QED BY <1>1, <1>2

\* The largest likewise.
LEMMA MaxIs ==
  ASSUME NEW T, T \subseteq Nat, NEW a \in T, \A x \in T : x <= a
  PROVE  Max(T) = a
<1> DEFINE Q(x) == \A y \in T : x >= y
<1>1. Q(a) /\ \A x \in T : Q(x) => x = a
  OBVIOUS
<1>2. Max(T) = CHOOSE x \in T : Q(x)
  BY DEF Max
<1> HIDE DEF Q
<1> QED BY <1>1, <1>2

\* What Split makes of a form is what was given.
LEMMA SplitForm ==
  ASSUME NEW ps \in Pairs, NEW x
  PROVE  LET f == Split(FormText(ps)) IN
         /\ <<x>> \in DOMAIN f <=> Gives(ps, x)
         /\ Gives(ps, x) => f[<<x>>] = Given(ps, x)
<1> DEFINE T == FormText(ps)
           n == Len(ps)
<1>1. ps \in Seq(Pair) /\ DOMAIN ps = 1..n /\ n \in Nat
      /\ \A i, j \in 1..n : ps[i].name = ps[j].name => i = j
  BY DEF Pairs
<1>2. CASE ps = <<>>
  <2>1. T = <<>>
    BY <1>2, EmptyForm
  <2>2. Starts(<<>>) = {1}
    BY DEF Starts
  <2>3. Find(<<>>, "=", 1) = 0
    BY FindNone
  <2>4. ReadAt(<<>>) = {}
    BY <2>2, <2>3 DEF ReadAt
  <2>5. DOMAIN Split(T) = {}
    BY <2>1, <2>4, SplitIs
  <2> QED BY <1>2, <2>5 DEF Gives
<1>3. CASE ps # <<>>
  <2>1. Starts(T) = {PairBegin(ps, i) : i \in 1..n}
    BY <1>1, <1>3, FormStarts
  <2>2. \A i \in 1..n :
          /\ ~ps[i].bare => /\ PairBegin(ps, i) \in ReadAt(T)
                            /\ KeyAt(T, PairBegin(ps, i)) = <<ps[i].name>>
                            /\ ValueAt(T, PairBegin(ps, i)) = ps[i].value
          /\ ps[i].bare /\ PairBegin(ps, i) \in ReadAt(T) =>
               \A y : KeyAt(T, PairBegin(ps, i)) # <<y>>
    BY <1>1, <1>3, FormPair
  <2>3. \A i \in 1..n : PairBegin(ps, i) \in Nat
    BY <1>1, <1>3, FormLayout
  <2> HIDE DEF T, n
  <2>4. ASSUME NEW pos \in ReadAt(T), KeyAt(T, pos) = <<x>>
        PROVE  \E i \in 1..n : pos = PairBegin(ps, i) /\ ~ps[i].bare /\ ps[i].name = x
    <3>1. PICK i \in 1..n : pos = PairBegin(ps, i)
      BY <2>1 DEF ReadAt
    <3>2. ~ps[i].bare /\ <<ps[i].name>> = <<x>>
      BY <2>2, <2>4, <3>1
    <3> QED BY <3>1, <3>2
  <2>5. ASSUME NEW i \in 1..n, ~ps[i].bare, ps[i].name = x
        PROVE  <<x>> \in DOMAIN Split(T) /\ Split(T)[<<x>>] = Given(ps, x)
    <3>1. PairBegin(ps, i) \in ReadAt(T) /\ KeyAt(T, PairBegin(ps, i)) = <<x>>
          /\ ValueAt(T, PairBegin(ps, i)) = ps[i].value
      BY <2>2, <2>5
    <3>2. {pos \in ReadAt(T) : KeyAt(T, pos) = <<x>>} = {PairBegin(ps, i)}
      BY <1>1, <2>4, <2>5, <3>1
    <3>3. Max({PairBegin(ps, i)}) = PairBegin(ps, i)
      <4>1. /\ {PairBegin(ps, i)} \subseteq Nat
            /\ \A y \in {PairBegin(ps, i)} : y <= PairBegin(ps, i)
        BY <2>3
      <4> QED BY <4>1, MaxIs
    <3>4. <<x>> \in DOMAIN Split(T)
      BY <3>1, SplitIs
    <3>5. Split(T)[<<x>>] = ValueAt(T, PairBegin(ps, i))
      BY <3>2, <3>3, <3>4, SplitIs
    <3>6. \A j \in DOMAIN ps : ps[j].name = x /\ ~ps[j].bare <=> j = i
      BY <1>1, <2>5 DEF n
    <3>7. Given(ps, x) = ps[i].value
      <4>1. i \in DOMAIN ps
        BY <1>1
      <4> QED BY <3>6, <4>1 DEF Given, Gives
    <3> QED BY <3>1, <3>4, <3>5, <3>7
  <2>6. ASSUME <<x>> \in DOMAIN Split(T)
        PROVE  Gives(ps, x)
    <3>1. PICK pos \in ReadAt(T) : KeyAt(T, pos) = <<x>>
      BY <2>6, SplitIs
    <3> QED BY <1>1, <2>4, <3>1 DEF Gives
  <2>7. Gives(ps, x) => \E i \in 1..n : ~ps[i].bare /\ ps[i].name = x
    BY <1>1 DEF Gives
  <2> QED BY <2>5, <2>6, <2>7 DEF T
<1> QED BY <1>2, <1>3

-----------------------------------------------------------------------------
(* The URL.                                                                *)

\* What is left of a text after its first c pieces.
LEMMA SuffixLayout ==
  ASSUME NEW X, NEW s \in Seq(X), NEW c \in 0..Len(s)
  PROVE  LET u == SubSeq(s, c + 1, Len(s)) IN
         /\ u \in Seq(X) /\ Len(u) = Len(s) - c /\ Len(u) \in Nat
         /\ \A k \in 1..(Len(s) - c) : u[k] = s[c + k]
<1>1. Len(s) \in Nat /\ c \in Nat /\ c <= Len(s) /\ \A i \in (c + 1)..Len(s) : s[i] \in X
  OBVIOUS
<1> DEFINE u == SubSeq(s, c + 1, Len(s))
<1>2. /\ u \in Seq(X)
      /\ Len(u) = IF c + 1 <= Len(s) THEN Len(s) - (c + 1) + 1 ELSE 0
      /\ \A i \in 1..(Len(s) - (c + 1) + 1) : u[i] = s[c + 1 + i - 1]
  BY <1>1, SubSeqProperties
<1> HIDE DEF u
<1>3. /\ Len(s) - (c + 1) + 1 = Len(s) - c
      /\ \A i \in 1..(Len(s) - c) : c + 1 + i - 1 = c + i
  BY <1>1
<1>4. \A k \in 1..(Len(s) - c) : u[k] = s[c + k]
  BY <1>2, <1>3
<1>5. Len(u) = Len(s) - c /\ Len(u) \in Nat
  BY <1>1, <1>2
<1> QED BY <1>2, <1>4, <1>5 DEF u

\* A form is made of the pieces of its format.
LEMMA FormPieces ==
  ASSUME NEW ps \in Pairs
  PROVE  FormText(ps) \in Seq(Piece)
BY FormLayout, EmptyForm DEF Pairs

\* The path, and the query after the only '?'.
LEMMA UrlLayout ==
  ASSUME NEW r \in Requests
  PROVE  LET u == UrlText(r) m == Len(r.path) f == FormText(r.query) IN
         /\ r.path \in Seq(Letters) /\ m \in Nat /\ m >= 1 /\ r.query \in Pairs
         /\ u \in Seq(Piece \cup {"?"}) /\ f \in Seq(Piece)
         /\ \A i \in 1..m : u[i] = r.path[i] /\ u[i] # "?"
         /\ r.query = <<>> => u = r.path
         /\ r.query # <<>> => /\ Len(u) = m + 1 + Len(f) /\ u[m + 1] = "?"
                              /\ \A j \in 1..Len(f) : u[m + 1 + j] = f[j] /\ f[j] # "?"
<1> DEFINE u == UrlText(r)
           p == r.path
           m == Len(p)
           f == FormText(r.query)
           q == <<"?">> \o f
           X == Piece \cup {"?"}
<1>1. p \in Seq(Letters) /\ p # <<>> /\ r.query \in Pairs
  BY DEF Requests
<1>2. f \in Seq(Piece)
  BY <1>1, FormPieces
<1>3. "?" \notin Piece /\ Letters \subseteq Piece /\ "?" \notin Letters
  BY RequestAssumption DEF Piece, Word
<1>4. u = p \o (IF r.query = <<>> THEN <<>> ELSE q)
  BY DEF UrlText
<1> HIDE DEF u, p, f
<1>5. m \in Nat /\ m >= 1 /\ p \in Seq(X) /\ Len(f) \in Nat
      /\ \A i \in 1..m : p[i] # "?"
  BY <1>1, <1>2, <1>3
<1>6. CASE r.query = <<>>
  <2>1. u = p
    BY <1>1, <1>4, <1>6
  <2> QED BY <1>1, <1>2, <1>5, <1>6, <2>1 DEF u, p, f
<1>7. CASE r.query # <<>>
  <2>1. u = p \o q
    BY <1>4, <1>7
  <2>2. /\ q \in Seq(X) /\ Len(q) = 1 + Len(f) /\ q[1] = "?"
        /\ \A j \in 1..Len(f) : q[1 + j] = f[j]
    BY <1>2, <1>5
  <2> HIDE DEF q, X
  <2>3. /\ p \o q \in Seq(X) /\ Len(p \o q) = m + Len(q)
        /\ \A i \in 1..m : (p \o q)[i] = p[i]
        /\ \A i \in 1..Len(q) : (p \o q)[m + i] = q[i]
    <3>1. p \in Seq(X) /\ q \in Seq(X)
      BY <1>5, <2>2
    <3> QED BY ONLY <3>1, Concat
  <2>4. 1 \in 1..Len(q) /\ Len(p \o q) = m + 1 + Len(f)
        /\ \A j \in 1..Len(f) : 1 + j \in 1..Len(q) /\ m + (1 + j) = m + 1 + j
    BY <1>5, <2>2, <2>3
  <2>5. \A j \in 1..Len(f) : (p \o q)[m + 1 + j] = f[j] /\ f[j] # "?"
    BY <1>2, <1>3, <2>2, <2>3, <2>4
  <2>6. (p \o q)[m + 1] = "?"
    BY <2>2, <2>3, <2>4
  <2>7. \A i \in 1..m : u[i] = p[i] /\ u[i] # "?"
    BY <1>5, <2>1, <2>3
  <2>8. /\ u \in Seq(X) /\ Len(u) = m + 1 + Len(f) /\ u[m + 1] = "?"
        /\ \A j \in 1..Len(f) : u[m + 1 + j] = f[j] /\ f[j] # "?"
    BY ONLY <2>1, <2>3, <2>4, <2>5, <2>6
  <2> QED BY <1>1, <1>2, <1>5, <1>7, <2>7, <2>8 DEF u, p, f, X
<1> QED BY <1>6, <1>7

\* The server finds the path of a URL it has whole.
LEMMA UrlPath ==
  ASSUME NEW r \in Requests
  PROVE  Path(UrlText(r)) = r.path
<1> DEFINE u == UrlText(r)
           m == Len(r.path)
<1>1. /\ r.path \in Seq(Letters) /\ m \in Nat /\ m >= 1
      /\ u \in Seq(Piece \cup {"?"})
      /\ \A i \in 1..m : u[i] = r.path[i] /\ u[i] # "?"
      /\ r.query = <<>> => u = r.path
      /\ r.query # <<>> => m + 1 \in 1..Len(u) /\ u[m + 1] = "?"
  <2>1. FormText(r.query) \in Seq(Piece)
    BY UrlLayout
  <2>2. Len(FormText(r.query)) \in Nat
    BY <2>1
  <2>3. r.query # <<>> => Len(u) = m + 1 + Len(FormText(r.query)) /\ u[m + 1] = "?"
    BY UrlLayout
  <2>4. /\ r.path \in Seq(Letters) /\ m \in Nat /\ m >= 1
        /\ u \in Seq(Piece \cup {"?"})
        /\ \A i \in 1..m : u[i] = r.path[i] /\ u[i] # "?"
        /\ r.query = <<>> => u = r.path
    BY UrlLayout
  <2> HIDE DEF u, m
  <2>5. r.query # <<>> => m + 1 \in 1..Len(u)
    BY <2>2, <2>3, <2>4
  <2> QED BY <2>3, <2>4, <2>5
<1> HIDE DEF u
<1>2. CASE r.query = <<>>
  <2>1. Find(u, "?", 1) = 0
    BY <1>1, <1>2, FindNone
  <2> QED BY <1>1, <1>2, <2>1 DEF Path, u
<1>3. CASE r.query # <<>>
  <2>1. Find(u, "?", 1) = m + 1
    <3>1. m + 1 \in 1..Len(u) /\ u[m + 1] = "?" /\ m + 1 - 1 = m /\ Len(u) \in Nat
      BY <1>1, <1>3
    <3> HIDE DEF m
    <3> QED BY <1>1, <3>1, FindAt
  <2>2. Path(u) = SubSeq(u, 1, m)
    <3>1. m + 1 # 0 /\ m + 1 - 1 = m
      BY <1>1
    <3>2. Find(u, "?", 1) # 0 /\ Find(u, "?", 1) - 1 = m
      BY <1>1, <2>1
    <3> HIDE DEF m
    <3> QED BY ONLY <3>2, Zenon DEF Path
  <2>3. SubSeq(u, 1, m) = r.path
    <3>1. \A i \in 1..m : u[i] \in Letters
      BY <1>1
    <3>2. /\ SubSeq(u, 1, m) \in Seq(Letters)
          /\ Len(SubSeq(u, 1, m)) = IF 1 <= m THEN m - 1 + 1 ELSE 0
          /\ \A i \in 1..(m - 1 + 1) : SubSeq(u, 1, m)[i] = u[1 + i - 1]
      BY <1>1, <3>1, SubSeqProperties
    <3>3. Len(SubSeq(u, 1, m)) = m /\ \A i \in 1..m : SubSeq(u, 1, m)[i] = r.path[i]
      BY <1>1, <3>2
    <3> QED BY <1>1, <3>2, <3>3, SeqEqual
  <2> QED BY <2>2, <2>3 DEF u
<1> QED BY <1>2, <1>3

\* From the end of a URL the query is taken whole or not at all.
LEMMA UrlQuery ==
  ASSUME NEW r \in Requests, NEW c \in 0..Len(UrlText(r))
  PROVE  LET f == QueryParams(SubSeq(UrlText(r), c + 1, Len(UrlText(r)))) IN
         /\ f \in {NoParams, Split(FormText(r.query))}
         /\ c = 0 /\ r.query # <<>> => f = Split(FormText(r.query))
<1> DEFINE U == UrlText(r)
           u == SubSeq(U, c + 1, Len(U))
           m == Len(r.path)
           f == FormText(r.query)
<1>1. /\ m \in Nat /\ U \in Seq(Piece \cup {"?"}) /\ f \in Seq(Piece)
      /\ r.path \in Seq(Letters)
      /\ \A i \in 1..m : U[i] # "?"
      /\ r.query = <<>> => U = r.path
      /\ r.query # <<>> => /\ Len(U) = m + 1 + Len(f) /\ U[m + 1] = "?"
                           /\ \A j \in 1..Len(f) : U[m + 1 + j] = f[j] /\ f[j] # "?"
  BY UrlLayout
<1>2. /\ u \in Seq(Piece \cup {"?"}) /\ Len(u) = Len(U) - c /\ Len(u) \in Nat
      /\ \A k \in 1..(Len(U) - c) : u[k] = U[c + k]
  BY <1>1, SuffixLayout
<1>3. c \in Nat /\ c <= Len(U) /\ Len(U) \in Nat /\ Len(f) \in Nat
  BY <1>1
<1> HIDE DEF U, u, f, m
<1>4. CASE r.query = <<>> \/ c > m
  <2>1. \A i \in 1..Len(U) : i > c => U[i] # "?"
    <3>1. CASE r.query = <<>>
      BY <1>1, <3>1 DEF m
    <3>2. CASE r.query # <<>> /\ c > m
      <4> SUFFICES ASSUME NEW i \in 1..Len(U), i > c PROVE U[i] # "?"
        OBVIOUS
      <4>1. i - (m + 1) \in 1..Len(f) /\ m + 1 + (i - (m + 1)) = i
        BY SMTT(20), <1>1, <1>3, <3>2
      <4> QED BY <1>1, <3>2, <4>1
    <3> QED BY <1>4, <3>1, <3>2
  <2>2. \A k \in 1..Len(u) : u[k] # "?"
    <3> SUFFICES ASSUME NEW k \in 1..Len(u) PROVE u[k] # "?"
      OBVIOUS
    <3>1. k \in 1..(Len(U) - c) /\ c + k \in 1..Len(U) /\ c + k > c
      BY <1>2, <1>3
    <3> QED BY <1>2, <2>1, <3>1
  <2>3. QueryParams(u) = NoParams
    <3>1. Find(u, "?", 1) = 0
      BY <2>2, FindNone
    <3> QED BY <3>1 DEF QueryParams
  <2>4. c = 0 => r.query = <<>>
    BY <1>1, <1>3, <1>4
  <2> QED BY <2>3, <2>4 DEF U, u
<1>5. CASE r.query # <<>> /\ c <= m
  <2> DEFINE a == m + 1 - c
  <2>1. /\ a \in 1..Len(u) /\ c + a = m + 1 /\ Len(u) - a = Len(f)
        /\ \A k \in 1..Len(u) : u[k] = U[c + k]
    BY <1>1, <1>2, <1>3, <1>5
  <2>2. u[a] = "?"
    BY <1>1, <1>5, <2>1
  <2>3. \A k \in 1..(a - 1) : u[k] # "?"
    <3> SUFFICES ASSUME NEW k \in 1..(a - 1) PROVE u[k] # "?"
      OBVIOUS
    <3>1. k \in 1..Len(u) /\ c + k \in 1..m
      BY <1>1, <1>2, <1>3, <2>1
    <3> QED BY <1>1, <2>1, <3>1
  <2> HIDE DEF a
  <2>4. Find(u, "?", 1) = a
    BY <1>2, <2>1, <2>2, <2>3, FindAt
  <2>5. SubSeq(u, a + 1, Len(u)) = f
    <3>1. a \in 0..Len(u)
      BY <1>2, <2>1
    <3>2. /\ SubSeq(u, a + 1, Len(u)) \in Seq(Piece \cup {"?"})
          /\ Len(SubSeq(u, a + 1, Len(u))) = Len(f)
          /\ \A k \in 1..Len(f) : SubSeq(u, a + 1, Len(u))[k] = u[a + k]
      <4>1. /\ SubSeq(u, a + 1, Len(u)) \in Seq(Piece \cup {"?"})
            /\ Len(SubSeq(u, a + 1, Len(u))) = Len(u) - a
            /\ \A k \in 1..(Len(u) - a) : SubSeq(u, a + 1, Len(u))[k] = u[a + k]
        BY <1>2, <3>1, SuffixLayout
      <4>2. Len(u) - a = Len(f)
        BY <2>1
      <4> QED BY ONLY <4>1, <4>2, Zenon
    <3>3. \A k \in 1..Len(f) : u[a + k] = f[k]
      <4> SUFFICES ASSUME NEW k \in 1..Len(f) PROVE u[a + k] = f[k]
        OBVIOUS
      <4>1. a + k \in 1..Len(u) /\ c + (a + k) = m + 1 + k
        BY <1>1, <1>2, <1>3, <2>1
      <4> QED BY <1>1, <1>5, <2>1, <4>1
    <3>4. f \in Seq(Piece \cup {"?"})
      BY <1>1
    <3> QED BY <3>2, <3>3, <3>4, SeqEqual
  <2>6. QueryParams(u) = Split(f)
    <3>1. a # 0
      BY <1>2, <2>1
    <3> QED BY ONLY <2>4, <2>5, <3>1, Zenon DEF QueryParams
  <2> QED BY <2>6 DEF U, u, f
<1> QED BY <1>1, <1>3, <1>4, <1>5

-----------------------------------------------------------------------------
(* Reading a span.  A read ends after m pieces of a stream S, the one      *)
(* before it after k; the span s of S holds the text t after o pieces.     *)
Text == Piece \cup {"?"}
Units == [span : {"url", "field", "value", "body"}, piece : Text \cup {"end"}]

\* Where a span lies in a stream.
SpanAt(S, s, o, t) ==
  /\ o + Len(t) + 1 <= Len(S)
  /\ \A i \in 1..(Len(t) + 1) :
       S[o + i].span = s /\ S[o + i].piece = IF i <= Len(t) THEN t[i] ELSE "end"
  /\ \A j \in 1..Len(S) : S[j].span = s => j \in (o + 1)..(o + Len(t) + 1)

\* A piece p of a span s.
Has(S, j, s, p) == S[j].span = s /\ S[j].piece = p

\* A span ends, with its separator, in the stream,
LEMMA SpanEnd ==
  ASSUME NEW S, NEW s, NEW o \in Nat, NEW t, Len(t) \in Nat, Len(S) \in Nat,
         SpanAt(S, s, o, t)
  PROVE  Len(S) > o + Len(t)
<1>1. o + Len(t) + 1 <= Len(S)
  BY DEF SpanAt
<1> QED BY ONLY o \in Nat, Len(t) \in Nat, Len(S) \in Nat, <1>1

\* and begins after o pieces of it.
LEMMA SpanPiece ==
  ASSUME NEW S, NEW s, NEW o \in Nat, NEW t, Len(t) \in Nat, SpanAt(S, s, o, t),
         NEW j \in 1..Len(t)
  PROVE  Has(S, o + j, s, t[j])
<1>1. j \in 1..(Len(t) + 1) /\ j <= Len(t)
  BY ONLY Len(t) \in Nat, j \in 1..Len(t)
<1> QED BY ONLY SpanAt(S, s, o, t), <1>1, Zenon DEF SpanAt, Has

\* The pieces of t that a stream has given after d pieces of the span.
Upto(d, t) == IF d < 0 THEN 0 ELSE IF d < Len(t) THEN d ELSE Len(t)

\* The pieces of t after c and up to d.
Slice(t, c, d) == SubSeq(t, c + 1, d)

\* It grows with d, up to the length of the text.
LEMMA UptoBounds ==
  ASSUME NEW t, Len(t) \in Nat, NEW d \in Int, NEW e \in Int, d <= e
  PROVE  /\ Upto(d, t) \in 0..Len(t) /\ Upto(e, t) \in 0..Len(t)
         /\ Upto(d, t) <= Upto(e, t)
BY DEF Upto

\* A read of the pieces after k and up to m.
IsRead(S, k, m, read) ==
  read \in Seq(Units) /\ Len(read) = m - k /\ \A i \in 1..(m - k) : read[i] = S[k + i]

\* A read meets a span when it ends in it or after it and begins before its end.
LEMMA InRead ==
  ASSUME NEW S, NEW s, NEW o \in Nat, NEW t \in Seq(Text), SpanAt(S, s, o, t),
         Len(S) \in Nat, NEW k \in Nat, NEW m \in Nat, k < m, m <= Len(S),
         NEW read, IsRead(S, k, m, read)
  PROVE  In(s, read) <=> m > o /\ k <= o + Len(t)
<1>1. Len(t) \in Nat /\ DOMAIN read = 1..(m - k)
  BY DEF IsRead
<1>2. ASSUME In(s, read)
      PROVE  m > o /\ k <= o + Len(t)
  <2>1. PICK i \in 1..(m - k) : S[k + i].span = s
    BY <1>1, <1>2 DEF In, IsRead
  <2>2. k + i \in 1..Len(S)
    OBVIOUS
  <2>3. k + i \in (o + 1)..(o + Len(t) + 1)
    BY <2>1, <2>2 DEF SpanAt
  <2> QED BY <1>1, <2>3
<1>3. ASSUME m > o, k <= o + Len(t)
      PROVE  In(s, read)
  <2> DEFINE j == IF k > o THEN k + 1 ELSE o + 1
  <2>1. j - k \in 1..(m - k) /\ j - o \in 1..(Len(t) + 1)
        /\ k + (j - k) = j /\ o + (j - o) = j
    BY <1>1, <1>3
  <2> HIDE DEF j
  <2>2. S[j].span = s
    BY SMTT(20), <2>1 DEF SpanAt
  <2>3. read[j - k] = S[j]
    BY <2>1 DEF IsRead
  <2> QED BY <1>1, <2>1, <2>2, <2>3 DEF In
<1> QED BY <1>2, <1>3

\* The callbacks are given the pieces of the text that the read holds.
LEMMA PartRead ==
  ASSUME NEW S, NEW s, NEW o \in Nat, NEW t \in Seq(Text), SpanAt(S, s, o, t),
         Len(S) \in Nat, NEW k \in Nat, NEW m \in Nat, k < m, m <= Len(S),
         NEW read, IsRead(S, k, m, read)
  PROVE  Part(s, read) = Slice(t, Upto(k - o, t), Upto(m - o, t))
<1> DEFINE lo == Upto(k - o, t)
           hi == Upto(m - o, t)
           mine == {i \in DOMAIN read : read[i].span = s /\ read[i].piece # "end"}
           part == IF mine = {} THEN <<>> ELSE SubSeq(read, Min(mine), Max(mine))
           want == SubSeq(t, lo + 1, hi)
<1>1. Len(t) \in Nat /\ DOMAIN read = 1..(m - k) /\ lo \in 0..Len(t) /\ hi \in 0..Len(t)
      /\ lo <= hi
  <2>1. Len(t) \in Nat /\ DOMAIN read = 1..(m - k)
    BY DEF IsRead
  <2>2. k - o \in Int /\ m - o \in Int /\ k - o <= m - o
    OBVIOUS
  <2> QED BY ONLY <2>1, <2>2, UptoBounds
<1>2. Part(s, read) = [i \in DOMAIN part |-> part[i].piece]
  BY DEF Part
<1>3. \A i \in 1..Len(t) : t[i] # "end"
  <2>1. "end" \notin Text
    BY RequestAssumption DEF Text, Piece, Word
  <2> QED BY <2>1
<1>4. ASSUME NEW i \in 1..(m - k)
      PROVE  i \in mine <=> k + i - o \in 1..Len(t)
  <2>1. k + i \in 1..Len(S) /\ read[i] = S[k + i] /\ i \in DOMAIN read
    BY <1>1 DEF IsRead
  <2>2. ASSUME k + i - o \in 1..Len(t)
        PROVE  i \in mine
    <3> DEFINE j == k + i - o
    <3>1. j \in 1..Len(t) /\ o + j = k + i
      BY <1>1, <2>2
    <3> HIDE DEF j
    <3>2. Has(S, o + j, s, t[j])
      <4>1. Len(t) \in Nat
        BY <1>1
      <4> QED BY ONLY o \in Nat, SpanAt(S, s, o, t), <3>1, <4>1, SpanPiece, Zenon
    <3>3. S[k + i].span = s /\ S[k + i].piece = t[j]
      BY ONLY <3>1, <3>2, Zenon DEF Has
    <3> QED BY <1>3, <2>1, <3>1, <3>3
  <2>3. ASSUME i \in mine
        PROVE  k + i - o \in 1..Len(t)
    <3>1. S[k + i].span = s /\ S[k + i].piece # "end"
      BY <2>1, <2>3
    <3>2. k + i \in (o + 1)..(o + Len(t) + 1)
      BY <2>1, <3>1 DEF SpanAt
    <3>3. k + i # o + Len(t) + 1
      <4>1. Len(t) + 1 \in 1..(Len(t) + 1) /\ ~(Len(t) + 1 <= Len(t))
            /\ o + (Len(t) + 1) = o + Len(t) + 1
        BY <1>1
      <4>2. S[o + Len(t) + 1].piece = "end"
        BY <4>1 DEF SpanAt
      <4> QED BY <3>1, <4>2
    <3> QED BY <1>1, <3>2, <3>3
  <2> QED BY <2>2, <2>3
<1>5. mine \subseteq 1..(m - k)
  BY <1>1
<1>6. /\ want \in Seq(Text) /\ Len(want) = hi - lo
      /\ \A j \in 1..(hi - lo) : want[j] = t[lo + j]
  <2>1. lo \in Nat /\ hi \in Nat /\ \A i \in (lo + 1)..hi : t[i] \in Text
    BY <1>1
  <2> HIDE DEF lo, hi
  <2>2. /\ want \in Seq(Text)
        /\ Len(want) = IF lo + 1 <= hi THEN hi - (lo + 1) + 1 ELSE 0
        /\ \A j \in 1..(hi - (lo + 1) + 1) : want[j] = t[lo + 1 + j - 1]
    BY <2>1, SubSeqProperties
  <2> HIDE DEF want
  <2>3. hi - (lo + 1) + 1 = hi - lo /\ \A j \in 1..(hi - lo) : lo + 1 + j - 1 = lo + j
    BY <2>1
  <2> QED BY <1>1, <2>1, <2>2, <2>3
<1>7. CASE lo = hi
  <2>1. mine = {}
    <3>1. \A i \in 1..(m - k) : ~(k + i - o \in 1..Len(t))
      BY <1>1, <1>7 DEF Upto
    <3> HIDE DEF mine
    <3> QED BY <1>4, <1>5, <3>1
  <2>2. Part(s, read) = <<>>
    BY <1>2, <2>1
  <2>3. want = <<>>
    BY <1>1, <1>6, <1>7
  <2> QED BY <2>2, <2>3 DEF Slice
<1>8. CASE lo # hi
  <2> DEFINE a == lo + 1 + o - k
             b == hi + o - k
  <2>1. a \in 1..(m - k) /\ b \in 1..(m - k) /\ a <= b /\ b - a + 1 = hi - lo
    BY <1>1, <1>8 DEF Upto
  <2>2. \A i \in 1..(m - k) : i \in mine <=> a <= i /\ i <= b
    <3> SUFFICES ASSUME NEW i \in 1..(m - k) PROVE i \in mine <=> a <= i /\ i <= b
      OBVIOUS
    <3>1. k + i - o \in 1..Len(t) <=> a <= i /\ i <= b
      BY <1>1, <1>8 DEF Upto
    <3> QED BY <1>4, <3>1
  <2> HIDE DEF mine, a, b, lo, hi
  <2>3. mine # {} /\ Min(mine) = a /\ Max(mine) = b
    <3>1. a \in mine /\ b \in mine
      BY <2>1, <2>2
    <3>2. mine \subseteq Nat /\ \A i \in mine : a <= i /\ i <= b
      BY <1>5, <2>2
    <3>3. Min(mine) = a
      BY <3>1, <3>2, MinIs
    <3>4. Max(mine) = b
      BY <3>1, <3>2, MaxIs
    <3> QED BY <3>1, <3>3, <3>4
  <2>4. part = SubSeq(read, a, b)
    BY <2>3
  <2>5. /\ part \in Seq(Units) /\ Len(part) = hi - lo
        /\ \A j \in 1..(hi - lo) : part[j] = read[a + j - 1]
    <3>1. \A i \in a..b : read[i] \in Units
      BY SMTT(20), <1>1, <2>1 DEF IsRead
    <3>2. /\ SubSeq(read, a, b) \in Seq(Units)
          /\ Len(SubSeq(read, a, b)) = IF a <= b THEN b - a + 1 ELSE 0
          /\ \A j \in 1..(b - a + 1) : SubSeq(read, a, b)[j] = read[a + j - 1]
      BY <2>1, <3>1, SubSeqProperties
    <3> QED BY <2>1, <2>4, <3>2
  <2> HIDE DEF part, want
  <2>6. \A j \in 1..(hi - lo) : part[j].piece = want[j]
    <3> SUFFICES ASSUME NEW j \in 1..(hi - lo) PROVE part[j].piece = want[j]
      OBVIOUS
    <3>1. /\ a + j - 1 \in 1..(m - k) /\ k + (a + j - 1) = o + (lo + j)
          /\ lo + j \in 1..Len(t) /\ lo + j \in 1..(Len(t) + 1)
      BY <1>1, <2>1 DEF a, b
    <3>2. read[a + j - 1] = S[o + (lo + j)]
      BY <3>1 DEF IsRead
    <3>3. S[o + (lo + j)].piece = t[lo + j]
      BY SMTT(20), <3>1 DEF SpanAt
    <3> QED BY <1>6, <2>5, <3>2, <3>3
  <2>7. DOMAIN part = 1..(hi - lo) /\ DOMAIN want = 1..(hi - lo)
    BY <1>1, <1>6, <2>5
  <2>8. want = [j \in 1..(hi - lo) |-> want[j]]
    BY <1>6, <2>7
  <2>9. Part(s, read) = want
    BY ONLY <1>2, <2>6, <2>7, <2>8
  <2> QED BY <2>9 DEF want, lo, hi, Slice
<1> QED BY <1>7, <1>8

\* What a field x of the session holds of a span: the pieces since the read
\* that began in it; c of them are lost, which cut C records.
Held(s, o, t, x, k, C) ==
  /\ \E c \in 0..Upto(k - o, t) :
       x = Slice(t, c, Upto(k - o, t)) /\ (c # 0 => s \in C)
  /\ o < k /\ k <= o + Len(t) => s \in C

\* Nothing is held before the first read,
LEMMA HeldNothing ==
  ASSUME NEW s, NEW o \in Nat, NEW t \in Seq(Text), NEW C
  PROVE  Held(s, o, t, <<>>, 0, C)
<1>1. Upto(0 - o, t) = 0
  BY DEF Upto
<1>2. Slice(t, 0, 0) = <<>>
  BY SubSeqEmpty DEF Slice
<1> QED BY <1>1, <1>2 DEF Held

\* and after the span the whole text, but for what a cut has lost.
LEMMA HeldAfter ==
  ASSUME NEW s, NEW o \in Nat, NEW t \in Seq(Text), NEW C, NEW k \in Nat, NEW x,
         k > o + Len(t), Held(s, o, t, x, k, C)
  PROVE  \E c \in 0..Len(t) : x = Slice(t, c, Len(t)) /\ (c # 0 => s \in C)
<1>1. Upto(k - o, t) = Len(t)
  BY DEF Upto
<1> QED BY <1>1 DEF Held

\* A read gives a field its part, or leaves the field as it was.
LEMMA HeldRead ==
  ASSUME NEW S, NEW s, NEW o \in Nat, NEW t \in Seq(Text), SpanAt(S, s, o, t),
         Len(S) \in Nat, NEW k \in Nat, NEW m \in Nat, k < m, m <= Len(S),
         NEW read, IsRead(S, k, m, read),
         NEW rest, IsRead(S, m, Len(S), rest),
         NEW x, NEW C, Held(s, o, t, x, k, C),
         NEW D, C \subseteq D, In(s, read) /\ In(s, rest) => s \in D
  PROVE  Held(s, o, t, Assign(x, s, read), m, D)
<1> DEFINE lo == Upto(k - o, t)
           hi == Upto(m - o, t)
           y == IF In(s, read) THEN Part(s, read) ELSE x
<1>1. Len(t) \in Nat /\ (In(s, read) <=> m > o /\ k <= o + Len(t))
  BY InRead
<1>2. Part(s, read) = Slice(t, lo, hi)
  BY PartRead
<1>3. lo \in 0..Len(t) /\ hi \in 0..Len(t) /\ lo <= hi
  <2>1. k - o \in Int /\ m - o \in Int /\ k - o <= m - o
    OBVIOUS
  <2> QED BY ONLY <1>1, <2>1, UptoBounds
<1>4. PICK c \in 0..lo : x = Slice(t, c, lo) /\ (c # 0 => s \in C)
  BY DEF Held
<1>5. ASSUME o < m, m <= o + Len(t)
      PROVE  s \in D
  <2>1. CASE k > o
    BY <1>1, <1>5, <2>1 DEF Held
  <2>2. CASE ~(k > o)
    <3>1. In(s, read)
      BY <1>1, <1>5, <2>2
    <3>2. In(s, rest)
      <4>1. m < Len(S)
        BY <1>1, <1>5 DEF SpanAt
      <4> QED BY <1>1, <1>5, <4>1, InRead
    <3> QED BY <3>1, <3>2
  <2> QED BY <2>1, <2>2
<1>6. CASE In(s, read)
  <2>1. y = Slice(t, lo, hi) /\ lo \in 0..hi
    <3>1. y = Part(s, read)
      BY <1>6
    <3> HIDE DEF lo, hi, y
    <3> QED BY <1>2, <1>3, <3>1
  <2>2. lo # 0 => s \in D
    <3>1. lo # 0 => o < k /\ k <= o + Len(t)
      BY <1>1, <1>6 DEF Upto
    <3> QED BY <3>1 DEF Held
  <2>3. \E d \in 0..hi : y = Slice(t, d, hi) /\ (d # 0 => s \in D)
    BY <2>1, <2>2
  <2> HIDE DEF y
  <2>4. Assign(x, s, read) = y
    BY DEF y, Assign
  <2>5. Held(s, o, t, y, m, D)
    BY <1>5, <2>3 DEF Held
  <2> QED BY ONLY <2>4, <2>5, Zenon
<1>7. CASE ~In(s, read)
  <2>1. hi = lo
    BY <1>1, <1>7 DEF Upto
  <2>2. y = Slice(t, c, hi) /\ c \in 0..hi /\ (c # 0 => s \in D)
    BY <1>4, <1>7, <2>1
  <2> HIDE DEF y
  <2>3. Assign(x, s, read) = y
    BY DEF y, Assign
  <2>4. Held(s, o, t, y, m, D)
    BY <1>5, <2>2 DEF Held
  <2> QED BY ONLY <2>3, <2>4, Zenon
<1> QED BY <1>6, <1>7

\* The body is appended to: nothing of it is lost.
LEMMA BodyRead ==
  ASSUME NEW S, NEW s, NEW o \in Nat, NEW t \in Seq(Text), SpanAt(S, s, o, t),
         Len(S) \in Nat, NEW k \in Nat, NEW m \in Nat, k < m, m <= Len(S),
         NEW read, IsRead(S, k, m, read)
  PROVE  Cat(Slice(t, 0, Upto(k - o, t)), Part(s, read)) = Slice(t, 0, Upto(m - o, t))
<1> DEFINE lo == Upto(k - o, t)
           hi == Upto(m - o, t)
<1>1. Part(s, read) = Slice(t, lo, hi)
  BY PartRead
<1>2. lo \in 0..Len(t) /\ hi \in 0..Len(t) /\ lo <= hi /\ Len(t) \in Nat
  <2>1. k - o \in Int /\ m - o \in Int /\ k - o <= m - o /\ Len(t) \in Nat
    OBVIOUS
  <2> QED BY ONLY <2>1, UptoBounds
<1> HIDE DEF lo, hi
<1>3. 1 \in 1..(Len(t) + 1) /\ lo \in (1 - 1)..Len(t) /\ hi \in lo..Len(t)
  BY <1>2
<1>4. Slice(t, 0, lo) \o Slice(t, lo, hi) = Slice(t, 0, hi)
  <2>1. SubSeq(t, 1, lo) \o SubSeq(t, lo + 1, hi) = SubSeq(t, 1, hi)
    BY <1>3, ConcatAdjacentSubSeq
  <2>2. 0 + 1 = 1
    OBVIOUS
  <2> QED BY ONLY <2>1, <2>2, Zenon DEF Slice
<1> QED BY ONLY <1>1, <1>4, Zenon DEF lo, hi, Cat

\* The next read and what it leaves, of what was left by the one before.
LEMMA ReadRest ==
  ASSUME NEW S, Len(S) \in Nat, NEW k \in 0..Len(S),
         NEW left, IsRead(S, k, Len(S), left), NEW n \in 1..Len(left)
  PROVE  /\ k + n \in Nat /\ k < k + n /\ k + n <= Len(S)
         /\ IsRead(S, k, k + n, SubSeq(left, 1, n))
         /\ IsRead(S, k + n, Len(S), SubSeq(left, n + 1, Len(left)))
<1>1. /\ left \in Seq(Units) /\ Len(left) = Len(S) - k
      /\ \A i \in 1..(Len(S) - k) : left[i] = S[k + i]
  BY DEF IsRead
<1>2. k + n \in Nat /\ k < k + n /\ k + n <= Len(S) /\ k + n - k = n
      /\ Len(left) \in Nat /\ n \in Nat /\ n <= Len(left) /\ n \in 0..Len(left)
      /\ Len(S) - (k + n) = Len(left) - n
  BY <1>1
<1>3. IsRead(S, k, k + n, SubSeq(left, 1, n))
  <2>1. \A i \in 1..n : left[i] \in Units
    BY <1>1, <1>2
  <2>2. /\ SubSeq(left, 1, n) \in Seq(Units)
        /\ Len(SubSeq(left, 1, n)) = IF 1 <= n THEN n - 1 + 1 ELSE 0
        /\ \A i \in 1..(n - 1 + 1) : SubSeq(left, 1, n)[i] = left[1 + i - 1]
    BY <1>2, <2>1, SubSeqProperties
  <2>3. Len(SubSeq(left, 1, n)) = n /\ \A i \in 1..n : SubSeq(left, 1, n)[i] = left[i]
    BY <1>2, <2>2
  <2>4. \A i \in 1..n : left[i] = S[k + i]
    BY <1>1, <1>2
  <2> QED BY <1>2, <2>2, <2>3, <2>4 DEF IsRead
<1>4. IsRead(S, k + n, Len(S), SubSeq(left, n + 1, Len(left)))
  <2>1. /\ SubSeq(left, n + 1, Len(left)) \in Seq(Units)
        /\ Len(SubSeq(left, n + 1, Len(left))) = Len(left) - n
        /\ \A i \in 1..(Len(left) - n) : SubSeq(left, n + 1, Len(left))[i] = left[n + i]
    BY <1>1, <1>2, SuffixLayout
  <2>2. \A i \in 1..(Len(left) - n) : left[n + i] = S[k + n + i]
    <3> SUFFICES ASSUME NEW i \in 1..(Len(left) - n) PROVE left[n + i] = S[k + n + i]
      OBVIOUS
    <3>1. n + i \in 1..(Len(S) - k) /\ k + (n + i) = k + n + i
      BY <1>1, <1>2
    <3> QED BY <1>1, <3>1
  <2> QED BY <1>2, <2>1, <2>2 DEF IsRead
<1> QED BY <1>2, <1>3, <1>4

-----------------------------------------------------------------------------
(* Where the spans of a request lie in what the client sends.              *)
Kinds(S) == {S[j].span : j \in DOMAIN S}

\* A span holds its text, and nothing of another kind.
LEMMA SpanText ==
  ASSUME NEW s \in {"url", "field", "value", "body"}, NEW t \in Seq(Text)
  PROVE  /\ Span(s, t) \in Seq(Units) /\ Len(Span(s, t)) = Len(t) + 1
         /\ Kinds(Span(s, t)) = {s} /\ SpanAt(Span(s, t), s, 0, t)
<1> DEFINE e(i) == [span |-> s, piece |-> IF i <= Len(t) THEN t[i] ELSE "end"]
           S == Span(s, t)
           n == Len(t) + 1
<1>1. Len(t) \in Nat
  OBVIOUS
<1>2. \A i \in 1..n : e(i) \in Units
  BY <1>1 DEF Units
<1>3. S = [i \in 1..n |-> e(i)]
  BY DEF Span
<1>4. \A i : e(i).span = s /\ e(i).piece = IF i <= Len(t) THEN t[i] ELSE "end"
  OBVIOUS
<1> HIDE DEF e, S
<1>5. S \in [1..n -> Units] /\ n \in Nat
  BY <1>1, <1>2, <1>3
<1>6. S \in Seq(Units) /\ Len(S) = n /\ DOMAIN S = 1..n
  BY <1>5
<1>7. \A i \in 1..n : S[i] = e(i)
  BY <1>3
<1>8. Kinds(S) = {s}
  <2>1. 1 \in DOMAIN S
    BY <1>5, <1>6
  <2> QED BY <1>4, <1>6, <1>7, <2>1 DEF Kinds
<1>9. SpanAt(S, s, 0, t)
  <2>1. 0 + Len(t) + 1 = n /\ 0 + 1 = 1 /\ \A i \in 1..n : 0 + i = i
    BY <1>1
  <2>2. \A i \in 1..n :
          S[0 + i].span = s /\ S[0 + i].piece = IF i <= Len(t) THEN t[i] ELSE "end"
    BY <1>4, <1>7, <2>1
  <2>3. 0 + Len(t) + 1 <= Len(S) /\ 1..Len(S) = (0 + 1)..(0 + Len(t) + 1)
    BY <1>1, <1>6, <2>1
  <2> QED BY <2>2, <2>3 DEF SpanAt
<1> QED BY <1>6, <1>8, <1>9 DEF S

\* The kinds of two streams one after the other.
LEMMA KindsConcat ==
  ASSUME NEW S \in Seq(Units), NEW T \in Seq(Units)
  PROVE  /\ S \o T \in Seq(Units) /\ Len(S \o T) = Len(S) + Len(T)
         /\ Kinds(S \o T) = Kinds(S) \cup Kinds(T)
<1> DEFINE U == S \o T
<1>1. /\ U \in Seq(Units) /\ Len(S) \in Nat /\ Len(T) \in Nat
      /\ Len(U) = Len(S) + Len(T)
      /\ \A i \in 1..Len(S) : U[i] = S[i]
      /\ \A i \in 1..Len(T) : U[Len(S) + i] = T[i]
  BY Concat
<1> HIDE DEF U
<1>2. DOMAIN S = 1..Len(S) /\ DOMAIN T = 1..Len(T) /\ DOMAIN U = 1..Len(U)
  BY <1>1
<1>3. ASSUME NEW i \in 1..Len(U)
      PROVE  U[i].span \in Kinds(S) \cup Kinds(T)
  <2>1. CASE i \in 1..Len(S)
    BY <1>1, <1>2, <2>1 DEF Kinds
  <2>2. CASE i \notin 1..Len(S)
    <3>1. i - Len(S) \in 1..Len(T) /\ Len(S) + (i - Len(S)) = i
      BY <1>1, <2>2
    <3>2. U[i] = T[i - Len(S)]
      BY <1>1, <3>1
    <3> QED BY <1>2, <3>1, <3>2 DEF Kinds
  <2> QED BY <2>1, <2>2
<1>4. ASSUME NEW i \in 1..Len(S)
      PROVE  S[i].span \in Kinds(U)
  <2>1. i \in 1..Len(U)
    BY <1>1
  <2> QED BY <1>1, <1>2, <2>1 DEF Kinds
<1>5. ASSUME NEW i \in 1..Len(T)
      PROVE  T[i].span \in Kinds(U)
  <2>1. Len(S) + i \in 1..Len(U)
    BY <1>1
  <2> QED BY <1>1, <1>2, <2>1 DEF Kinds
<1>6. Kinds(U) = Kinds(S) \cup Kinds(T)
  BY <1>2, <1>3, <1>4, <1>5 DEF Kinds
<1> QED BY <1>1, <1>6 DEF U

\* A span stays where it is when others follow, and moves when others precede.
LEMMA SpanConcat ==
  ASSUME NEW S \in Seq(Units), NEW T \in Seq(Units), NEW s, NEW o \in Nat,
         NEW t \in Seq(Text)
  PROVE  /\ SpanAt(S, s, o, t) /\ s \notin Kinds(T) => SpanAt(S \o T, s, o, t)
         /\ SpanAt(T, s, o, t) /\ s \notin Kinds(S) => SpanAt(S \o T, s, Len(S) + o, t)
<1> DEFINE U == S \o T
           n == Len(t) + 1
<1>1. /\ U \in Seq(Units) /\ Len(S) \in Nat /\ Len(T) \in Nat
      /\ Len(U) = Len(S) + Len(T)
      /\ \A i \in 1..Len(S) : U[i] = S[i]
      /\ \A i \in 1..Len(T) : U[Len(S) + i] = T[i]
  BY Concat
<1> HIDE DEF U
<1>2. Len(t) \in Nat /\ DOMAIN S = 1..Len(S) /\ DOMAIN T = 1..Len(T)
  OBVIOUS
<1>3. ASSUME SpanAt(S, s, o, t), s \notin Kinds(T)
      PROVE  SpanAt(U, s, o, t)
  <2>1. o + n <= Len(S) /\ o + Len(t) + 1 = o + n
    BY <1>2, <1>3 DEF SpanAt
  <2>2. ASSUME NEW i \in 1..n
        PROVE  U[o + i].span = s /\ U[o + i].piece = IF i <= Len(t) THEN t[i] ELSE "end"
    <3>1. o + i \in 1..Len(S)
      BY <1>1, <1>2, <2>1
    <3>2. U[o + i] = S[o + i]
      BY <1>1, <3>1
    <3> QED BY <1>3, <3>2 DEF SpanAt
  <2>3. ASSUME NEW j \in 1..Len(U), U[j].span = s
        PROVE  j \in (o + 1)..(o + Len(t) + 1)
    <3>1. CASE j \in 1..Len(S)
      BY <1>1, <1>3, <2>3, <3>1 DEF SpanAt
    <3>2. CASE j \notin 1..Len(S)
      <4>1. j - Len(S) \in 1..Len(T) /\ Len(S) + (j - Len(S)) = j
        BY <1>1, <3>2
      <4>2. U[j] = T[j - Len(S)]
        BY <1>1, <4>1
      <4> QED BY <1>2, <1>3, <2>3, <4>1, <4>2 DEF Kinds
    <3> QED BY <3>1, <3>2
  <2>4. o + Len(t) + 1 <= Len(U)
    BY <1>1, <1>2, <2>1
  <2> QED BY <2>2, <2>3, <2>4 DEF SpanAt
<1>4. ASSUME SpanAt(T, s, o, t), s \notin Kinds(S)
      PROVE  SpanAt(U, s, Len(S) + o, t)
  <2>1. o + n <= Len(T) /\ o + Len(t) + 1 = o + n
    BY <1>2, <1>4 DEF SpanAt
  <2>2. ASSUME NEW i \in 1..n
        PROVE  /\ U[Len(S) + o + i].span = s
               /\ U[Len(S) + o + i].piece = IF i <= Len(t) THEN t[i] ELSE "end"
    <3>1. o + i \in 1..Len(T) /\ Len(S) + o + i = Len(S) + (o + i)
      BY <1>1, <1>2, <2>1
    <3>2. U[Len(S) + o + i] = T[o + i]
      BY <1>1, <3>1
    <3> QED BY <1>4, <3>2 DEF SpanAt
  <2>3. ASSUME NEW j \in 1..Len(U), U[j].span = s
        PROVE  j \in (Len(S) + o + 1)..(Len(S) + o + Len(t) + 1)
    <3>1. CASE j \in 1..Len(S)
      BY <1>1, <1>2, <1>4, <2>3, <3>1 DEF Kinds
    <3>2. CASE j \notin 1..Len(S)
      <4>1. j - Len(S) \in 1..Len(T) /\ Len(S) + (j - Len(S)) = j
        BY <1>1, <3>2
      <4>2. U[j] = T[j - Len(S)]
        BY <1>1, <4>1
      <4>3. j - Len(S) \in (o + 1)..(o + Len(t) + 1)
        BY <1>4, <2>3, <4>1, <4>2 DEF SpanAt
      <4> QED BY <1>1, <1>2, <4>1, <4>3
    <3> QED BY <3>1, <3>2
  <2>4. Len(S) + o + Len(t) + 1 <= Len(U)
    BY <1>1, <1>2, <2>1
  <2> QED BY <2>2, <2>3, <2>4 DEF SpanAt
<1> QED BY <1>3, <1>4 DEF U

\* Three pieces in a row.
LEMMA Triple ==
  ASSUME NEW X, NEW a \in X, NEW b \in X, NEW c \in X
  PROVE  <<a, b, c>> \in Seq(X)
OBVIOUS

\* JSON is made of the pieces of its format, and is never empty.
LEMMA JsonPieces ==
  ASSUME NEW ps \in Pairs
  PROVE  JsonText(ps) \in Seq(Text) /\ JsonText(ps) # <<>>
<1> DEFINE head(i) == <<"{", ps[i].name, ":">>
           S == [i \in DOMAIN ps |-> head(i) \o ps[i].value]
           last == <<"}">>
<1>1. ps \in Seq(Pair) /\ Len(ps) \in Nat /\ DOMAIN ps = 1..Len(ps)
  BY DEF Pairs
<1>2. last \in Seq(Text) /\ Len(last) = 1
  BY DEF Text, Piece
<1>3. FlattenSeq(S) \in Seq(Text)
  <2>1. ASSUME NEW i \in 1..Len(ps)
        PROVE  S[i] \in Seq(Text)
    <3>1. ps[i].name \in Text /\ ps[i].value \in Seq(Text)
      <4>1. ps[i].name \in Letters /\ ps[i].value \in Seq(Word)
        BY <1>1 DEF Pair
      <4>2. Letters \subseteq Text /\ Word \subseteq Text
        BY DEF Text, Piece, Word
      <4> QED BY <4>1, <4>2
    <3>2. head(i) \in Seq(Text)
      <4>1. "{" \in Text /\ ":" \in Text
        BY DEF Text, Piece
      <4> QED BY ONLY <3>1, <4>1, Triple
    <3>3. S[i] = head(i) \o ps[i].value
      BY <1>1
    <3> HIDE DEF head, S
    <3>4. head(i) \o ps[i].value \in Seq(Text)
      BY ONLY <3>1, <3>2, Concat
    <3> QED BY <3>3, <3>4
  <2>2. S = [i \in 1..Len(ps) |-> S[i]]
    BY <1>1
  <2> HIDE DEF S
  <2>3. S \in Seq(Seq(Text)) /\ Len(S) = Len(ps)
    BY <1>1, <2>1, <2>2
  <2>4. CASE Len(S) = 0
    <3>1. S = <<>>
      BY <2>3, <2>4
    <3>2. FlattenSeq(<<>>) = <<>> /\ <<>> \in Seq(Text)
      BY DEF FlattenSeq
    <3> QED BY ONLY <3>1, <3>2, Zenon
  <2>5. CASE Len(S) # 0
    BY <2>3, <2>5, FlattenLayout
  <2> QED BY <2>4, <2>5
<1>4. JsonText(ps) = FlattenSeq(S) \o last
  BY DEF JsonText
<1> HIDE DEF S, last
<1>5. /\ FlattenSeq(S) \o last \in Seq(Text) /\ Len(FlattenSeq(S)) \in Nat
      /\ Len(FlattenSeq(S) \o last) = Len(FlattenSeq(S)) + 1
  BY <1>2, <1>3, Concat
<1> DEFINE T == FlattenSeq(S) \o last
<1>6. T # <<>>
  <2> HIDE DEF T
  <2>1. Len(T) # 0
    BY <1>5 DEF T
  <2> QED BY <2>1
<1> QED BY ONLY <1>4, <1>5, <1>6, Zenon

\* The texts of a request.
LEMMA Texts ==
  ASSUME NEW r \in Requests
  PROVE  /\ UrlText(r) \in Seq(Text) /\ r.header \in Seq(Text) /\ r.type \in Seq(Text)
         /\ BodyText(r) \in Seq(Text)
<1>1. r.header \in Seq(Letters) /\ r.type \in Seq(Letters) /\ r.post \in Pairs
  BY DEF Requests
<1>2. Letters \subseteq Text /\ Piece \subseteq Text
  BY DEF Text, Piece, Word
<1>3. UrlText(r) \in Seq(Text)
  BY UrlLayout DEF Text
<1>4. JsonText(r.post) \in Seq(Text) /\ FormText(r.post) \in Seq(Piece)
  BY <1>1, JsonPieces, FormPieces
<1> QED BY <1>1, <1>2, <1>3, <1>4 DEF BodyText

\* Where the header's name, its value and the body begin.
OffField(r) == Len(UrlText(r)) + 1
OffValue(r) == OffField(r) + (Len(r.header) + 1)
OffBody(r) ==
  IF r.type = <<>> THEN OffField(r)
  ELSE OffField(r) + ((Len(r.header) + 1) + (Len(r.type) + 1))

\* The spans of a request in the order llhttp meets them (main.cpp:106-149).
LEMMA StreamLayout ==
  ASSUME NEW r \in Requests
  PROVE  LET S == Stream(r) IN
         /\ S \in Seq(Units) /\ Len(S) = OffBody(r) + (Len(BodyText(r)) + 1)
         /\ OffField(r) \in Nat /\ OffValue(r) \in Nat /\ OffBody(r) \in Nat
         /\ SpanAt(S, "url", 0, UrlText(r)) /\ SpanAt(S, "body", OffBody(r), BodyText(r))
         /\ r.type # <<>> => /\ SpanAt(S, "field", OffField(r), r.header)
                             /\ SpanAt(S, "value", OffValue(r), r.type)
         /\ r.type = <<>> => Kinds(S) \subseteq {"url", "body"}
<1> DEFINE S == Stream(r)
           A == Span("url", UrlText(r))
           F == Span("field", r.header)
           V == Span("value", r.type)
           B == Span("body", BodyText(r))
           H == F \o V
           T == A \o H
<1>1. /\ UrlText(r) \in Seq(Text) /\ r.header \in Seq(Text) /\ r.type \in Seq(Text)
      /\ BodyText(r) \in Seq(Text)
  BY Texts
<1>2. /\ Len(UrlText(r)) \in Nat /\ Len(r.header) \in Nat /\ Len(r.type) \in Nat
      /\ Len(BodyText(r)) \in Nat
  BY <1>1
<1>3. OffField(r) \in Nat /\ OffValue(r) \in Nat /\ OffBody(r) \in Nat
  <2>1. OffField(r) \in Nat
    BY ONLY <1>2 DEF OffField
  <2>2. OffValue(r) \in Nat
    BY ONLY <1>2, <2>1 DEF OffValue
  <2>3. OffField(r) + ((Len(r.header) + 1) + (Len(r.type) + 1)) \in Nat
    <3>1. \A a, h, v \in Nat : a + ((h + 1) + (v + 1)) \in Nat
      OBVIOUS
    <3> QED BY ONLY <1>2, <2>1, <3>1
  <2> QED BY ONLY <2>1, <2>2, <2>3, Zenon DEF OffBody
<1>4. /\ A \in Seq(Units) /\ Len(A) = OffField(r) /\ Kinds(A) = {"url"}
      /\ SpanAt(A, "url", 0, UrlText(r))
  BY <1>1, SpanText DEF OffField
<1>5. /\ F \in Seq(Units) /\ Len(F) = Len(r.header) + 1 /\ Kinds(F) = {"field"}
      /\ SpanAt(F, "field", 0, r.header)
  BY <1>1, SpanText
<1>6. /\ V \in Seq(Units) /\ Len(V) = Len(r.type) + 1 /\ Kinds(V) = {"value"}
      /\ SpanAt(V, "value", 0, r.type)
  BY <1>1, SpanText
<1>7. /\ B \in Seq(Units) /\ Len(B) = Len(BodyText(r)) + 1 /\ Kinds(B) = {"body"}
      /\ SpanAt(B, "body", 0, BodyText(r))
  BY <1>1, SpanText
<1>8. S = (A \o (IF r.type = <<>> THEN <<>> ELSE H)) \o B
  BY DEF Stream
<1>9. CASE r.type = <<>>
  <2>1. S = A \o B
    <3>1. A \o <<>> = A
      BY <1>4, ConcatEmptySeq
    <3> HIDE DEF A, B, S
    <3> QED BY <1>8, <1>9, <3>1
  <2> HIDE DEF S, A, F, V, B
  <2>2. /\ S \in Seq(Units) /\ Len(S) = Len(A) + Len(B)
        /\ Kinds(S) = {"url"} \cup {"body"}
    BY <1>4, <1>7, <2>1, KindsConcat
  <2>3. SpanAt(S, "url", 0, UrlText(r)) /\ SpanAt(S, "body", Len(A) + 0, BodyText(r))
    BY <1>1, <1>4, <1>7, <2>1, SpanConcat
  <2>4. Len(A) + 0 = OffBody(r) /\ Len(S) = OffBody(r) + (Len(BodyText(r)) + 1)
    BY <1>2, <1>3, <1>4, <1>7, <1>9, <2>2 DEF OffBody
  <2>5. SpanAt(S, "body", OffBody(r), BodyText(r))
    BY ONLY <2>3, <2>4, Zenon
  <2> QED BY <1>3, <1>9, <2>2, <2>3, <2>4, <2>5 DEF S
<1>10. CASE r.type # <<>>
  <2> HIDE DEF A, F, V, B
  <2>1. /\ H \in Seq(Units) /\ Len(H) = Len(F) + Len(V)
        /\ Kinds(H) = {"field"} \cup {"value"}
        /\ SpanAt(H, "field", 0, r.header) /\ SpanAt(H, "value", Len(F) + 0, r.type)
    BY <1>1, <1>5, <1>6, KindsConcat, SpanConcat
  <2>2. Len(F) \in Nat /\ Len(F) + 0 \in Nat /\ Len(V) \in Nat /\ Len(A) \in Nat
    BY <1>4, <1>5, <1>6
  <2> HIDE DEF H
  <2>3. /\ T \in Seq(Units) /\ Len(T) = Len(A) + Len(H)
        /\ Kinds(T) = {"url"} \cup Kinds(H)
    BY <1>4, <2>1, KindsConcat
  <2>4. /\ SpanAt(T, "url", 0, UrlText(r)) /\ SpanAt(T, "field", Len(A) + 0, r.header)
        /\ SpanAt(T, "value", Len(A) + (Len(F) + 0), r.type)
    BY <1>1, <1>4, <2>1, <2>2, SpanConcat
  <2>5. Len(A) + 0 \in Nat /\ Len(A) + (Len(F) + 0) \in Nat
    BY <2>2
  <2>6. S = T \o B
    BY <1>8, <1>10
  <2> HIDE DEF T, S
  <2>7. /\ S \in Seq(Units) /\ Len(S) = Len(T) + Len(B)
    BY <1>7, <2>3, <2>6, KindsConcat
  <2>8. "body" \notin Kinds(T) /\ {"url", "field", "value"} \cap Kinds(B) = {}
    BY <1>7, <2>1, <2>3
  <2>9. /\ SpanAt(S, "url", 0, UrlText(r)) /\ SpanAt(S, "field", Len(A) + 0, r.header)
        /\ SpanAt(S, "value", Len(A) + (Len(F) + 0), r.type)
        /\ SpanAt(S, "body", Len(T) + 0, BodyText(r))
    BY <1>1, <1>7, <2>3, <2>4, <2>5, <2>6, <2>8, SpanConcat
  <2>10. /\ Len(A) + 0 = OffField(r) /\ Len(A) + (Len(F) + 0) = OffValue(r)
         /\ Len(T) + 0 = OffBody(r)
    <3>1. /\ Len(A) = OffField(r) /\ Len(F) = Len(r.header) + 1
          /\ Len(V) = Len(r.type) + 1
      BY <1>4, <1>5, <1>6
    <3>2. Len(A) + 0 = Len(A) /\ Len(F) + 0 = Len(F)
      BY <2>2
    <3>3. OffBody(r) = Len(A) + (Len(F) + Len(V)) /\ OffValue(r) = Len(A) + Len(F)
      BY ONLY <1>10, <3>1, Zenon DEF OffBody, OffValue
    <3>4. Len(T) = OffBody(r)
      BY ONLY <2>1, <2>3, <3>3, Zenon
    <3>5. Len(T) + 0 = Len(T)
      BY ONLY <1>3, <3>4
    <3> QED BY ONLY <3>1, <3>2, <3>3, <3>4, <3>5, Zenon
  <2>11. Len(S) = OffBody(r) + (Len(BodyText(r)) + 1)
    <3>1. Len(T) = OffBody(r)
      <4>1. Len(T) \in Nat
        BY <2>3
      <4>2. Len(T) + 0 = Len(T)
        BY <4>1
      <4> QED BY ONLY <2>10, <4>2, Zenon
    <3> QED BY ONLY <1>7, <2>7, <3>1, Zenon
  <2>12. /\ SpanAt(S, "field", OffField(r), r.header)
         /\ SpanAt(S, "value", OffValue(r), r.type)
         /\ SpanAt(S, "body", OffBody(r), BodyText(r))
    BY ONLY <2>9, <2>10, Zenon
  <2> QED BY <1>3, <1>10, <2>7, <2>9, <2>11, <2>12 DEF S
<1> QED BY <1>9, <1>10

-----------------------------------------------------------------------------
(* What the session holds of a request r when left of it is not read.      *)

\* A header map of one name.
One(f, x) == [g \in {f} |-> x]

\* The name and the value of the header; the map gets both when a part of the
\* value is read.
HeadersHeld(r, k, f, h, C) ==
  IF r.type = <<>> THEN f = <<>> /\ h = <<>>
  ELSE /\ Held("field", OffField(r), r.header, f, k, C)
       /\ \E x : /\ Held("value", OffValue(r), r.type, x, k, C)
                 /\ h = IF k <= OffValue(r) THEN <<>> ELSE One(f, x)

\* The URL, the header and the body, after the pieces of r that are not left.
Partly(r, left, u, f, h, b, C) ==
  LET S == Stream(r) k == Len(S) - Len(left) t == BodyText(r) IN
  /\ k \in 0..Len(S) /\ IsRead(S, k, Len(S), left)
  /\ Held("url", 0, UrlText(r), u, k, C)
  /\ HeadersHeld(r, k, f, h, C)
  /\ b = Slice(t, 0, Upto(k - OffBody(r), t))

\* A request that was just sent: nothing is read, something is left.
LEMMA PartlySend ==
  ASSUME NEW r \in Requests, NEW C
  PROVE  /\ Partly(r, Stream(r), <<>>, <<>>, <<>>, <<>>, C)
         /\ Stream(r) # <<>>
<1> DEFINE S == Stream(r)
<1>1. /\ S \in Seq(Units) /\ Len(S) = OffBody(r) + (Len(BodyText(r)) + 1)
      /\ OffField(r) \in Nat /\ OffValue(r) \in Nat /\ OffBody(r) \in Nat
  BY StreamLayout
<1>2. /\ UrlText(r) \in Seq(Text) /\ r.header \in Seq(Text) /\ r.type \in Seq(Text)
      /\ BodyText(r) \in Seq(Text) /\ Len(BodyText(r)) \in Nat
  BY Texts
<1> HIDE DEF S
<1>3. Len(S) - Len(S) = 0 /\ 0 \in 0..Len(S) /\ S # <<>>
  BY <1>1, <1>2
<1>4. IsRead(S, 0, Len(S), S)
  BY <1>1, <1>3 DEF IsRead
<1>5. Held("url", 0, UrlText(r), <<>>, 0, C)
  BY <1>2, HeldNothing
<1>6. HeadersHeld(r, 0, <<>>, <<>>, C)
  <2>1. Held("field", OffField(r), r.header, <<>>, 0, C)
    BY <1>1, <1>2, HeldNothing
  <2>2. Held("value", OffValue(r), r.type, <<>>, 0, C) /\ 0 <= OffValue(r)
    BY <1>1, <1>2, HeldNothing
  <2> QED BY <2>1, <2>2 DEF HeadersHeld
<1>7. <<>> = Slice(BodyText(r), 0, Upto(0 - OffBody(r), BodyText(r)))
  <2>1. Upto(0 - OffBody(r), BodyText(r)) = 0
    BY <1>1, <1>2 DEF Upto
  <2>2. SubSeq(BodyText(r), 0 + 1, 0) = <<>>
    BY SubSeqEmpty
  <2> QED BY <2>1, <2>2 DEF Slice
<1>8. Partly(r, S, <<>>, <<>>, <<>>, <<>>, C)
  BY <1>3, <1>4, <1>5, <1>6, <1>7 DEF Partly, S
<1> QED BY <1>3, <1>8 DEF S

\* One name: the new value of it stays.
LEMMA OverOne ==
  ASSUME NEW f, NEW x, NEW y, NEW h \in {<<>>, One(f, y)}
  PROVE  Over(One(f, x), h) = One(f, x)
BY DEF Over, One

\* A read of a part of the header (on_header_field, on_header_value).
LEMMA HeadersRead ==
  ASSUME NEW r \in Requests, NEW k \in Nat, NEW m \in Nat, k < m, m <= Len(Stream(r)),
         NEW read, IsRead(Stream(r), k, m, read),
         NEW rest, IsRead(Stream(r), m, Len(Stream(r)), rest),
         NEW f, NEW h, NEW C, HeadersHeld(r, k, f, h, C),
         NEW D, C \subseteq D,
         \A s \in {"field", "value"} : In(s, read) /\ In(s, rest) => s \in D
  PROVE  LET g == Assign(f, "field", read) IN
         HeadersHeld(r, m, g, IF In("value", read)
                                THEN Over(One(g, Part("value", read)), h) ELSE h, D)
<1> DEFINE S == Stream(r)
           g == Assign(f, "field", read)
           l == IF In("value", read) THEN Over(One(g, Part("value", read)), h) ELSE h
           F == OffField(r)
           V == OffValue(r)
<1>1. /\ S \in Seq(Units) /\ F \in Nat /\ V \in Nat /\ Len(S) \in Nat
      /\ r.type # <<>> => SpanAt(S, "field", F, r.header) /\ SpanAt(S, "value", V, r.type)
      /\ r.type = <<>> => Kinds(S) \subseteq {"url", "body"}
  BY StreamLayout
<1>2. r.header \in Seq(Text) /\ r.type \in Seq(Text)
      /\ Len(r.header) \in Nat /\ Len(r.type) \in Nat
  BY Texts
<1>3. /\ m <= Len(S) /\ IsRead(S, k, m, read) /\ IsRead(S, m, Len(S), rest)
      /\ In("field", read) /\ In("field", rest) => "field" \in D
      /\ In("value", read) /\ In("value", rest) => "value" \in D
  OBVIOUS
<1> HIDE DEF S, g
<1>4. CASE r.type = <<>>
  <2>1. ASSUME NEW s \in {"field", "value"}, In(s, read)
        PROVE  FALSE
    <3>1. PICK i \in DOMAIN read : read[i].span = s
      BY <2>1 DEF In
    <3>2. i \in 1..(m - k) /\ read[i] = S[k + i]
      BY DEF IsRead, S
    <3>3. k + i \in DOMAIN S
      BY <1>1, <3>2 DEF S
    <3> QED BY <1>1, <1>4, <3>1, <3>2, <3>3 DEF Kinds
  <2>2. g = <<>> /\ l = <<>>
    BY <1>4, <2>1 DEF HeadersHeld, Assign, g
  <2> HIDE DEF g, l
  <2> QED BY <1>4, <2>2 DEF HeadersHeld, g, l
<1>5. CASE r.type # <<>>
  <2>1. SpanAt(S, "field", F, r.header) /\ SpanAt(S, "value", V, r.type)
    BY <1>1, <1>5
  <2>2. Held("field", F, r.header, f, k, C)
    BY <1>5 DEF HeadersHeld
  <2>3. PICK x : /\ Held("value", V, r.type, x, k, C)
                 /\ h = IF k <= V THEN <<>> ELSE One(f, x)
    BY <1>5 DEF HeadersHeld
  <2> DEFINE y == Assign(x, "value", read)
  <2> HIDE DEF F, V
  <2>4. Held("field", F, r.header, g, m, D)
    BY <1>1, <1>2, <1>3, <2>1, <2>2, HeldRead DEF g
  <2>5. Held("value", V, r.type, y, m, D)
    BY <1>1, <1>2, <1>3, <2>1, <2>3, HeldRead
  <2>6. In("field", read) <=> m > F /\ k <= F + Len(r.header)
    BY <1>1, <1>2, <2>1, InRead DEF S
  <2>7. In("value", read) <=> m > V /\ k <= V + Len(r.type)
    BY <1>1, <1>2, <2>1, InRead DEF S
  <2>8. V = F + (Len(r.header) + 1)
    BY DEF V, F, OffValue
  <2>9. k > V => g = f
    <3>1. k > V => ~(k <= F + Len(r.header))
      BY ONLY <1>1, <1>2, <2>8
    <3> QED BY <2>6, <3>1 DEF Assign, g
  <2>10. l = IF m <= V THEN <<>> ELSE One(g, y)
    <3>1. CASE In("value", read)
      <4>1. ~(m <= V)
        BY <1>1, <2>7, <3>1
      <4>2. y = Part("value", read) /\ l = Over(One(g, y), h)
        BY <3>1 DEF Assign
      <4>3. h \in {<<>>, One(g, x)}
        BY <1>1, <2>3, <2>9
      <4>4. Over(One(g, y), h) = One(g, y)
        BY <4>3, OverOne
      <4> HIDE DEF y, l
      <4> QED BY <4>1, <4>2, <4>4
    <3>2. CASE ~In("value", read)
      <4>1. l = h /\ y = x
        BY <3>2 DEF Assign
      <4>2. CASE k <= V
        <5>1. m <= V
          BY <1>1, <1>2, <2>7, <3>2, <4>2
        <5> QED BY <2>3, <4>1, <4>2, <5>1
      <4>3. CASE ~(k <= V)
        <5>1. ~(m <= V) /\ k > V
          BY <1>1, <4>3
        <5> QED BY <2>3, <2>9, <4>1, <4>3, <5>1
      <4> QED BY <4>2, <4>3
    <3> QED BY <3>1, <3>2
  <2> HIDE DEF g, l, y
  <2> QED BY <1>5, <2>4, <2>5, <2>10 DEF HeadersHeld, F, V, g, l
<1> QED BY <1>4, <1>5

\* A read keeps what Partly says: this is the step of the induction over the
\* reads that bring a request (main.cpp:106-149, 572-594).
LEMMA PartlyRead ==
  ASSUME NEW r \in Requests, NEW left, NEW u, NEW f, NEW h, NEW b, NEW C,
         Partly(r, left, u, f, h, b, C), NEW n \in 1..Len(left)
  PROVE  LET read == SubSeq(left, 1, n)
             rest == SubSeq(left, n + 1, Len(left))
             g == Assign(f, "field", read)
         IN Partly(r, rest, Assign(u, "url", read), g,
                   IF In("value", read)
                     THEN Over(One(g, Part("value", read)), h) ELSE h,
                   Cat(b, Part("body", read)),
                   C \cup {s \in {"url", "field", "value"} : In(s, read) /\ In(s, rest)})
<1> DEFINE S == Stream(r)
           k == Len(S) - Len(left)
           m == k + n
           read == SubSeq(left, 1, n)
           rest == SubSeq(left, n + 1, Len(left))
           g == Assign(f, "field", read)
           l == IF In("value", read) THEN Over(One(g, Part("value", read)), h) ELSE h
           D == C \cup {s \in {"url", "field", "value"} : In(s, read) /\ In(s, rest)}
           t == BodyText(r)
           o == OffBody(r)
<1>1. /\ S \in Seq(Units) /\ Len(S) \in Nat /\ o \in Nat
      /\ SpanAt(S, "url", 0, UrlText(r)) /\ SpanAt(S, "body", o, t)
  BY StreamLayout
<1>2. UrlText(r) \in Seq(Text) /\ t \in Seq(Text)
  BY Texts
<1>3. /\ k \in 0..Len(S) /\ IsRead(S, k, Len(S), left)
      /\ Held("url", 0, UrlText(r), u, k, C) /\ HeadersHeld(r, k, f, h, C)
      /\ b = Slice(t, 0, Upto(k - o, t))
  BY DEF Partly
<1> HIDE DEF S, k, o, t
<1>4. /\ m \in Nat /\ k \in Nat /\ k < m /\ m <= Len(S)
      /\ IsRead(S, k, m, read) /\ IsRead(S, m, Len(S), rest)
  BY <1>1, <1>3, ReadRest
<1> HIDE DEF m, read, rest
<1>5. /\ C \subseteq D
      /\ \A s \in {"url", "field", "value"} : In(s, read) /\ In(s, rest) => s \in D
  OBVIOUS
<1> HIDE DEF D
<1>6. Held("url", 0, UrlText(r), Assign(u, "url", read), m, D)
  BY <1>1, <1>2, <1>3, <1>4, <1>5, HeldRead
<1>7. HeadersHeld(r, m, g, l, D)
  BY <1>3, <1>4, <1>5, HeadersRead DEF S
<1>8. Cat(b, Part("body", read)) = Slice(t, 0, Upto(m - o, t))
  BY <1>1, <1>2, <1>3, <1>4, BodyRead
<1>9. Len(S) - Len(rest) = m /\ m \in 0..Len(S)
  <2>1. Len(rest) = Len(S) - m
    BY <1>4 DEF IsRead
  <2> QED BY <1>1, <1>4, <2>1
<1> HIDE DEF g, l
<1>10. Partly(r, rest, Assign(u, "url", read), g, l, Cat(b, Part("body", read)), D)
  BY <1>4, <1>6, <1>7, <1>8, <1>9 DEF Partly, S, t, o
<1> QED BY <1>10 DEF read, rest, g, l, D

\* What it holds when nothing is left.
LEMMA PartlyWhole ==
  ASSUME NEW r \in Requests, NEW u, NEW f, NEW h, NEW b, NEW C,
         Partly(r, <<>>, u, f, h, b, C)
  PROVE  /\ b = BodyText(r)
         /\ \E c \in 0..Len(UrlText(r)) :
              u = Slice(UrlText(r), c, Len(UrlText(r))) /\ (c # 0 => "url" \in C)
         /\ r.type = <<>> => h = <<>>
         /\ r.type # <<>> =>
              \E c \in 0..Len(r.header), d \in 0..Len(r.type) :
                /\ h = One(Slice(r.header, c, Len(r.header)), Slice(r.type, d, Len(r.type)))
                /\ c # 0 => "field" \in C
                /\ d # 0 => "value" \in C
<1> DEFINE S == Stream(r)
           k == Len(S)
           t == BodyText(r)
<1>1. /\ k \in Nat /\ OffBody(r) \in Nat /\ OffField(r) \in Nat /\ OffValue(r) \in Nat
      /\ SpanAt(S, "url", 0, UrlText(r)) /\ SpanAt(S, "body", OffBody(r), t)
      /\ r.type # <<>> => SpanAt(S, "field", OffField(r), r.header)
                          /\ SpanAt(S, "value", OffValue(r), r.type)
  BY StreamLayout
<1>2. /\ UrlText(r) \in Seq(Text) /\ r.header \in Seq(Text) /\ r.type \in Seq(Text)
      /\ t \in Seq(Text) /\ Len(UrlText(r)) \in Nat /\ Len(r.header) \in Nat
      /\ Len(r.type) \in Nat /\ Len(t) \in Nat
  BY Texts
<1>3. k - Len(<<>>) = k
  BY <1>1
<1>4. /\ Held("url", 0, UrlText(r), u, k, C) /\ HeadersHeld(r, k, f, h, C)
      /\ b = Slice(t, 0, Upto(k - OffBody(r), t))
  BY <1>3 DEF Partly
<1> HIDE DEF S, k, t
<1>5. /\ k > 0 + Len(UrlText(r)) /\ k > OffBody(r) + Len(t)
      /\ r.type # <<>> => k > OffField(r) + Len(r.header) /\ k > OffValue(r) + Len(r.type)
  <2>1. \A s, o, x : k \in Nat /\ o \in Nat /\ Len(x) \in Nat /\ SpanAt(S, s, o, x)
                        => k > o + Len(x)
    BY ONLY SpanEnd DEF k
  <2>2. 0 \in Nat
    OBVIOUS
  <2> QED BY ONLY <1>1, <1>2, <2>1, <2>2, Zenon
<1>6. b = t
  <2>1. Upto(k - OffBody(r), t) = Len(t)
    BY <1>1, <1>2, <1>5 DEF Upto
  <2>2. SubSeq(t, 0 + 1, Len(t)) = t
    <3>1. 0 + 1 = 1 /\ SubSeq(t, 1, Len(t)) = t
      BY <1>2, SubSeqFull
    <3> QED BY ONLY <3>1, Zenon
  <2> QED BY ONLY <1>4, <2>1, <2>2, Zenon DEF Slice
<1>7. \E c \in 0..Len(UrlText(r)) :
        u = Slice(UrlText(r), c, Len(UrlText(r))) /\ (c # 0 => "url" \in C)
  BY <1>1, <1>2, <1>4, <1>5, HeldAfter
<1>8. ASSUME r.type # <<>>
      PROVE  \E c \in 0..Len(r.header), d \in 0..Len(r.type) :
                /\ h = One(Slice(r.header, c, Len(r.header)), Slice(r.type, d, Len(r.type)))
                /\ c # 0 => "field" \in C
                /\ d # 0 => "value" \in C
  <2>1. Held("field", OffField(r), r.header, f, k, C)
    BY <1>4, <1>8 DEF HeadersHeld
  <2>2. PICK x : /\ Held("value", OffValue(r), r.type, x, k, C)
                 /\ h = IF k <= OffValue(r) THEN <<>> ELSE One(f, x)
    BY <1>4, <1>8 DEF HeadersHeld
  <2>3. PICK c \in 0..Len(r.header) :
          f = Slice(r.header, c, Len(r.header)) /\ (c # 0 => "field" \in C)
    BY <1>1, <1>2, <1>5, <1>8, <2>1, HeldAfter
  <2>4. PICK d \in 0..Len(r.type) :
          x = Slice(r.type, d, Len(r.type)) /\ (d # 0 => "value" \in C)
    BY <1>1, <1>2, <1>5, <1>8, <2>2, HeldAfter
  <2>5. ~(k <= OffValue(r))
    BY <1>1, <1>2, <1>5, <1>8
  <2>6. h = One(f, x)
    BY <2>2, <2>5
  <2> QED BY <2>3, <2>4, <2>6
<1>9. r.type = <<>> => h = <<>>
  BY <1>4 DEF HeadersHeld
<1> QED BY <1>6, <1>7, <1>8, <1>9 DEF t

-----------------------------------------------------------------------------
(* The parameters of the URL and of the body.                              *)

\* The whole of a text is the text.
LEMMA SliceFull ==
  ASSUME NEW X, NEW s \in Seq(X)
  PROVE  Slice(s, 0, Len(s)) = s
<1>1. SubSeq(s, 1, Len(s)) = s
  BY SubSeqFull
<1>2. 0 + 1 = 1
  OBVIOUS
<1> QED BY ONLY <1>1, <1>2, Zenon DEF Slice

\* What the end of a text mentions, the text mentions.
LEMMA SuffixMentions ==
  ASSUME NEW X, NEW s \in Seq(X), NEW c \in 0..Len(s), NEW t,
         Len(t) \in Nat, Len(t) >= 1, Mentions(Slice(s, c, Len(s)), t)
  PROVE  Mentions(s, t)
<1> DEFINE u == Slice(s, c, Len(s))
           n == Len(t)
<1>1. Len(u) = Len(s) - c /\ Len(u) \in Nat /\ Len(s) \in Nat /\ c \in Nat /\ c <= Len(s)
  BY SuffixLayout DEF Slice
<1>2. PICK i \in 0..(Len(u) - n) : SubSeq(u, i + 1, i + n) = t
  BY DEF Mentions
<1> HIDE DEF u, n
<1>3. n \in Nat /\ n >= 1
  BY DEF n
<1>4. /\ c + 1 \in 1..Len(s) /\ Len(s) \in 1..Len(s)
      /\ i + 1 \in 1..(Len(s) - (c + 1) + 1) /\ i + n \in 1..(Len(s) - (c + 1) + 1)
      /\ c + i \in 0..(Len(s) - n)
      /\ c + 1 + (i + 1) - 1 = c + i + 1 /\ c + 1 + (i + n) - 1 = c + i + n
  BY <1>1, <1>3
<1>5. SubSeq(SubSeq(s, c + 1, Len(s)), i + 1, i + n)
        = SubSeq(s, c + 1 + (i + 1) - 1, c + 1 + (i + n) - 1)
  <2> DEFINE a == c + 1  e == Len(s)  f == i + 1  g == i + n
  <2>1. a \in 1..Len(s) /\ e \in 1..Len(s) /\ f \in 1..(e - a + 1) /\ g \in 1..(e - a + 1)
    BY <1>4
  <2> HIDE DEF a, e, f, g
  <2>2. SubSeq(SubSeq(s, a, e), f, g) = SubSeq(s, a + f - 1, a + g - 1)
    BY ONLY s \in Seq(X), <2>1, SubSeqOfSubSeq
  <2> QED BY ONLY <2>2, Zenon DEF a, e, f, g
<1>6. SubSeq(s, c + i + 1, c + i + n) = t
  BY ONLY <1>2, <1>4, <1>5, Zenon DEF u, Slice
<1> QED BY <1>4, <1>6 DEF Mentions, n

\* A media type is not found in a value's end unless it is in the value.
LEMMA TypeMentions ==
  ASSUME NEW r \in Requests, NEW c \in 0..Len(r.type)
  PROVE  /\ Mentions(Slice(r.type, c, Len(r.type)), Form) => Mentions(r.type, Form)
         /\ Mentions(Slice(r.type, c, Len(r.type)), Json) => Mentions(r.type, Json)
<1>1. r.type \in Seq(Text)
  BY Texts
<1>2. Len(Form) \in Nat /\ Len(Form) >= 1 /\ Len(Json) \in Nat /\ Len(Json) >= 1
  BY DEF Form, Json
<1> DEFINE u == Slice(r.type, c, Len(r.type))
<1> HIDE DEF u
<1>3. Mentions(u, Form) => Mentions(r.type, Form)
  BY ONLY c \in 0..Len(r.type), <1>1, <1>2, SuffixMentions, Zenon DEF u
<1>4. Mentions(u, Json) => Mentions(r.type, Json)
  BY ONLY c \in 0..Len(r.type), <1>1, <1>2, SuffixMentions, Zenon DEF u
<1> QED BY <1>3, <1>4 DEF u

\* The parameters of the URL are those of the query; a cut loses all or none.
LEMMA QueryGiven ==
  ASSUME NEW r \in Requests, NEW c \in 0..Len(UrlText(r)), NEW x
  PROVE  LET q == QueryParams(Slice(UrlText(r), c, Len(UrlText(r)))) IN
         /\ <<x>> \in DOMAIN q => q[<<x>>] = Given(r.query, x)
         /\ <<x>> \in DOMAIN q => Gives(r.query, x)
         /\ c = 0 => (Gives(r.query, x) => <<x>> \in DOMAIN q)
<1> DEFINE q == QueryParams(Slice(UrlText(r), c, Len(UrlText(r))))
           f == Split(FormText(r.query))
<1>1. q \in {NoParams, f} /\ (c = 0 /\ r.query # <<>> => q = f)
  BY UrlQuery DEF Slice
<1>2. r.query \in Pairs
  BY DEF Requests
<1>3. (<<x>> \in DOMAIN f <=> Gives(r.query, x))
      /\ (Gives(r.query, x) => f[<<x>>] = Given(r.query, x))
  BY <1>2, SplitForm
<1>4. DOMAIN NoParams = {}
  BY DEF NoParams
<1>5. r.query = <<>> => ~Gives(r.query, x)
  BY DEF Gives
<1> HIDE DEF q, f
<1>6. /\ <<x>> \in DOMAIN q => q[<<x>>] = Given(r.query, x)
      /\ <<x>> \in DOMAIN q => Gives(r.query, x)
      /\ c = 0 => (Gives(r.query, x) => <<x>> \in DOMAIN q)
  BY <1>1, <1>3, <1>4, <1>5
<1> QED BY <1>6 DEF q

\* json::parse gives the pairs back.
LEMMA JsonGiven ==
  ASSUME req \in Requests, Mentions(req.type, Json), NEW x
  PROVE  LET p == JsonParams(JsonText(req.post)) IN
         /\ <<x>> \in DOMAIN p <=> Gives(req.post, x) /\ x \in Extracted
         /\ <<x>> \in DOMAIN p => p[<<x>>] = Given(req.post, x)
<1> DEFINE ps == req.post
           in(n) == \E i \in DOMAIN ps : ps[i].name = n
           val(n) == ps[CHOOSE i \in DOMAIN ps : ps[i].name = n].value
           p == JsonParams(JsonText(req.post))
<1>1. ps \in Pairs /\ \A i \in DOMAIN ps : ~ps[i].bare
  BY DEF Requests
<1>2. p = [k \in {<<n>> : n \in {y \in Extracted : in(y)}} |-> val(k[1])]
  BY Zenon DEF JsonParams
<1>3. in(x) <=> Gives(ps, x)
  BY <1>1 DEF Gives
<1>4. ASSUME Gives(ps, x)
      PROVE  val(x) = Given(ps, x)
  <2>1. PICK i \in DOMAIN ps : ps[i].name = x
    BY <1>4 DEF Gives
  <2>2. \A j \in DOMAIN ps : ps[j].name = x => j = i
    BY <1>1, <2>1 DEF Pairs
  <2>3. (CHOOSE j \in DOMAIN ps : ps[j].name = x) = i
    BY <2>1, <2>2
  <2>4. (CHOOSE j \in DOMAIN ps : ps[j].name = x /\ ~ps[j].bare) = i
    BY <1>1, <2>1, <2>2
  <2>5. val(x) = ps[i].value
    BY ONLY <2>3, Zenon
  <2>6. Given(ps, x) = ps[i].value
    BY ONLY <1>4, <2>4, Zenon DEF Given
  <2> QED BY ONLY <2>5, <2>6, Zenon
<1> HIDE DEF ps, in, val, p
<1>5. <<x>> \in DOMAIN p <=> x \in Extracted /\ in(x)
  BY <1>2
<1>6. <<x>> \in DOMAIN p => p[<<x>>] = val(x)
  BY <1>2
<1> QED BY <1>3, <1>4, <1>5, <1>6 DEF ps, p

\* The parameters of the body of a request that is read.
LEMMA PostGiven ==
  ASSUME req \in Requests, Partly(req, <<>>, url, field, headers, body, cut), NEW x
  PROVE  LET p == PostParams(headers, body) IN
         /\ <<x>> \in DOMAIN p => p[<<x>>] = Given(req.post, x)
         /\ <<x>> \in DOMAIN p =>
              Gives(req.post, x) /\ (Mentions(req.type, Form) \/ x \in Extracted)
         /\ cut = {} /\ req.header \in {<<>>, Lower} =>
              (Gives(req.post, x) /\ (Mentions(req.type, Form) \/ x \in Extracted)
                 => <<x>> \in DOMAIN p)
<1> DEFINE p == PostParams(headers, body)
           G == Gives(req.post, x) /\ (Mentions(req.type, Form) \/ x \in Extracted)
           P(f) == /\ <<x>> \in DOMAIN f => f[<<x>>] = Given(req.post, x)
                   /\ <<x>> \in DOMAIN f => G
<1>1. body = BodyText(req)
      /\ (req.type = <<>> => headers = <<>>)
  BY PartlyWhole
<1>2. P(NoParams)
  BY DEF NoParams
<1>3. /\ req.post \in Pairs /\ (req.type = <<>> <=> req.header = <<>>)
      /\ ~(Mentions(req.type, Json) /\ Mentions(req.type, Form))
      /\ ~Mentions(req.type, Json) /\ ~Mentions(req.type, Form) => req.post = <<>>
      /\ req.type \in Seq(Letters) /\ req.header \in Seq(Letters)
  BY DEF Requests
<1>4. Mentions(req.type, Form) => body = FormText(req.post)
  BY <1>1, <1>3 DEF BodyText
<1>5. Mentions(req.type, Json) => body = JsonText(req.post)
  BY ONLY <1>1, <1>3, Zenon DEF BodyText
<1>6. ASSUME Mentions(req.type, Form)
      PROVE  P(Split(body)) /\ (G => <<x>> \in DOMAIN Split(body))
  BY <1>3, <1>4, <1>6, SplitForm
<1>7. ASSUME Mentions(req.type, Json)
      PROVE  P(JsonParams(body)) /\ (G => <<x>> \in DOMAIN JsonParams(body))
  BY <1>3, <1>5, <1>7, JsonGiven
<1>8. CASE Lower \notin DOMAIN headers
  <2>1. p = NoParams
    BY <1>8 DEF PostParams
  <2>2. cut = {} /\ req.header \in {<<>>, Lower} => req.type = <<>>
    <3> SUFFICES ASSUME cut = {}, req.header \in {<<>>, Lower}, req.type # <<>> PROVE FALSE
      OBVIOUS
    <3>1. PICK c \in 0..Len(req.header), d \in 0..Len(req.type) :
            /\ headers = One(Slice(req.header, c, Len(req.header)),
                             Slice(req.type, d, Len(req.type)))
            /\ c # 0 => "field" \in cut
      BY PartlyWhole
    <3>2. c = 0 /\ req.header = Lower
      BY <1>3, <3>1
    <3>3. Slice(req.header, 0, Len(req.header)) = req.header
      BY <1>3, SliceFull
    <3>4. Lower \in DOMAIN headers
      BY <3>1, <3>2, <3>3 DEF One
    <3> QED BY <1>8, <3>4
  <2>3. req.type = <<>> => ~G
    <3>1. ~Mentions(<<>>, Json) /\ ~Mentions(<<>>, Form)
      BY DEF Mentions, Json, Form
    <3>2. req.type = <<>> => req.post = <<>>
      BY <1>3, <3>1
    <3> QED BY <3>2 DEF Gives
  <2> QED BY <1>2, <2>1, <2>2, <2>3
<1>9. CASE Lower \in DOMAIN headers
  <2>1. req.type # <<>>
    BY <1>1, <1>9
  <2>2. PICK c \in 0..Len(req.header), d \in 0..Len(req.type) :
            /\ headers = One(Slice(req.header, c, Len(req.header)),
                             Slice(req.type, d, Len(req.type)))
            /\ c # 0 => "field" \in cut
            /\ d # 0 => "value" \in cut
    BY <2>1, PartlyWhole
  <2> DEFINE v == Slice(req.type, d, Len(req.type))
  <2>3. headers[Lower] = v
    BY <1>9, <2>2 DEF One
  <2>4. (Mentions(v, Form) => Mentions(req.type, Form))
        /\ (Mentions(v, Json) => Mentions(req.type, Json))
    BY TypeMentions
  <2>5. cut = {} => v = req.type
    <3>1. Slice(req.type, 0, Len(req.type)) = req.type
      BY <1>3, SliceFull
    <3> QED BY <2>2, <3>1
  <2> HIDE DEF v, P, G
  <2>6. CASE Mentions(v, Form)
    <3>1. p = Split(body)
      BY <1>3, <1>9, <2>3, <2>4, <2>6, Zenon DEF PostParams
    <3> QED BY <1>6, <2>4, <2>6, <3>1 DEF P, G
  <2>7. CASE Mentions(v, Json) /\ ~Mentions(v, Form)
    <3>1. p = JsonParams(body)
      BY <1>9, <2>3, <2>7 DEF PostParams
    <3> QED BY <1>7, <2>4, <2>7, <3>1 DEF P, G
  <2>8. CASE ~Mentions(v, Json) /\ ~Mentions(v, Form)
    <3>1. p = NoParams
      BY <1>9, <2>3, <2>8 DEF PostParams
    <3>2. cut = {} => ~Gives(req.post, x)
      BY <1>3, <2>5, <2>8 DEF Gives
    <3> QED BY <1>2, <3>1, <3>2 DEF P, G
  <2> QED BY <2>6, <2>7, <2>8
<1> QED BY <1>8, <1>9

-----------------------------------------------------------------------------
(* What the session holds at every step.                                   *)

\* on_message_complete: the URL's parameters, and the body's over them.
Taken == Over(PostParams(headers, body), Over(QueryParams(url), NoParams))

(* A session without a request holds nothing (reset_parser); one with a    *)
(* request holds of its spans what Partly says, and has its parameters     *)
(* when the last piece is read and none before.                            *)
ReadInv ==
  /\ script \in Seq(Requests)
  /\ req = NoRequest =>
       /\ net = <<>> /\ ~complete /\ url = <<>> /\ field = <<>> /\ headers = <<>>
       /\ body = <<>> /\ params = NoParams
  /\ req # NoRequest =>
       /\ req \in Requests
       /\ Partly(req, net, url, field, headers, body, cut)
       /\ complete <=> net = <<>>
       /\ params = IF complete THEN Taken ELSE NoParams

\* A request has a path.
LEMMA NoneIsARequest == NoRequest \notin Requests
BY DEF NoRequest, Requests

\* A request is sent to a session that holds nothing.
LEMMA SendStep ==
  ASSUME ReadInv, Send
  PROVE  ReadInv'
<1>1. /\ req = NoRequest /\ script # <<>> /\ req' = Head(script) /\ script' = Tail(script)
      /\ net' = Stream(req')
      /\ UNCHANGED <<url, field, headers, body, params, complete>>
  BY DEF Send, session
<1>2. /\ script \in Seq(Requests) /\ ~complete /\ url = <<>> /\ field = <<>>
      /\ headers = <<>> /\ body = <<>> /\ params = NoParams
  BY <1>1 DEF ReadInv
<1>3. req' \in Requests /\ script' \in Seq(Requests)
  BY <1>1, <1>2
<1>4. Partly(req', Stream(req'), <<>>, <<>>, <<>>, <<>>, cut') /\ Stream(req') # <<>>
  BY <1>3, PartlySend
<1>5. Partly(req', net', url', field', headers', body', cut') /\ net' # <<>>
  BY ONLY <1>1, <1>2, <1>4, Zenon
<1> QED BY <1>1, <1>2, <1>3, <1>5, NoneIsARequest DEF ReadInv

\* The parameters of a body depend on the body, its header and the request.
LEMMA PostSame ==
  ASSUME req' = req
  PROVE  PostParams(headers, body)' = PostParams(headers', body')
<1>1. JsonParams(body)' = JsonParams(body')
  BY DEF JsonParams
<1> HIDE DEF JsonParams
<1> QED BY <1>1 DEF PostParams

\* One read, and on_message_complete when it is the last.
LEMMA ReadStep ==
  ASSUME ReadInv, Read
  PROVE  ReadInv'
<1>1. PICK n \in 1..Len(net) :
        LET read == SubSeq(net, 1, n)
            rest == SubSeq(net, n + 1, Len(net))
        IN /\ ~complete
           /\ net' = rest
           /\ cut' = cut \cup {s \in {"url", "field", "value"} : In(s, read) /\ In(s, rest)}
           /\ url' = Assign(url, "url", read)
           /\ field' = Assign(field, "field", read)
           /\ headers' = IF In("value", read)
                           THEN Over([f \in {field'} |-> Part("value", read)], headers)
                           ELSE headers
           /\ body' = body \o Part("body", read)
           /\ complete' = (rest = <<>>)
           /\ params' = IF complete'
                          THEN Over(PostParams(headers', body'),
                                    Over(QueryParams(url'), params))
                          ELSE params
           /\ UNCHANGED <<script, req, answer, table, lists>>
  BY Zenon DEF Read
<1> DEFINE read == SubSeq(net, 1, n)
           rest == SubSeq(net, n + 1, Len(net))
           cuts == {s \in {"url", "field", "value"} : In(s, read) /\ In(s, rest)}
<1>2. req \in Requests /\ Partly(req, net, url, field, headers, body, cut) =>
      Partly(req, rest, Assign(url, "url", read), Assign(field, "field", read),
             IF In("value", read)
               THEN Over(One(Assign(field, "field", read), Part("value", read)), headers)
               ELSE headers,
             Cat(body, Part("body", read)), cut \cup cuts)
  BY PartlyRead
<1> HIDE DEF read, rest, cuts
<1>3. /\ ~complete /\ net' = rest /\ cut' = cut \cup cuts
      /\ url' = Assign(url, "url", read) /\ field' = Assign(field, "field", read)
      /\ headers' = IF In("value", read)
                      THEN Over(One(field', Part("value", read)), headers) ELSE headers
      /\ body' = Cat(body, Part("body", read))
      /\ complete' = (rest = <<>>)
      /\ params' = IF complete'
                     THEN Over(PostParams(headers', body'), Over(QueryParams(url'), params))
                     ELSE params
      /\ script' = script /\ req' = req
  BY ONLY <1>1, Zenon DEF read, rest, cuts, One, Cat
<1>4. req # NoRequest
  <2>1. net # <<>>
    BY <1>1
  <2> QED BY <2>1 DEF ReadInv
<1>5. /\ req \in Requests /\ Partly(req, net, url, field, headers, body, cut)
      /\ params = NoParams /\ script \in Seq(Requests)
  BY <1>3, <1>4 DEF ReadInv
<1>6. Partly(req', net', url', field', headers', body', cut')
  BY ONLY <1>3, <1>5, <1>2, Zenon
<1>7. complete' <=> net' = <<>>
  BY <1>3
<1>8. PostParams(headers, body)' = PostParams(headers', body')
  BY <1>3, PostSame
<1>9. params' = IF complete' THEN Taken' ELSE NoParams
  <2>1. Taken' = Over(PostParams(headers', body'), Over(QueryParams(url'), NoParams))
    BY ONLY <1>8, Zenon DEF Taken
  <2> QED BY ONLY <1>3, <1>5, <2>1, Zenon
<1>10. script' \in Seq(Requests) /\ req' \in Requests /\ req' # NoRequest
  BY <1>3, <1>4, <1>5
<1> QED BY <1>6, <1>7, <1>9, <1>10 DEF ReadInv

\* The invariant is inductive.
LEMMA ReadInvStep ==
  ASSUME ReadInv, [RequestNext]_requestVars
  PROVE  ReadInv'
<1>1. CASE Send
  BY <1>1, SendStep
<1>2. CASE Read
  BY <1>2, ReadStep
<1>3. CASE UNCHANGED <<script, req, net, url, field, headers, body, params, complete, cut>>
  <2>1. PostParams(headers, body)' = PostParams(headers, body)
    BY <1>3, PostSame
  <2>2. Taken' = Taken
    BY <1>3, <2>1, Zenon DEF Taken
  <2> QED BY <1>3, <2>2, Zenon DEF ReadInv
<1>4. CASE ResetParser
  <2>1. req # NoRequest /\ net = <<>>
    BY <1>4 DEF ReadInv, ResetParser
  <2> QED BY <1>4, <2>1 DEF ResetParser, ReadInv, Cleared
<1> QED BY <1>1, <1>2, <1>3, <1>4
  DEF RequestNext, requestVars, Respond, Registered, session

-----------------------------------------------------------------------------
(* The parameters of a request that is complete.                           *)

\* What has a parameter: the body before the URL.
LEMMA TakenParam ==
  ASSUME NEW p, NEW q, NEW x, params = Over(p, Over(q, NoParams))
  PROVE  Param(x) = IF <<x>> \in DOMAIN p THEN p[<<x>>]
                    ELSE IF <<x>> \in DOMAIN q THEN q[<<x>>] ELSE <<>>
<1>1. DOMAIN NoParams = {}
  BY DEF NoParams
<1> DEFINE f == Over(q, NoParams)
<1>2. DOMAIN f = DOMAIN q /\ \A k \in DOMAIN q : f[k] = q[k]
  BY <1>1 DEF Over
<1> HIDE DEF f
<1>3. DOMAIN Over(p, f) = DOMAIN p \cup DOMAIN f
      /\ \A k \in DOMAIN p \cup DOMAIN f :
           Over(p, f)[k] = IF k \in DOMAIN p THEN p[k] ELSE f[k]
  BY DEF Over
<1> QED BY <1>2, <1>3 DEF Param, f

\* What a complete request has: its path when the URL was not cut, its own
\* values however it was cut, and all of them when nothing was.
LEMMA OwnParams ==
  ASSUME ReadInv, complete
  PROVE  /\ "url" \notin cut => Path(url) = req.path
         /\ \A x : Param(x) \in {<<>>, Given(req.query, x), Given(req.post, x)}
         /\ cut = {} /\ req.header \in {<<>>, Lower} => \A x : Param(x) = Meant(x)
<1>1. /\ req \in Requests /\ Partly(req, <<>>, url, field, headers, body, cut)
      /\ params = Taken
  BY DEF ReadInv
<1>2. PICK c \in 0..Len(UrlText(req)) :
        url = Slice(UrlText(req), c, Len(UrlText(req))) /\ (c # 0 => "url" \in cut)
  BY <1>1, PartlyWhole
<1>3. "url" \notin cut => Path(url) = req.path
  <2>1. Slice(UrlText(req), 0, Len(UrlText(req))) = UrlText(req)
    BY <1>1, Texts, SliceFull
  <2>2. Path(UrlText(req)) = req.path
    BY <1>1, UrlPath
  <2> QED BY ONLY <1>2, <2>1, <2>2, Zenon
<1> DEFINE p == PostParams(headers, body)
           q == QueryParams(url)
<1> HIDE DEF p, q
<1>4. ASSUME NEW x
      PROVE  /\ Param(x) \in {<<>>, Given(req.query, x), Given(req.post, x)}
             /\ cut = {} /\ req.header \in {<<>>, Lower} => Param(x) = Meant(x)
  <2> DEFINE G == Gives(req.post, x) /\ (Mentions(req.type, Form) \/ x \in Extracted)
             W == cut = {} /\ req.header \in {<<>>, Lower}
  <2>1. /\ <<x>> \in DOMAIN q => q[<<x>>] = Given(req.query, x)
        /\ <<x>> \in DOMAIN q => Gives(req.query, x)
        /\ c = 0 => (Gives(req.query, x) => <<x>> \in DOMAIN q)
    BY ONLY c \in 0..Len(UrlText(req)), <1>1, <1>2, QueryGiven, Zenon DEF q
  <2>2. /\ <<x>> \in DOMAIN p => p[<<x>>] = Given(req.post, x)
        /\ <<x>> \in DOMAIN p => G
        /\ W => (G => <<x>> \in DOMAIN p)
    BY ONLY <1>1, PostGiven, Zenon DEF p
  <2>3. Param(x) = IF <<x>> \in DOMAIN p THEN p[<<x>>]
                   ELSE IF <<x>> \in DOMAIN q THEN q[<<x>>] ELSE <<>>
    <3>1. params = Over(p, Over(q, NoParams))
      BY <1>1 DEF Taken, p, q
    <3> QED BY <3>1, TakenParam
  <2>4. W => c = 0
    BY <1>2
  <2>5. ~Gives(req.query, x) => Given(req.query, x) = <<>>
    BY DEF Given
  <2>6. Meant(x) = IF G THEN Given(req.post, x) ELSE Given(req.query, x)
    BY DEF Meant
  <2> HIDE DEF G, W
  <2>7. Param(x) \in {<<>>, Given(req.query, x), Given(req.post, x)}
    BY <2>1, <2>2, <2>3
  <2>8. W => Param(x) = Meant(x)
    BY <2>1, <2>2, <2>3, <2>4, <2>5, <2>6
  <2> QED BY <2>7, <2>8 DEF W
<1> QED BY <1>3, <1>4

\* A new session holds nothing.
LEMMA ReadInvInit == RequestInit => ReadInv
BY RequestAssumption DEF RequestInit, ReadInv

(* A request whose URL and headers were each read in one piece is executed *)
(* with the path and the parameters the client meant, for every request of *)
(* the formats and every way the reads cut it (main.cpp:109-125,153-207).  *)
THEOREM ParamsCorrect == RequestSpec => []ParamsArrive
<1>1. ReadInv => ParamsArrive
  BY OwnParams DEF ParamsArrive
<1> QED BY <1>1, ReadInvInit, ReadInvStep, PTL DEF RequestSpec

(* However it was cut, a request is executed with values of its own, never *)
(* with a part of one or with one of the request before it on the          *)
(* connection (main.cpp:559-569).                                          *)
THEOREM InheritanceCorrect == RequestSpec => []NothingInherited
<1>1. ReadInv => NothingInherited
  BY OwnParams DEF NothingInherited
<1> QED BY <1>1, ReadInvInit, ReadInvStep, PTL DEF RequestSpec
=============================================================================
