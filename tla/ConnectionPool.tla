--------------------------- MODULE ConnectionPool ---------------------------
(***************************************************************************)
(* The MySQL connection pool of sqlsave.cpp: getConnection and             *)
(* releaseConnection called by the business threads, the health-check      *)
(* thread that replaces broken connections, and the destructor, run by     *)
(* whoever drops the last shared_ptr to the pool.                          *)
(*                                                                         *)
(* A critical section under mutex_ that makes no blocking call is one      *)
(* step.  The health thread connects to the server with mutex_ held, so    *)
(* its section is several steps and MutexFree says when others may enter.  *)
(* cv_ is the set of threads whose pc is "waiting".                        *)
(***************************************************************************)
EXTENDS Naturals, Sequences, FiniteSets

CONSTANTS
  Thread,    \* the threads of the business pool
  Conn,      \* identities of connections, reused after a connection is closed
  PoolSize,  \* poolSize_, max_open_conns of the configuration
  NoConn     \* a null unique_ptr

ASSUME PoolAssumption ==
  /\ IsFiniteSet(Thread)
  /\ PoolSize \in Nat \ {0}
  /\ NoConn \notin Conn

VARIABLES
  pool,     \* pool_, the queue of idle connections
  actual,   \* actual_pool_size_
  pc,       \* where each thread stands in its use of the pool
  conn,     \* the connection each thread owns
  broken,   \* connections isValid() would refuse
  hpc,      \* where the health thread stands
  need,     \* its local counter of connections still to open
  running,  \* health_running_
  owner,    \* g_db still holds its reference to the pool
  dpc       \* where the destructor stands

callers == <<pc, conn>>
health  == <<hpc, need>>
life    == <<running, owner, dpc>>
vars    == <<pool, actual, pc, conn, broken, hpc, need, running, owner, dpc>>

-----------------------------------------------------------------------------
Idle    == {pool[i] : i \in 1..Len(pool)}
Holders == {t \in Thread : pc[t] \in {"using", "returning"}}
Waiters == {t \in Thread : pc[t] = "waiting"}
Open    == Idle \cup {conn[t] : t \in Holders}

\* mutex_ is held across steps only by the health thread while it connects.
MutexFree == hpc \notin {"create", "count"}

\* cv_.notify_one(), the caller itself moving to the control state f.
NotifyOne(f) ==
  IF Waiters = {} THEN pc' = f
                  ELSE \E w \in Waiters : pc' = [f EXCEPT ![w] = "woken"]

-----------------------------------------------------------------------------
(* A handler takes and drops its shared_ptr to the pool (getPool).         *)
Enter(t) ==
  /\ pc[t] = "idle"
  /\ owner
  /\ pc' = [pc EXCEPT ![t] = "ready"]
  /\ UNCHANGED <<pool, actual, conn, broken, health, life>>

Leave(t) ==
  /\ pc[t] = "ready"
  /\ pc' = [pc EXCEPT ![t] = "idle"]
  /\ UNCHANGED <<pool, actual, conn, broken, health, life>>

(* The body of getConnection: the predicate of cv_.wait, evaluated with    *)
(* mutex_ held on entry and after every wake-up.  timeout_ms is unused.    *)
PeekFront == UNCHANGED pool      \* fault: pool_.pop() forgotten
PopFront  == pool' = Tail(pool)

TakeOrWait(t) ==
  /\ MutexFree
  /\ \/ /\ pool # <<>>
        /\ conn' = [conn EXCEPT ![t] = Head(pool)]
        /\ PopFront
        /\ pc' = [pc EXCEPT ![t] = "using"]
     \/ /\ pool = <<>>
        /\ pc' = [pc EXCEPT ![t] = "waiting"]
        /\ UNCHANGED <<pool, conn>>
  /\ UNCHANGED <<actual, broken, health, life>>

GetConnection(t) == pc[t] = "ready" /\ TakeOrWait(t)
Resume(t)        == pc[t] = "woken" /\ TakeOrWait(t)

\* cv_.wait may return without a notification; the predicate is tested again.
SpuriousWake(t) ==
  /\ pc[t] = "waiting"
  /\ pc' = [pc EXCEPT ![t] = "woken"]
  /\ UNCHANGED <<pool, actual, conn, broken, health, life>>

(* releaseConnection: isValid() is asked outside mutex_; a connection it   *)
(* refuses is closed and its slot given up with fetch_sub.                 *)
ReleaseChecked(t) ==
  /\ pc[t] = "using"
  /\ conn[t] \notin broken
  /\ pc' = [pc EXCEPT ![t] = "returning"]
  /\ UNCHANGED <<pool, actual, conn, broken, health, life>>

KeepSlot   == UNCHANGED actual       \* fault: fetch_sub forgotten
GiveUpSlot == actual' = actual - 1

ReleaseInvalid(t) ==
  /\ pc[t] = "using"
  /\ conn[t] \in broken
  /\ GiveUpSlot
  /\ broken' = broken \ {conn[t]}
  /\ conn' = [conn EXCEPT ![t] = NoConn]
  /\ pc' = [pc EXCEPT ![t] = "dropping"]
  /\ UNCHANGED <<pool, health, life>>

DropSilently(t) == pc' = [pc EXCEPT ![t] = "ready"]  \* fault: no notify_one
DropAndNotify(t) == NotifyOne([pc EXCEPT ![t] = "ready"])

NotifyAfterDrop(t) ==
  /\ pc[t] = "dropping"
  /\ DropAndNotify(t)
  /\ UNCHANGED <<pool, actual, conn, broken, health, life>>

ReleasePush(t) ==
  /\ pc[t] = "returning"
  /\ MutexFree
  /\ pool' = Append(pool, conn[t])
  /\ conn' = [conn EXCEPT ![t] = NoConn]
  /\ NotifyOne([pc EXCEPT ![t] = "ready"])
  /\ UNCHANGED <<actual, broken, health, life>>

\* The server closes a connection, idle or in use (external).
Break(c) ==
  /\ c \in Open \ broken
  /\ broken' = broken \cup {c}
  /\ UNCHANGED <<pool, actual, callers, health, life>>

-----------------------------------------------------------------------------
(* healthCheckLoop.  wait_for evaluates its predicate, then blocks: a      *)
(* notification sent between the two is lost, for the destructor sends it  *)
(* without health_mtx_.                                                    *)
HealthTestStop ==
  /\ hpc = "top"
  /\ hpc' = IF running THEN "blocking" ELSE "woken"
  /\ UNCHANGED <<pool, actual, callers, broken, need, life>>

HealthBlock ==
  /\ hpc = "blocking"
  /\ hpc' = "blocked"
  /\ UNCHANGED <<pool, actual, callers, broken, need, life>>

\* The 30 seconds of wait_for have passed.
TimeoutNever  == FALSE           \* fault: wait instead of wait_for
TimeoutPasses == hpc = "blocked"

HealthTimeout ==
  /\ TimeoutPasses
  /\ hpc' = "woken"
  /\ UNCHANGED <<pool, actual, callers, broken, need, life>>

\* Reads actual_pool_size_ before mutex_ is taken.
MissingOneMore(n) == PoolSize - n + 1   \* fault: off by one
Missing(n) == PoolSize - n

HealthCheck ==
  /\ hpc = "woken"
  /\ IF ~running THEN hpc' = "exited" /\ UNCHANGED need
     ELSE IF actual < PoolSize
     THEN hpc' = "locking" /\ need' = Missing(actual)
     ELSE hpc' = "top" /\ UNCHANGED need
  /\ UNCHANGED <<pool, actual, callers, broken, life>>

HealthLock ==
  /\ hpc = "locking"
  /\ hpc' = "create"
  /\ UNCHANGED <<pool, actual, callers, broken, need, life>>

\* createConnection succeeds and pool_.emplace follows.
HealthCreate ==
  /\ hpc = "create"
  /\ need > 0
  /\ \E c \in Conn \ Open : pool' = Append(pool, c)
  /\ hpc' = "count"
  /\ UNCHANGED <<actual, callers, broken, need, life>>

HealthCount ==
  /\ hpc = "count"
  /\ actual' = actual + 1
  /\ need' = need - 1
  /\ hpc' = "create"
  /\ UNCHANGED <<pool, callers, broken, life>>

\* The loop ends, or createConnection throws and breaks it; a single
\* notify_one for all the connections opened, then mutex_ is released.
RefillSilently == UNCHANGED pc    \* fault: no notify_one
RefillAndNotify == NotifyOne(pc)

HealthDone ==
  /\ hpc = "create"
  /\ need' = 0
  /\ hpc' = "top"
  /\ RefillAndNotify
  /\ UNCHANGED <<pool, actual, conn, broken, life>>

-----------------------------------------------------------------------------
(* g_db.reset() drops the owner's reference; the last reference to go runs *)
(* ~ConnectionPool: store, notify_all, join, then empty the queue.         *)
ResetOwner ==
  /\ owner
  /\ owner' = FALSE
  /\ UNCHANGED <<pool, actual, callers, broken, health, running, dpc>>

NoneWaiting == ~owner /\ Waiters = {}  \* fault: handlers hold plain pointers
LastReference == ~owner /\ \A t \in Thread : pc[t] = "idle"

DestroyStop ==
  /\ dpc = "none"
  /\ LastReference
  /\ running' = FALSE
  /\ dpc' = "notify"
  /\ UNCHANGED <<pool, actual, callers, broken, health, owner>>

DestroyNotify ==
  /\ dpc = "notify"
  /\ dpc' = "join"
  /\ hpc' = IF hpc = "blocked" THEN "woken" ELSE hpc
  /\ UNCHANGED <<pool, actual, callers, broken, need, running, owner>>

DestroyDrain ==
  /\ dpc = "join"
  /\ hpc = "exited"
  /\ pool' = <<>>
  /\ actual' = 0
  /\ broken' = {}
  /\ dpc' = "done"
  /\ UNCHANGED <<callers, health, running, owner>>

-----------------------------------------------------------------------------
\* The constructor has opened poolSize_ connections and started the thread.
Init ==
  /\ pool \in {s \in [1..PoolSize -> Conn] :
                 \A i, j \in 1..PoolSize : s[i] = s[j] => i = j}
  /\ actual = PoolSize
  /\ pc = [t \in Thread |-> "idle"]
  /\ conn = [t \in Thread |-> NoConn]
  /\ broken = {}
  /\ hpc = "top"
  /\ need = 0
  /\ running = TRUE
  /\ owner = TRUE
  /\ dpc = "none"

Caller(t) ==
  \/ Enter(t) \/ Leave(t) \/ GetConnection(t) \/ Resume(t) \/ SpuriousWake(t)
  \/ ReleaseChecked(t) \/ ReleaseInvalid(t) \/ NotifyAfterDrop(t)
  \/ ReleasePush(t)

HealthThread ==
  \/ HealthTestStop \/ HealthBlock \/ HealthTimeout \/ HealthCheck
  \/ HealthLock \/ HealthCreate \/ HealthCount \/ HealthDone

Destructor == DestroyStop \/ DestroyNotify \/ DestroyDrain

Next ==
  \/ \E t \in Thread : Caller(t)
  \/ \E c \in Conn : Break(c)
  \/ HealthThread
  \/ ResetOwner
  \/ Destructor

Spec == Init /\ [][Next]_vars

\* Threads run their own steps, the health thread and the destructor run to
\* their next blocking point; a handler that has the pool uses or leaves it.
\* Nothing is assumed of Enter, Break, SpuriousWake and ResetOwner.
Fairness ==
  /\ \A t \in Thread :
       /\ WF_vars(GetConnection(t) \/ Leave(t))
       /\ WF_vars(Resume(t))
       /\ WF_vars(ReleaseChecked(t) \/ ReleaseInvalid(t))
       /\ WF_vars(NotifyAfterDrop(t))
       /\ WF_vars(ReleasePush(t))
  /\ WF_vars(HealthThread)
  /\ WF_vars(Destructor)

FairSpec == Spec /\ Fairness

\* The same, where the database does not refuse connections for ever.
DatabaseReturns == SF_vars(HealthCreate)
RecoverySpec == FairSpec /\ DatabaseReturns

-----------------------------------------------------------------------------
TypeOK ==
  /\ pool \in Seq(Conn)
  /\ actual \in Nat
  /\ pc \in [Thread -> {"idle", "ready", "waiting", "woken", "using",
                        "returning", "dropping"}]
  /\ conn \in [Thread -> Conn \cup {NoConn}]
  /\ broken \subseteq Conn
  /\ hpc \in {"top", "blocking", "blocked", "woken", "locking", "create",
              "count", "exited"}
  /\ need \in Nat
  /\ running \in BOOLEAN
  /\ owner \in BOOLEAN
  /\ dpc \in {"none", "notify", "join", "done"}

(* actual_pool_size_ equals the number of connections that exist, idle or  *)
(* in use, although it is changed outside mutex_ by releaseConnection and  *)
(* one step after the queue by the health thread (sqlsave.cpp:106,136).    *)
Accounting ==
  dpc # "done" =>
    Len(pool) + Cardinality(Holders) = actual + (IF hpc = "count" THEN 1 ELSE 0)

(* No connection is handed to two threads, is both queued and in use, or   *)
(* is queued twice (the moves of unique_ptr at sqlsave.cpp:125,148).       *)
Exclusive ==
  /\ \A i, j \in 1..Len(pool) : pool[i] = pool[j] => i = j
  /\ \A t, u \in Holders : conn[t] = conn[u] => t = u
  /\ \A t \in Holders : conn[t] \notin Idle

(* The health thread never opens more than max_open_conns connections,     *)
(* although it computes how many are missing before it takes mutex_ and    *)
(* threads keep dropping connections meanwhile (sqlsave.cpp:100-108).      *)
Capacity == Len(pool) + Cardinality(Holders) <= PoolSize

(* A connection never lies idle while every thread that could pass on a    *)
(* notification is asleep in cv_.wait: the health thread notifies once for *)
(* several new connections, so a thread that drops one must notify too.    *)
NoStrandedWaiter ==
  pool # <<>> /\ Waiters # {} =>
    \/ \E t \in Thread : pc[t] \in {"woken", "using", "returning", "dropping"}
    \/ ~MutexFree

(* The destructor runs only when no thread is inside the pool or waits for *)
(* a connection: every handler keeps a shared_ptr while it uses the pool.  *)
NoUseAfterDestroy == dpc # "none" => \A t \in Thread : pc[t] = "idle"

Lease == INSTANCE ConnectionLease WITH
           idle <- Idle, lease <- conn, Max <- PoolSize

(* The pool implements exclusive leases of at most max_open_conns          *)
(* connections.                                                            *)
ImplementsLease == Lease!Spec

(* ~ConnectionPool finishes even when its notify_all falls between the     *)
(* health thread's test and its wait: the wait has a timeout.              *)
DestructorTerminates == (dpc = "notify") ~> (dpc = "done")

(* When threads wait and nobody holds a connection, some thread gets one,  *)
(* provided the database accepts connections again.                        *)
WaitersServed == (Waiters # {} /\ Holders = {}) ~> (Holders # {})

(* Once connections stop breaking, the pool is brought back to its full    *)
(* size again and again, unless it is being destroyed.                     *)
Refilled ==
  <>[][\A c \in Conn : ~Break(c)]_vars
    => []<>(Cardinality(Open) = PoolSize \/ ~owner)

(* sqlsave.h:131 gives getConnection a timeout ("[FIX] default timeout     *)
(* 5s -> 30s"): a call that finds the pool empty comes back.               *)
GetConnectionReturns ==
  \A t \in Thread : (pc[t] = "waiting") ~> (pc[t] \notin {"waiting", "woken"})
=============================================================================
