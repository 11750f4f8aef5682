------------------------------ MODULE Lifecycle ------------------------------
(***************************************************************************)
(* The life of the process: start() and main of main.cpp, the objects that *)
(* the requests use (g_db, the business pool, the io_context, TokenPool)   *)
(* and the order in which main and the static destructors destroy them.    *)
(*                                                                         *)
(* Main runs beside the io threads, the tasks of the business pool and the *)
(* worker of TokenPool.  A task uses g_db through a pointer it reads: null *)
(* kills the process, and a sqlsave destroyed meanwhile kills it or not.   *)
(* A std::thread that is destroyed or assigned to while it has not been    *)
(* joined or detached kills the process too.                               *)
(***************************************************************************)
EXTENDS Naturals

CONSTANTS
  Task   \* the requests that reach the business pool

VARIABLES
  mpc,      \* where main stands
  code,     \* what the process was asked to exit with
  running,  \* the flag that console_handler clears
  io,       \* the io_context and its threads
  ptr,      \* g_db is not null
  db,       \* the sqlsave g_db was made to own
  task,     \* the tasks
  writer,   \* g_writer_thread
  token,    \* the worker of TokenPool
  started,  \* TokenPool::started
  death     \* what killed the process, or "no"

objects == <<io, ptr, db, writer>>
tokens  == <<token, started>>
vars    == <<mpc, code, running, io, ptr, db, task, writer, token, started, death>>

-----------------------------------------------------------------------------
Alive == mpc \notin {"ended", "dead"}

Die(why) == mpc' = "dead" /\ death' = why

InPool(t) == task[t] \in {"queued", "running", "holding", "discarded"}
Active(t) == task[t] \in {"running", "holding"}

\* exit(c), or the return of main.
Exit(c) == mpc' = "exit" /\ code' = c

-----------------------------------------------------------------------------
(* start().                                                                *)

\* log_start and the business pool, then load_config; main goes on when it
\* fails, and GlobalConfig is null.
Configure ==
  /\ mpc = "start"
  /\ writer' = "running"
  /\ \/ mpc' = "connect" /\ UNCHANGED death
     \/ Die("config")
  /\ UNCHANGED <<code, running, io, ptr, db, task, tokens>>

Connect ==
  /\ mpc = "connect"
  /\ ptr' = TRUE /\ db' = "alive"
  /\ mpc' \in {"listen", "failed"}
  /\ UNCHANGED <<code, running, io, task, writer, tokens, death>>

\* A key is pressed: exit(1).
ExitFailed ==
  /\ mpc = "failed"
  /\ Exit(1)
  /\ UNCHANGED <<running, objects, task, tokens, death>>

(* main.  The acceptor may throw, which is caught: return 1.               *)
Listen ==
  /\ mpc = "listen"
  /\ \/ mpc' = "serving" /\ io' = "running" /\ UNCHANGED code
     \/ Exit(1) /\ UNCHANGED io
  /\ UNCHANGED <<running, ptr, db, task, writer, tokens, death>>

ConsoleHandler ==
  /\ Alive /\ mpc # "start"
  /\ running
  /\ running' = FALSE
  /\ UNCHANGED <<mpc, code, objects, task, tokens, death>>

\* acceptor.close() and io_context.stop().
StopIo ==
  /\ mpc = "serving" /\ ~running
  /\ io' = "stopping"
  /\ mpc' = "joinio"
  /\ UNCHANGED <<code, running, ptr, db, task, writer, tokens, death>>

Detached == "stopping"  \* fault: detach() for join()
IoJoined == "joined"

JoinIo ==
  /\ mpc = "joinio"
  /\ io' = IoJoined
  /\ mpc' = "resetdb"
  /\ UNCHANGED <<code, running, ptr, db, task, writer, tokens, death>>

\* g_db.reset() clears the pointer and then destroys the object.
ResetPointer ==
  /\ mpc = "resetdb"
  /\ ptr' = FALSE
  /\ mpc' = "freedb"
  /\ UNCHANGED <<code, running, io, db, task, writer, tokens, death>>

FreeDb ==
  /\ mpc = "freedb"
  /\ db' = "gone"
  /\ mpc' = "stoppool"
  /\ UNCHANGED <<code, running, io, ptr, task, writer, tokens, death>>

\* g_business_pool: stop() leaves the queued tasks where they are, join()
\* waits for the others, and the destructor destroys what is left.
StopPool ==
  /\ mpc = "stoppool"
  /\ task' = [t \in Task |-> IF task[t] = "queued" THEN "discarded" ELSE task[t]]
  /\ mpc' = "joinpool"
  /\ UNCHANGED <<code, running, objects, tokens, death>>

NotJoined == TRUE    \* fault: stop() without join()
Joined == \A t \in Task : ~Active(t)

JoinPool ==
  /\ mpc = "joinpool"
  /\ Joined
  /\ mpc' = "resetpool"
  /\ UNCHANGED <<code, running, objects, task, tokens, death>>

NotDestroyed == task  \* fault: left to the static destructors
DestroyDiscarded ==
  [t \in Task |-> IF task[t] = "discarded" THEN "destroyed" ELSE task[t]]

ResetPool ==
  /\ mpc = "resetpool"
  /\ task' = DestroyDiscarded
  /\ mpc' = "stoplog"
  /\ UNCHANGED <<code, running, objects, tokens, death>>

\* log_stop joins the writer and detaches the thread of the clock.
NotStopped == "running"  \* fault: the flag is cleared, the thread not joined
WriterJoined == "joined"

LogStop ==
  /\ mpc = "stoplog"
  /\ writer' = WriterJoined
  /\ mpc' = "unwind"
  /\ UNCHANGED <<code, running, io, ptr, db, task, tokens, death>>

\* The end of main's try block destroys the io_context.
Unwind ==
  /\ mpc = "unwind"
  /\ io' = "destroyed"
  /\ Exit(0)
  /\ UNCHANGED <<running, ptr, db, task, writer, tokens, death>>

-----------------------------------------------------------------------------
(* The static destructors: ~TokenPool first, the thread of the log later.  *)
KeepStarted == TRUE   \* fault: join() before the flag is cleared
ClearStarted == FALSE

DestroyTokenPool ==
  /\ mpc = "exit"
  /\ started' = ClearStarted
  /\ mpc' = "jointoken"
  /\ UNCHANGED <<code, running, objects, task, token, death>>

JoinToken ==
  /\ mpc = "jointoken"
  /\ token \in {"none", "returned"}
  /\ mpc' = "statics"
  /\ UNCHANGED <<code, running, objects, task, tokens, death>>

DestroyStatics ==
  /\ mpc = "statics"
  /\ \/ writer # "running" /\ mpc' = "ended" /\ UNCHANGED death
     \/ writer = "running" /\ Die("unjoined thread")
  /\ UNCHANGED <<code, running, objects, task, tokens>>

(* The worker of TokenPool calls g_tpool() itself: if the flag has been    *)
(* cleared before, it starts another thread into the one being joined.     *)
WorkerStart ==
  /\ Alive /\ token = "created"
  /\ \/ started /\ token' = "looping" /\ UNCHANGED <<mpc, started, death>>
     \/ ~started /\ started' = TRUE /\ Die("second worker") /\ UNCHANGED token
  /\ UNCHANGED <<code, running, objects, task>>

WorkerStop ==
  /\ Alive /\ token = "looping"
  /\ ~started
  /\ token' = "returned"
  /\ UNCHANGED <<mpc, code, running, objects, task, started, death>>

-----------------------------------------------------------------------------
(* A request, read by an io thread and run by a thread of the business     *)
(* pool; its handler uses g_db and TokenCache any number of times.         *)
Post(t) ==
  /\ Alive /\ io \in {"running", "stopping"}
  /\ task[t] = "none"
  /\ task' = [task EXCEPT ![t] = "queued"]
  /\ UNCHANGED <<mpc, code, running, objects, tokens, death>>

Begin(t) ==
  /\ Alive /\ task[t] = "queued"
  /\ task' = [task EXCEPT ![t] = "running"]
  /\ UNCHANGED <<mpc, code, running, objects, tokens, death>>

LoadDb(t) ==
  /\ Alive /\ task[t] = "running"
  /\ \/ ptr /\ task' = [task EXCEPT ![t] = "holding"] /\ UNCHANGED <<mpc, death>>
     \/ ~ptr /\ Die("null g_db") /\ UNCHANGED task
  /\ UNCHANGED <<code, running, objects, tokens>>

\* Undefined once the sqlsave is gone: the process dies, or nothing shows.
UseDb(t) ==
  /\ Alive /\ task[t] = "holding"
  /\ \/ task' = [task EXCEPT ![t] = "running"] /\ UNCHANGED <<mpc, death>>
     \/ db = "gone" /\ Die("dangling g_db") /\ UNCHANGED task
  /\ UNCHANGED <<code, running, objects, tokens>>

\* The first TokenCache::Get creates the worker.
DrawToken(t) ==
  /\ Alive /\ task[t] = "running"
  /\ token = "none"
  /\ token' = "created" /\ started' = TRUE
  /\ UNCHANGED <<mpc, code, running, objects, task, death>>

Finish(t) ==
  /\ Alive /\ task[t] = "running"
  /\ task' = [task EXCEPT ![t] = "done"]
  /\ UNCHANGED <<mpc, code, running, objects, tokens, death>>

-----------------------------------------------------------------------------
Init ==
  /\ mpc = "start" /\ code = 0 /\ running = TRUE
  /\ io = "none" /\ ptr = FALSE /\ db = "none"
  /\ task = [t \in Task |-> "none"]
  /\ writer = "none"
  /\ token = "none" /\ started = FALSE
  /\ death = "no"

Main ==
  \/ Configure \/ Connect \/ ExitFailed \/ Listen
  \/ StopIo \/ JoinIo \/ ResetPointer \/ FreeDb
  \/ StopPool \/ JoinPool \/ ResetPool \/ LogStop \/ Unwind
  \/ DestroyTokenPool \/ JoinToken \/ DestroyStatics

Worker == WorkerStart \/ WorkerStop

Handle(t) == LoadDb(t) \/ UseDb(t) \/ DrawToken(t)

Next ==
  \/ Main \/ Worker \/ ConsoleHandler
  \/ \E t \in Task : Post(t) \/ Begin(t) \/ Handle(t) \/ Finish(t)

Spec == Init /\ [][Next]_vars

\* Threads that can run do, and a handler comes to its end (it may not while
\* the database is gone: getConnection has no timeout).
FairSpec ==
  /\ Spec
  /\ WF_vars(Main) /\ WF_vars(Worker)
  /\ \A t \in Task : WF_vars(UseDb(t)) /\ SF_vars(Finish(t))

-----------------------------------------------------------------------------
TypeOK ==
  /\ mpc \in {"start", "connect", "failed", "listen", "serving", "joinio",
              "resetdb", "freedb", "stoppool", "joinpool", "resetpool",
              "stoplog", "unwind", "exit", "jointoken", "statics", "ended",
              "dead"}
  /\ code \in {0, 1}
  /\ io \in {"none", "running", "stopping", "joined", "destroyed"}
  /\ db \in {"none", "alive", "gone"}
  /\ task \in [Task -> {"none", "queued", "running", "holding", "done",
                        "discarded", "destroyed"}]
  /\ writer \in {"none", "running", "joined"}
  /\ token \in {"none", "created", "looping", "returned"}
  /\ {running, ptr, started} \subseteq BOOLEAN
  /\ death \in {"no", "config", "null g_db", "dangling g_db",
                "unjoined thread", "second worker"}
  /\ death = "no" <=> mpc # "dead"

(* What main and the static destructors destroy is no longer used.  A      *)
(* task, even one that was discarded, owns a session with a socket of the  *)
(* io_context, so that the io_context is destroyed when no task is left    *)
(* (main.cpp:757 before the end of the block); and ~TokenPool runs when no *)
(* handler can lock it (othertool.cpp:325-328 after main.cpp:755).         *)
DestroyedAfterUse ==
  /\ io = "destroyed" => \A t \in Task : ~InPool(t)
  /\ mpc \in {"jointoken", "statics", "ended"} => \A t \in Task : ~Active(t)

(* A handler meets a missing g_db only in the window that main leaves      *)
(* between g_db.reset() and the join of the business pool, after the io    *)
(* threads have ended; a process that serves requests never dies of it.    *)
DiesInWindow ==
  [][death' \in {"null g_db", "dangling g_db"} /\ Alive =>
       mpc \in {"freedb", "stoppool", "joinpool"} /\ io = "joined"]_vars

(* Once asked to stop, the process ends, cleanly or not: main joins three  *)
(* kinds of threads, and none of them waits for what main has destroyed.   *)
Stops == (mpc = "serving" /\ ~running) ~> ~Alive

(* With no request left when g_db is reset, and the worker of TokenPool in *)
(* its loop if there is one, the process ends with exit code 0: main has   *)
(* joined or destroyed everything the static destructors would trip over.  *)
CleanWhenIdle ==
  (mpc = "resetdb" /\ token # "created" /\ \A t \in Task : ~InPool(t))
    ~> (mpc = "ended" /\ code = 0)

(* The thread of the log outlives main only on the early exits: a start    *)
(* that cannot connect (main.cpp:684) or listen (main.cpp:769) stops with  *)
(* code 1 but never calls log_stop, and the destructor of the joinable     *)
(* thread aborts the process.  No other way out ends like that.            *)
AbortsOnlyEarly ==
  death = "unjoined thread" => code = 1 /\ io = "none"
=============================================================================
