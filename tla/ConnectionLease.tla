--------------------------- MODULE ConnectionLease ---------------------------
(***************************************************************************)
(* What the connection pool promises its callers, without queue, mutex or  *)
(* health thread: at most Max connections are open, each is idle or leased *)
(* to one thread, and a thread holds at most one.                          *)
(***************************************************************************)
EXTENDS Naturals, FiniteSets

CONSTANTS Thread, Conn, Max, NoConn

VARIABLES
  idle,   \* connections nobody uses
  lease   \* the connection each thread uses, or NoConn

Leased == {lease[t] : t \in {u \in Thread : lease[u] # NoConn}}

Init ==
  /\ idle \in SUBSET Conn
  /\ Cardinality(idle) = Max
  /\ lease = [t \in Thread |-> NoConn]

\* A thread is given an idle connection.
Grant(t) ==
  /\ lease[t] = NoConn
  /\ \E c \in idle :
       /\ lease' = [lease EXCEPT ![t] = c]
       /\ idle' = idle \ {c}

\* A thread gives its connection back for others to use.
Return(t) ==
  /\ lease[t] # NoConn
  /\ idle' = idle \cup {lease[t]}
  /\ lease' = [lease EXCEPT ![t] = NoConn]

\* A thread gives up a connection that no longer works.
Discard(t) ==
  /\ lease[t] # NoConn
  /\ lease' = [lease EXCEPT ![t] = NoConn]
  /\ UNCHANGED idle

\* A new connection, only when fewer than Max are open.
Replace(c) ==
  /\ c \notin idle \cup Leased
  /\ Cardinality(idle \cup Leased) < Max
  /\ idle' = idle \cup {c}
  /\ UNCHANGED lease

\* The pool is closed, only when nobody holds a connection.
CloseAll ==
  /\ Leased = {}
  /\ idle' = {}
  /\ UNCHANGED lease

Next ==
  \/ \E t \in Thread : Grant(t) \/ Return(t) \/ Discard(t)
  \/ \E c \in Conn : Replace(c)
  \/ CloseAll

Spec == Init /\ [][Next]_<<idle, lease>>
=============================================================================
