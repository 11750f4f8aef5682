------------------------------- MODULE UserList -------------------------------
(***************************************************************************)
(* The page of users that adlist asks of the database: ad_userlist.cpp and *)
(* get_user_list of sqlsave.cpp.  A user is its id, an integer; the rows   *)
(* come ORDER BY id, and the offset is computed in int.                    *)
(***************************************************************************)
EXTENDS Integers, FiniteSets

CONSTANTS
  Limit,  \* l, the rows of a page
  IntMax  \* the largest int

ASSUME UserListAssumption ==
  /\ Limit \in Nat \ {0}
  /\ IntMax \in Nat /\ Limit <= IntMax

-----------------------------------------------------------------------------
\* The wrap of an int multiplication.
Int32(n) == ((n + IntMax + 1) % (2 * (IntMax + 1))) - (IntMax + 1)

FirstPage(page) == IF page < 1 THEN 1 ELSE page

\* fault: consecutive pages share a row
OverlappingOffset(page) == Int32((FirstPage(page) - 1) * (Limit - 1))

Offset(page) == Int32((FirstPage(page) - 1) * Limit)

\* The pages whose offset is not changed by the wrap.
Exact(page) == (FirstPage(page) - 1) * Limit <= IntMax

\* How many of the users of the table come before u.
Before(table, u) == Cardinality({v \in table : v < u})

\* LIMIT Limit OFFSET Offset(page); the database refuses a negative offset.
Refused(page) == Offset(page) < 0

Rows(table, page) ==
  {u \in table : LET k == Before(table, u) - Offset(page) IN 0 <= k /\ k < Limit}
=============================================================================
