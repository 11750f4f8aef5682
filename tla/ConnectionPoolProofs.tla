------------------------ MODULE ConnectionPoolProofs ------------------------
(***************************************************************************)
(* Proofs about ConnectionPool for any finite set of threads, any set of   *)
(* connections and any pool size.                                          *)
(***************************************************************************)
EXTENDS ConnectionPool, FiniteSetTheorems, TLAPS

PCs == {"idle", "ready", "waiting", "woken", "using", "returning", "dropping"}

\* A thread owns a connection exactly while it uses or returns it.
OwnerInv == \A t \in Thread : conn[t] # NoConn <=> t \in Holders

\* The health thread opens at most what is missing, and nobody can take the
\* connection it has queued but not yet counted.
HealthInv ==
  /\ actual <= PoolSize
  /\ hpc \in {"locking", "create", "count"} => actual + need <= PoolSize
  /\ hpc = "count" => need > 0 /\ pool # <<>>

\* The destructor has no company, and nothing follows it.
LifeInv ==
  /\ dpc # "none" => ~owner /\ \A t \in Thread : pc[t] = "idle"
  /\ dpc = "done" => hpc = "exited" /\ pool = <<>>

IInv ==
  TypeOK /\ OwnerInv /\ Accounting /\ Exclusive /\ HealthInv /\ LifeInv

-----------------------------------------------------------------------------
\* The holders are counted by a natural number, and one more or one less
\* changes the count by one.
LEMMA HoldersCount ==
  ASSUME NEW S \in SUBSET Thread
  PROVE  /\ IsFiniteSet(S)
         /\ Cardinality(S) \in Nat
         /\ \A t \in Thread \ S : Cardinality(S \cup {t}) = Cardinality(S) + 1
         /\ \A t \in S : /\ Cardinality(S \ {t}) = Cardinality(S) - 1
                         /\ Cardinality(S) > 0
<1>1. IsFiniteSet(S)
  BY PoolAssumption, FS_Subset
<1>2. Cardinality(S) \in Nat
  BY <1>1, FS_CardinalityType
<1>3. \A t \in Thread \ S : Cardinality(S \cup {t}) = Cardinality(S) + 1
  BY <1>1, FS_AddElement
<1>4. ASSUME NEW t \in S
      PROVE  Cardinality(S \ {t}) = Cardinality(S) - 1 /\ Cardinality(S) > 0
  <2>1. Cardinality(S \ {t}) = Cardinality(S) - 1
    BY <1>1, FS_RemoveElement
  <2>2. S # {}
    OBVIOUS
  <2>3. Cardinality(S) # 0
    BY <1>1, <2>2, FS_EmptySet
  <2> QED BY <1>2, <2>1, <2>3
<1> QED BY <1>1, <1>2, <1>3, <1>4

\* notify_one moves the caller to f and at most one waiting thread to "woken".
LEMMA NotifyStep ==
  ASSUME NEW f \in [Thread -> PCs],
         \A w \in Waiters : f[w] = "waiting",
         NotifyOne(f)
  PROVE  /\ pc' \in [Thread -> PCs]
         /\ \A u \in Thread : \/ pc'[u] = f[u]
                              \/ f[u] = "waiting" /\ pc'[u] = "woken"
         /\ Waiters # {} => \E w \in Thread : pc'[w] = "woken"
<1>1. CASE Waiters = {}
  BY <1>1 DEF NotifyOne
<1>2. CASE Waiters # {}
  <2>1. PICK w \in Waiters : pc' = [f EXCEPT ![w] = "woken"]
    BY <1>2 DEF NotifyOne
  <2>2. w \in Thread /\ f[w] = "waiting"
    BY DEF Waiters
  <2> QED BY <2>1, <2>2 DEF PCs
<1> QED BY <1>1, <1>2

\* Taking the head of a queue without duplicates, and appending a new element.
LEMMA QueueFacts ==
  ASSUME NEW s \in Seq(Conn)
  PROVE  /\ s # <<>> =>
              /\ Head(s) \in Conn
              /\ Tail(s) \in Seq(Conn)
              /\ Len(Tail(s)) = Len(s) - 1
              /\ Head(s) = s[1]
              /\ \A i \in 1..Len(Tail(s)) : Tail(s)[i] = s[i + 1]
              /\ 1 \in 1..Len(s)
         /\ \A c \in Conn :
              /\ Append(s, c) \in Seq(Conn)
              /\ Append(s, c) # <<>>
              /\ Len(Append(s, c)) = Len(s) + 1
              /\ \A i \in 1..Len(s) : Append(s, c)[i] = s[i]
              /\ Append(s, c)[Len(s) + 1] = c
         /\ Len(s) \in Nat
OBVIOUS
-----------------------------------------------------------------------------
LEMMA InitIInv == Init => IInv
<1> SUFFICES ASSUME Init PROVE IInv
  OBVIOUS
<1>0. PoolSize \in Nat \ {0} /\ NoConn \notin Conn
  BY PoolAssumption
<1>1. pool \in Seq(Conn) /\ Len(pool) = PoolSize
  BY <1>0 DEF Init
<1>2. Holders = {}
  BY DEF Init, Holders
<1>3. Cardinality(Holders) = 0
  BY <1>2, FS_EmptySet
<1>4. TypeOK
  BY <1>0, <1>1 DEF Init, TypeOK
<1>5. OwnerInv
  BY <1>2 DEF Init, OwnerInv
<1>6. Accounting
  BY <1>0, <1>1, <1>3 DEF Init, Accounting
<1>7. Exclusive
  BY <1>0, <1>1, <1>2 DEF Init, Exclusive
<1>8. HealthInv /\ LifeInv
  BY <1>0 DEF Init, HealthInv, LifeInv
<1> QED BY <1>4, <1>5, <1>6, <1>7, <1>8 DEF IInv

\* Steps that change only control states, and not who holds a connection.
LEMMA ControlStep ==
  ASSUME IInv,
         UNCHANGED <<pool, actual, conn>>,
         broken' \subseteq Conn,
         pc' \in [Thread -> PCs],
         \A t \in Thread : pc'[t] \in {"using", "returning"}
                             <=> pc[t] \in {"using", "returning"},
         hpc' = "count" <=> hpc = "count"
  PROVE  /\ Holders' = Holders
         /\ OwnerInv'
         /\ Exclusive'
         /\ dpc' # "done" /\ dpc # "done" => Accounting'
<1>1. Holders' = Holders
  BY DEF Holders
<1>2. OwnerInv'
  BY <1>1 DEF IInv, OwnerInv
<1>3. Exclusive'
  BY <1>1 DEF IInv, Exclusive, Idle
<1>4. dpc' # "done" /\ dpc # "done" => Accounting'
  BY <1>1 DEF IInv, Accounting
<1> QED BY <1>1, <1>2, <1>3, <1>4

LEMMA TakeOrWaitStep ==
  ASSUME IInv, NEW t \in Thread, pc[t] \in {"ready", "woken"}, TakeOrWait(t)
  PROVE  IInv'
<1> USE PoolAssumption
<1>1. dpc = "none"
  BY DEF IInv, LifeInv, TypeOK
<1>2. t \notin Holders /\ Holders \subseteq Thread
  BY DEF Holders
<1>3. CASE pool = <<>>
  <2>1. TypeOK' /\ pc' \in [Thread -> PCs]
    BY <1>3 DEF IInv, TypeOK, TakeOrWait, callers, health, life, PCs
  <2>2. HealthInv' /\ LifeInv' /\ dpc' = "none"
    BY <1>1, <1>3 DEF IInv, HealthInv, LifeInv, TakeOrWait, callers, health, life
  <2>3. /\ UNCHANGED <<pool, actual, conn>>
        /\ broken' \subseteq Conn
        /\ \A u \in Thread : pc'[u] \in {"using", "returning"}
                               <=> pc[u] \in {"using", "returning"}
        /\ hpc' = "count" <=> hpc = "count"
    BY <1>3 DEF IInv, TypeOK, TakeOrWait, health
  <2>4. OwnerInv' /\ Accounting' /\ Exclusive'
    BY <1>1, <2>1, <2>2, <2>3, ControlStep
  <2> QED BY <2>1, <2>2, <2>4 DEF IInv
<1>4. CASE pool # <<>>
  <2>1. /\ pool' = Tail(pool)
        /\ conn' = [conn EXCEPT ![t] = Head(pool)]
        /\ pc' = [pc EXCEPT ![t] = "using"]
        /\ UNCHANGED <<actual, broken, hpc, need, running, owner, dpc>>
        /\ MutexFree
    BY <1>4 DEF TakeOrWait, PopFront, health, life
  <2>2. /\ Head(pool) \in Conn
        /\ Tail(pool) \in Seq(Conn)
        /\ Len(Tail(pool)) = Len(pool) - 1
        /\ Head(pool) = pool[1]
        /\ \A i \in 1..Len(Tail(pool)) : Tail(pool)[i] = pool[i + 1]
        /\ 1 \in 1..Len(pool)
        /\ Len(pool) \in Nat
    BY <1>4, QueueFacts DEF IInv, TypeOK
  <2>3. Holders' = Holders \cup {t}
    BY <2>1 DEF Holders, IInv, TypeOK
  <2>4. TypeOK'
    BY <2>1, <2>2 DEF IInv, TypeOK
  <2>5. OwnerInv'
    BY <2>1, <2>2, <2>3 DEF IInv, TypeOK, OwnerInv
  <2>6. Accounting'
    <3>1. Cardinality(Holders') = Cardinality(Holders) + 1 /\ Cardinality(Holders) \in Nat
      BY <1>2, <2>3, HoldersCount
    <3> QED BY <1>1, <2>1, <2>2, <3>1 DEF IInv, Accounting, TypeOK
  <2>7. Exclusive'
    <3>1. \A i, j \in 1..Len(pool') : pool'[i] = pool'[j] => i = j
      BY <2>1, <2>2 DEF IInv, Exclusive
    <3>2. \A u \in Holders : conn'[u] = conn[u] /\ conn[u] # Head(pool)
      BY <1>2, <2>1, <2>2 DEF IInv, Exclusive, TypeOK, Idle
    <3>3. conn'[t] = Head(pool)
      BY <2>1 DEF IInv, TypeOK
    <3>4. \A u, v \in Holders' : conn'[u] = conn'[v] => u = v
      BY <2>3, <3>2, <3>3 DEF IInv, Exclusive
    <3>5. Idle' \subseteq Idle /\ Head(pool) \notin Idle'
      BY <2>1, <2>2 DEF IInv, Exclusive, Idle
    <3>6. \A u \in Holders' : conn'[u] \notin Idle'
      BY <2>3, <3>2, <3>3, <3>5 DEF IInv, Exclusive
    <3> QED BY <3>1, <3>4, <3>6 DEF Exclusive
  <2>8. HealthInv' /\ LifeInv'
    BY <1>1, <2>1 DEF IInv, HealthInv, LifeInv, MutexFree
  <2> QED BY <2>4, <2>5, <2>6, <2>7, <2>8 DEF IInv
<1> QED BY <1>3, <1>4

LEMMA ReleaseInvalidStep ==
  ASSUME IInv, NEW t \in Thread, ReleaseInvalid(t)
  PROVE  IInv'
<1> USE PoolAssumption
<1>0. /\ pc[t] = "using"
      /\ actual' = actual - 1
      /\ broken' = broken \ {conn[t]}
      /\ conn' = [conn EXCEPT ![t] = NoConn]
      /\ pc' = [pc EXCEPT ![t] = "dropping"]
      /\ UNCHANGED <<pool, hpc, need, running, owner, dpc>>
  BY DEF ReleaseInvalid, GiveUpSlot, health, life
<1>1. dpc = "none"
  BY <1>0 DEF IInv, LifeInv, TypeOK
<1>2. t \in Holders /\ Holders \subseteq Thread
  BY <1>0 DEF Holders
<1>3. Holders' = Holders \ {t}
  BY <1>0 DEF Holders, IInv, TypeOK
<1>4. /\ Cardinality(Holders') = Cardinality(Holders) - 1
      /\ Cardinality(Holders) \in Nat
      /\ Cardinality(Holders) > 0
  BY <1>2, <1>3, HoldersCount
<1>5. Len(pool) \in Nat /\ (pool # <<>> => Len(pool) > 0)
  BY DEF IInv, TypeOK
<1>6. actual' \in Nat
  BY <1>0, <1>1, <1>4, <1>5 DEF IInv, TypeOK, Accounting, HealthInv
<1>7. TypeOK'
  BY <1>0, <1>6 DEF IInv, TypeOK
<1>8. OwnerInv'
  BY <1>0, <1>3 DEF IInv, TypeOK, OwnerInv
<1>9. Accounting'
  BY SMTT(20), <1>0, <1>1, <1>4, <1>5, <1>6 DEF IInv, TypeOK, Accounting
<1>10. Exclusive'
  <2>1. \A u \in Holders' : u \in Holders /\ conn'[u] = conn[u]
    BY <1>0, <1>2, <1>3 DEF IInv, TypeOK
  <2>2. Idle' = Idle
    BY <1>0 DEF Idle
  <2> QED BY <1>0, <2>1, <2>2 DEF IInv, Exclusive
<1>11. HealthInv' /\ LifeInv'
  BY <1>0, <1>1, <1>6 DEF IInv, TypeOK, HealthInv, LifeInv
<1> QED BY <1>7, <1>8, <1>9, <1>10, <1>11 DEF IInv

LEMMA ReleasePushStep ==
  ASSUME IInv, NEW t \in Thread, ReleasePush(t)
  PROVE  IInv'
<1> USE PoolAssumption
<1>0. /\ pc[t] = "returning"
      /\ MutexFree
      /\ pool' = Append(pool, conn[t])
      /\ conn' = [conn EXCEPT ![t] = NoConn]
      /\ NotifyOne([pc EXCEPT ![t] = "ready"])
      /\ UNCHANGED <<actual, broken, hpc, need, running, owner, dpc>>
  BY DEF ReleasePush, health, life
<1>1. dpc = "none"
  BY <1>0 DEF IInv, LifeInv, TypeOK
<1>2. t \in Holders /\ Holders \subseteq Thread
  BY <1>0 DEF Holders
<1>3. conn[t] \in Conn
  BY <1>2 DEF IInv, OwnerInv, TypeOK
<1> DEFINE f == [pc EXCEPT ![t] = "ready"]
<1>4. f \in [Thread -> PCs] /\ \A w \in Waiters : f[w] = "waiting"
  BY <1>0 DEF IInv, TypeOK, PCs, Waiters
<1>5. /\ pc' \in [Thread -> PCs]
      /\ \A u \in Thread : \/ pc'[u] = f[u]
                           \/ f[u] = "waiting" /\ pc'[u] = "woken"
  <2> HIDE DEF f
  <2>1. NotifyOne(f)
    BY <1>0 DEF f
  <2> QED BY <1>4, <2>1, NotifyStep
<1>6. Holders' = Holders \ {t}
  BY <1>0, <1>5 DEF Holders, IInv, TypeOK
<1>7. /\ Cardinality(Holders') = Cardinality(Holders) - 1
      /\ Cardinality(Holders) \in Nat
  BY <1>2, <1>6, HoldersCount
<1>8. /\ pool' \in Seq(Conn)
      /\ pool' # <<>>
      /\ Len(pool') = Len(pool) + 1
      /\ \A i \in 1..Len(pool) : pool'[i] = pool[i]
      /\ pool'[Len(pool) + 1] = conn[t]
      /\ Len(pool) \in Nat
  BY <1>0, <1>3, QueueFacts DEF IInv, TypeOK
<1>9. TypeOK'
  BY <1>0, <1>5, <1>8 DEF IInv, TypeOK, PCs
<1>10. OwnerInv'
  BY <1>0, <1>6 DEF IInv, TypeOK, OwnerInv
<1>11. Accounting'
  BY <1>0, <1>1, <1>7, <1>8 DEF IInv, TypeOK, Accounting
<1>12. Exclusive'
  <2>1. \A u \in Holders' : u \in Holders /\ u # t /\ conn'[u] = conn[u]
    BY <1>0, <1>6 DEF IInv, TypeOK, Holders
  <2>2. Idle' = Idle \cup {conn[t]}
    BY <1>8 DEF Idle
  <2>3. conn[t] \notin Idle
    BY <1>2 DEF IInv, Exclusive
  <2>4. \A i, j \in 1..Len(pool') : pool'[i] = pool'[j] => i = j
    BY <1>8, <2>3 DEF IInv, Exclusive, Idle
  <2> QED BY <1>2, <2>1, <2>2, <2>4 DEF IInv, Exclusive
<1>13. HealthInv' /\ LifeInv'
  BY <1>0, <1>1 DEF IInv, HealthInv, LifeInv, MutexFree
<1> QED BY <1>9, <1>10, <1>11, <1>12, <1>13 DEF IInv

\* The caller's steps that leave every connection where it is.
LEMMA CallerControlStep ==
  ASSUME IInv, NEW t \in Thread,
         \/ Enter(t) \/ Leave(t) \/ SpuriousWake(t)
         \/ ReleaseChecked(t) \/ NotifyAfterDrop(t)
  PROVE  IInv'
<1> USE PoolAssumption
<1>1. /\ UNCHANGED <<pool, actual, conn, broken, hpc, need, running, owner, dpc>>
      /\ dpc = "none"
  BY DEF Enter, Leave, SpuriousWake, ReleaseChecked, NotifyAfterDrop, health,
         life, IInv, LifeInv, TypeOK
<1>2. /\ pc' \in [Thread -> PCs]
      /\ \A u \in Thread : pc'[u] \in {"using", "returning"}
                             <=> pc[u] \in {"using", "returning"}
  <2>1. CASE NotifyAfterDrop(t)
    <3> DEFINE f == [pc EXCEPT ![t] = "ready"]
    <3>1. /\ f \in [Thread -> PCs]
          /\ \A w \in Waiters : f[w] = "waiting"
          /\ \A u \in Thread : \/ f[u] = pc[u]
                               \/ pc[u] = "dropping" /\ f[u] = "ready"
      BY <2>1 DEF IInv, TypeOK, PCs, Waiters, NotifyAfterDrop
    <3>2. NotifyOne(f)
      BY <2>1 DEF NotifyAfterDrop, DropAndNotify
    <3> HIDE DEF f
    <3>3. /\ pc' \in [Thread -> PCs]
          /\ \A u \in Thread : \/ pc'[u] = f[u]
                               \/ f[u] = "waiting" /\ pc'[u] = "woken"
      BY <3>1, <3>2, NotifyStep
    <3> QED BY <3>1, <3>3
  <2>2. CASE Enter(t) \/ Leave(t) \/ SpuriousWake(t) \/ ReleaseChecked(t)
    BY <2>2 DEF IInv, TypeOK, PCs, Enter, Leave, SpuriousWake, ReleaseChecked
  <2> QED BY <2>1, <2>2
<1>3. OwnerInv' /\ Exclusive' /\ Accounting'
  BY <1>1, <1>2, ControlStep DEF IInv, TypeOK
<1>4. TypeOK'
  BY <1>1, <1>2 DEF IInv, TypeOK, PCs
<1>5. HealthInv' /\ LifeInv'
  BY <1>1 DEF IInv, HealthInv, LifeInv
<1> QED BY <1>3, <1>4, <1>5 DEF IInv

LEMMA BreakStep ==
  ASSUME IInv, NEW c \in Conn, Break(c)
  PROVE  IInv'
<1>1. UNCHANGED <<pool, actual, pc, conn, hpc, need, running, owner, dpc>>
  BY DEF Break, callers, health, life
<1>2. TypeOK'
  BY <1>1 DEF IInv, TypeOK, Break
<1> QED BY <1>1, <1>2 DEF IInv, OwnerInv, Accounting, Exclusive, HealthInv,
             LifeInv, Holders, Idle

LEMMA HealthCreateStep ==
  ASSUME IInv, HealthCreate
  PROVE  IInv'
<1> USE PoolAssumption
<1>1. PICK c \in Conn \ Open : pool' = Append(pool, c)
  BY DEF HealthCreate
<1>2. /\ hpc = "create" /\ need > 0 /\ hpc' = "count"
      /\ UNCHANGED <<actual, pc, conn, broken, need, running, owner, dpc>>
  BY DEF HealthCreate, callers, life
<1>3. /\ pool' \in Seq(Conn)
      /\ pool' # <<>>
      /\ Len(pool') = Len(pool) + 1
      /\ \A i \in 1..Len(pool) : pool'[i] = pool[i]
      /\ pool'[Len(pool) + 1] = c
      /\ Len(pool) \in Nat
  BY <1>1, QueueFacts DEF IInv, TypeOK
<1>4. TypeOK'
  BY <1>2, <1>3 DEF IInv, TypeOK
<1>5. Holders' = Holders /\ OwnerInv'
  BY <1>2 DEF IInv, OwnerInv, Holders
<1>6. Accounting'
  <2>1. Cardinality(Holders) \in Nat
    BY HoldersCount DEF Holders
  <2> QED BY <1>2, <1>3, <1>5, <2>1 DEF IInv, TypeOK, Accounting
<1>7. Exclusive'
  <2>1. Idle' = Idle \cup {c}
    BY <1>3 DEF Idle
  <2>2. c \notin Idle /\ \A t \in Holders : conn[t] # c
    BY DEF Open
  <2>3. \A i, j \in 1..Len(pool') : pool'[i] = pool'[j] => i = j
    BY <1>3, <2>2 DEF IInv, Exclusive, Idle
  <2> QED BY <1>2, <1>5, <2>1, <2>2, <2>3 DEF IInv, Exclusive
<1>8. HealthInv' /\ LifeInv'
  BY <1>2, <1>3 DEF IInv, TypeOK, HealthInv, LifeInv
<1> QED BY <1>4, <1>5, <1>6, <1>7, <1>8 DEF IInv

LEMMA HealthCountStep ==
  ASSUME IInv, HealthCount
  PROVE  IInv'
<1> USE PoolAssumption
<1>1. /\ hpc = "count" /\ hpc' = "create"
      /\ actual' = actual + 1 /\ need' = need - 1
      /\ UNCHANGED <<pool, pc, conn, broken, running, owner, dpc>>
  BY DEF HealthCount, callers, life
<1>2. need > 0
  BY <1>1 DEF IInv, HealthInv
<1>3. TypeOK' /\ HealthInv' /\ LifeInv'
  BY <1>1, <1>2 DEF IInv, TypeOK, HealthInv, LifeInv
<1>4. Holders' = Holders
  BY <1>1 DEF Holders
<1>5. OwnerInv' /\ Exclusive'
  BY <1>1, <1>4 DEF IInv, OwnerInv, Exclusive, Idle
<1>6. Accounting'
  <2>1. Cardinality(Holders) \in Nat /\ Len(pool) \in Nat
    BY HoldersCount DEF Holders, IInv, TypeOK
  <2> QED BY <1>1, <1>4, <2>1 DEF IInv, TypeOK, Accounting
<1> QED BY <1>3, <1>5, <1>6 DEF IInv

\* The other steps of the health thread.
LEMMA HealthControlStep ==
  ASSUME IInv,
         \/ HealthTestStop \/ HealthBlock \/ HealthTimeout \/ HealthCheck
         \/ HealthLock \/ HealthDone
  PROVE  IInv'
<1> USE PoolAssumption
<1>1. /\ UNCHANGED <<pool, actual, conn, broken, running, owner, dpc>>
      /\ hpc # "count" /\ hpc' # "count"
      /\ dpc = "done" => hpc = "exited"
      /\ hpc # "exited"
  BY DEF HealthTestStop, HealthBlock, HealthTimeout, TimeoutPasses, HealthCheck,
         HealthLock, HealthDone, callers, life, IInv, LifeInv
<1>2. /\ pc' \in [Thread -> PCs]
      /\ \A u \in Thread : \/ pc'[u] = pc[u]
                           \/ pc[u] = "waiting" /\ pc'[u] = "woken"
  <2>1. CASE HealthDone
    <3>1. pc \in [Thread -> PCs] /\ \A w \in Waiters : pc[w] = "waiting"
      BY DEF IInv, TypeOK, PCs, Waiters
    <3> QED BY <2>1, <3>1, NotifyStep DEF HealthDone, RefillAndNotify
  <2>2. CASE ~HealthDone
    BY <2>2 DEF HealthTestStop, HealthBlock, HealthTimeout, HealthCheck,
                HealthLock, callers, IInv, TypeOK, PCs
  <2> QED BY <2>1, <2>2
<1>3. dpc = "none" \/ \A u \in Thread : pc'[u] = pc[u]
  BY <1>2 DEF IInv, LifeInv, TypeOK
<1>4. hpc' \in {"top", "blocking", "blocked", "woken", "locking", "create",
                "count", "exited"} /\ need' \in Nat
  BY DEF HealthTestStop, HealthBlock, HealthTimeout, HealthCheck, Missing,
         HealthLock, HealthDone, IInv, TypeOK
<1>5. TypeOK'
  BY <1>1, <1>2, <1>4 DEF IInv, TypeOK, PCs
<1>6. HealthInv'
  BY <1>1 DEF HealthTestStop, HealthBlock, HealthTimeout, HealthCheck, Missing,
              HealthLock, HealthDone, IInv, TypeOK, HealthInv
<1>7. LifeInv'
  BY <1>1, <1>3 DEF IInv, LifeInv
<1>8. OwnerInv' /\ Exclusive' /\ Accounting'
  BY <1>1, <1>2, ControlStep DEF IInv, TypeOK
<1> QED BY <1>5, <1>6, <1>7, <1>8 DEF IInv

LEMMA LifeStep ==
  ASSUME IInv, ResetOwner \/ Destructor
  PROVE  IInv'
<1> USE PoolAssumption
<1>1. UNCHANGED <<pc, conn, need>>
  BY DEF ResetOwner, Destructor, DestroyStop, DestroyNotify, DestroyDrain,
         callers, health
<1>2. Holders' = Holders /\ OwnerInv'
  BY <1>1 DEF IInv, OwnerInv, Holders
<1>3. CASE DestroyDrain
  <2>1. /\ pool' = <<>> /\ actual' = 0 /\ broken' = {} /\ dpc' = "done"
        /\ dpc = "join" /\ hpc = "exited"
        /\ UNCHANGED <<hpc, need, running, owner>>
    BY <1>3 DEF DestroyDrain, health
  <2>2. TypeOK' /\ HealthInv' /\ LifeInv'
    BY <1>1, <2>1 DEF IInv, TypeOK, HealthInv, LifeInv
  <2>3. Accounting'
    BY <2>1 DEF Accounting
  <2>4. Exclusive'
    BY <1>1, <1>2, <2>1 DEF IInv, Exclusive, Idle
  <2> QED BY <1>2, <2>2, <2>3, <2>4 DEF IInv
<1>4. CASE ResetOwner \/ DestroyStop \/ DestroyNotify
  <2>1. /\ UNCHANGED <<pool, actual, broken>>
        /\ dpc = "done" <=> dpc' = "done"
        /\ hpc' \in {hpc, "woken"} /\ (hpc' # hpc => hpc = "blocked")
    BY <1>4 DEF ResetOwner, DestroyStop, DestroyNotify, health
  <2>2. TypeOK'
    BY <1>1, <1>4, <2>1 DEF IInv, TypeOK, ResetOwner, DestroyStop, DestroyNotify,
                            health
  <2>3. HealthInv'
    BY <1>1, <2>1 DEF IInv, HealthInv
  <2>4. LifeInv'
    BY <1>1, <1>4, <2>1 DEF IInv, TypeOK, LifeInv, ResetOwner, DestroyStop,
                            DestroyNotify, LastReference, health
  <2>5. Accounting' /\ Exclusive'
    BY <1>1, <1>2, <2>1 DEF IInv, Accounting, Exclusive, Idle
  <2> QED BY <1>2, <2>2, <2>3, <2>4, <2>5 DEF IInv
<1> QED BY <1>3, <1>4 DEF Destructor

LEMMA NextIInv == IInv /\ [Next]_vars => IInv'
<1> SUFFICES ASSUME IInv, [Next]_vars PROVE IInv'
  OBVIOUS
<1>1. ASSUME NEW t \in Thread, Caller(t) PROVE IInv'
  <2>1. CASE GetConnection(t) \/ Resume(t)
    BY <2>1, TakeOrWaitStep DEF GetConnection, Resume
  <2>2. CASE ReleaseInvalid(t)
    BY <2>2, ReleaseInvalidStep
  <2>3. CASE ReleasePush(t)
    BY <2>3, ReleasePushStep
  <2>4. CASE \/ Enter(t) \/ Leave(t) \/ SpuriousWake(t)
             \/ ReleaseChecked(t) \/ NotifyAfterDrop(t)
    BY <2>4, CallerControlStep
  <2> QED BY <1>1, <2>1, <2>2, <2>3, <2>4 DEF Caller
<1>2. ASSUME NEW c \in Conn, Break(c) PROVE IInv'
  BY <1>2, BreakStep
<1>3. CASE HealthThread
  BY <1>3, HealthCreateStep, HealthCountStep, HealthControlStep DEF HealthThread
<1>4. CASE ResetOwner \/ Destructor
  BY <1>4, LifeStep
<1>5. CASE UNCHANGED vars
  BY <1>5 DEF vars, IInv, TypeOK, OwnerInv, Accounting, Exclusive, HealthInv,
              LifeInv, Holders, Idle
<1> QED BY <1>1, <1>2, <1>3, <1>4, <1>5 DEF Next

LEMMA Invariance == Spec => []IInv
<1> QED BY InitIInv, NextIInv, PTL DEF Spec

-----------------------------------------------------------------------------
(* The variables keep their types; in particular the slot counter of       *)
(* sqlsave.h:176 never becomes negative, although it is decremented        *)
(* outside mutex_.                                                         *)
THEOREM TypeCorrect == Spec => []TypeOK
<1>1. IInv => TypeOK
  BY DEF IInv
<1> QED BY <1>1, Invariance, PTL

(* actual_pool_size_ always counts the connections that exist, with the    *)
(* one the health thread has queued and not yet counted.                   *)
THEOREM AccountingCorrect == Spec => []Accounting
<1>1. IInv => Accounting
  BY DEF IInv
<1> QED BY <1>1, Invariance, PTL

(* A connection is in one place: queued once, or owned by one thread.      *)
THEOREM ExclusiveCorrect == Spec => []Exclusive
<1>1. IInv => Exclusive
  BY DEF IInv
<1> QED BY <1>1, Invariance, PTL

(* There are never more than max_open_conns connections.                   *)
THEOREM CapacityCorrect == Spec => []Capacity
<1>1. IInv => Capacity
  <2> SUFFICES ASSUME IInv PROVE Capacity
    OBVIOUS
  <2> USE PoolAssumption
  <2>1. Cardinality(Holders) \in Nat /\ Len(pool) \in Nat
    BY HoldersCount DEF Holders, IInv, TypeOK
  <2>2. CASE dpc # "done"
    BY <2>1, <2>2 DEF IInv, TypeOK, Accounting, HealthInv, Capacity
  <2>3. CASE dpc = "done"
    <3>1. Holders = {} /\ pool = <<>>
      BY <2>3 DEF IInv, LifeInv, Holders
    <3>2. Cardinality(Holders) = 0 /\ Len(pool) = 0
      BY <3>1, FS_EmptySet
    <3> QED BY <3>2 DEF Capacity
  <2> QED BY <2>2, <2>3
<1> QED BY <1>1, Invariance, PTL

(* The pool is destroyed only when no handler is inside it.                *)
THEOREM NoUseAfterDestroyCorrect == Spec => []NoUseAfterDestroy
<1>1. IInv => NoUseAfterDestroy
  BY DEF IInv, LifeInv, NoUseAfterDestroy
<1> QED BY <1>1, Invariance, PTL

-----------------------------------------------------------------------------
\* A step after which some waiting thread has been woken, or nobody waits, or
\* the queue is empty, or the health thread holds the mutex, strands nobody.
Busy == {"woken", "using", "returning", "dropping"}

LEMMA StrandedStep ==
  IInv /\ NoStrandedWaiter /\ [Next]_vars => NoStrandedWaiter'
<1> SUFFICES ASSUME IInv, NoStrandedWaiter, [Next]_vars
             PROVE  NoStrandedWaiter'
  OBVIOUS
<1>1. pc \in [Thread -> PCs] /\ \A w \in Waiters : pc[w] = "waiting"
  BY DEF IInv, TypeOK, PCs, Waiters
<1>2. ASSUME NEW t \in Thread, Caller(t) PROVE NoStrandedWaiter'
  <2>1. CASE GetConnection(t) \/ Resume(t)
    <3>1. TakeOrWait(t)
      BY <2>1 DEF GetConnection, Resume
    <3>2. CASE pool = <<>>
      BY <3>1, <3>2 DEF TakeOrWait, NoStrandedWaiter
    <3>3. CASE pool # <<>>
      <4>1. pc'[t] = "using"
        BY <1>1, <3>1, <3>3 DEF TakeOrWait
      <4> QED BY <4>1 DEF NoStrandedWaiter
    <3> QED BY <3>2, <3>3
  <2>2. CASE ReleaseInvalid(t) \/ ReleaseChecked(t) \/ SpuriousWake(t)
    <3>1. pc'[t] \in Busy
      BY <1>1, <2>2 DEF ReleaseInvalid, ReleaseChecked, SpuriousWake, Busy
    <3> QED BY <3>1 DEF NoStrandedWaiter, Busy
  <2>3. CASE NotifyAfterDrop(t) \/ ReleasePush(t)
    <3> DEFINE f == [pc EXCEPT ![t] = "ready"]
    <3>1. pc[t] \in {"dropping", "returning"} /\ NotifyOne(f)
      BY <2>3 DEF NotifyAfterDrop, DropAndNotify, ReleasePush
    <3>2. f \in [Thread -> PCs] /\ \A w \in Waiters : f[w] = "waiting"
      BY <1>1, <3>1 DEF PCs, Waiters
    <3>3. \A u \in Thread : f[u] = "waiting" => pc[u] = "waiting"
      BY <1>1
    <3> HIDE DEF f
    <3>4. /\ \A u \in Thread : \/ pc'[u] = f[u]
                               \/ f[u] = "waiting" /\ pc'[u] = "woken"
          /\ Waiters # {} => \E w \in Thread : pc'[w] = "woken"
      BY <3>1, <3>2, NotifyStep
    <3>5. Waiters' \subseteq Waiters
      BY <3>3, <3>4 DEF Waiters
    <3> QED BY <3>4, <3>5 DEF NoStrandedWaiter
  <2>4. CASE Enter(t) \/ Leave(t)
    <3>1. /\ UNCHANGED <<pool, hpc>>
          /\ \A u \in Thread : \/ pc'[u] = pc[u]
                               \/ /\ pc[u] \in {"idle", "ready"}
                                  /\ pc'[u] \in {"idle", "ready"}
      BY <1>1, <2>4 DEF Enter, Leave, health
    <3>2. Waiters' = Waiters
      BY <3>1 DEF Waiters
    <3> QED BY <3>1, <3>2 DEF NoStrandedWaiter, MutexFree
  <2> QED BY <1>2, <2>1, <2>2, <2>3, <2>4 DEF Caller
<1>3. ASSUME NEW c \in Conn, Break(c) PROVE NoStrandedWaiter'
  BY <1>3 DEF Break, callers, health, NoStrandedWaiter, MutexFree, Waiters
<1>4. CASE HealthThread
  <2>1. CASE HealthDone
    <3>1. Waiters # {} => \E w \in Thread : pc'[w] = "woken"
      BY <1>1, <2>1, NotifyStep DEF HealthDone, RefillAndNotify
    <3>2. Waiters' \subseteq Waiters
      <4>1. \A u \in Thread : \/ pc'[u] = pc[u]
                              \/ pc[u] = "waiting" /\ pc'[u] = "woken"
        BY <1>1, <2>1, NotifyStep DEF HealthDone, RefillAndNotify
      <4> QED BY <4>1 DEF Waiters
    <3> QED BY <3>1, <3>2 DEF NoStrandedWaiter
  <2>2. CASE HealthLock \/ HealthCreate \/ HealthCount
    <3>1. ~MutexFree'
      BY <2>2 DEF HealthLock, HealthCreate, HealthCount, MutexFree
    <3> QED BY <3>1 DEF NoStrandedWaiter
  <2>3. CASE HealthTestStop \/ HealthBlock \/ HealthTimeout \/ HealthCheck
    <3>1. UNCHANGED <<pool, pc>> /\ MutexFree
      BY <2>3 DEF HealthTestStop, HealthBlock, HealthTimeout, TimeoutPasses,
                  HealthCheck, callers, MutexFree
    <3> QED BY <3>1 DEF NoStrandedWaiter, Waiters
  <2> QED BY <1>4, <2>1, <2>2, <2>3 DEF HealthThread
<1>5. CASE ResetOwner \/ Destructor
  <2>1. CASE ResetOwner \/ DestroyStop
    BY <2>1 DEF ResetOwner, DestroyStop, callers, health, NoStrandedWaiter,
                MutexFree, Waiters
  <2>2. CASE DestroyNotify
    BY <2>2 DEF DestroyNotify, callers, NoStrandedWaiter, MutexFree, Waiters
  <2>3. CASE DestroyDrain
    BY <2>3 DEF DestroyDrain, NoStrandedWaiter
  <2> QED BY <1>5, <2>1, <2>2, <2>3 DEF Destructor
<1>6. CASE UNCHANGED vars
  BY <1>6 DEF vars, NoStrandedWaiter, MutexFree, Waiters
<1> QED BY <1>2, <1>3, <1>4, <1>5, <1>6 DEF Next

(* A connection never lies in the queue with every thread asleep: each     *)
(* notification wakes a thread that takes it, passes it on, or drops it    *)
(* and notifies again.                                                     *)
THEOREM NoStrandedWaiterCorrect == Spec => []NoStrandedWaiter
<1>1. Init => NoStrandedWaiter
  BY DEF Init, NoStrandedWaiter, Waiters
<1> QED BY <1>1, Invariance, StrandedStep, PTL DEF Spec

-----------------------------------------------------------------------------
(* Refinement of ConnectionLease.                                          *)

\* The instance counts as this module does.
LEMMA SameCardinality == \A S : Lease!Cardinality(S) = Cardinality(S)
BY Zenon DEF Cardinality, Lease!Cardinality, IsFiniteSet, Lease!IsFiniteSet

\* The leased connections are those of the holders.
LEMMA LeasedIsHeld ==
  ASSUME IInv
  PROVE  /\ Lease!Leased = {conn[t] : t \in Holders}
         /\ Open = Idle \cup Lease!Leased
BY DEF IInv, OwnerInv, Lease!Leased, Holders, Open

\* At most as many distinct connections are open as the pool accounts for.
LEMMA OpenCount ==
  ASSUME IInv
  PROVE  /\ IsFiniteSet(Open)
         /\ Cardinality(Open) <= Len(pool) + Cardinality(Holders)
         /\ Cardinality(Open) \in Nat
<1> DEFINE H == {conn[t] : t \in Holders}
<1>0. Len(pool) \in Nat /\ Holders \in SUBSET Thread /\ pool \in [1..Len(pool) -> Conn]
  BY DEF IInv, TypeOK, Holders
<1>1. IsFiniteSet(Holders) /\ Cardinality(Holders) \in Nat
  BY <1>0, HoldersCount
<1>2. IsFiniteSet(1..Len(pool)) /\ Cardinality(1..Len(pool)) = Len(pool)
  BY SMTT(20), <1>0, FS_Interval
<1>3. IsFiniteSet(Idle) /\ Cardinality(Idle) <= Len(pool)
  <2>1. pool \in Surjection(1..Len(pool), Idle)
    BY <1>0 DEF Surjection, Idle
  <2> QED BY <1>2, <2>1, FS_Surjection
<1>4. IsFiniteSet(H) /\ Cardinality(H) <= Cardinality(Holders)
  <2> DEFINE g == [t \in Holders |-> conn[t]]
  <2>1. g \in Surjection(Holders, H)
    BY DEF Surjection
  <2> QED BY <1>1, <2>1, FS_Surjection
<1>5. Open = Idle \cup H
  BY DEF Open
<1>6. /\ IsFiniteSet(Idle \cup H)
      /\ Cardinality(Idle \cup H)
           = Cardinality(Idle) + Cardinality(H) - Cardinality(Idle \cap H)
  BY <1>3, <1>4, FS_Union
<1>7. Cardinality(Idle \cap H) \in Nat
  BY <1>3, FS_Intersection, FS_CardinalityType
<1>8. Cardinality(Idle) \in Nat /\ Cardinality(H) \in Nat
  BY <1>3, <1>4, FS_CardinalityType
<1> HIDE DEF H
<1>9. /\ IsFiniteSet(Open)
      /\ Cardinality(Open)
           = Cardinality(Idle) + Cardinality(H) - Cardinality(Idle \cap H)
  BY <1>5, <1>6
<1>10. Cardinality(Open) \in Nat
  BY <1>9, FS_CardinalityType
<1>11. Cardinality(Open) <= Cardinality(Idle) + Cardinality(H)
  BY <1>7, <1>8, <1>9
<1>12. Cardinality(Open) <= Len(pool) + Cardinality(Holders)
  BY <1>0, <1>1, <1>3, <1>4, <1>8, <1>10, <1>11
<1> QED BY <1>9, <1>10, <1>12

LEMMA InitLease == Init => Lease!Init
<1> SUFFICES ASSUME Init PROVE Lease!Init
  OBVIOUS
<1>0. PoolSize \in Nat
  BY PoolAssumption
<1>1. /\ pool \in [1..PoolSize -> Conn]
      /\ \A i, j \in 1..PoolSize : pool[i] = pool[j] => i = j
      /\ Len(pool) = PoolSize
  BY <1>0 DEF Init
<1>2. pool \in Bijection(1..PoolSize, Idle)
  BY <1>0, <1>1 DEF Bijection, Injection, IsInjective, Surjection, Idle
<1>3. IsFiniteSet(1..PoolSize) /\ Cardinality(1..PoolSize) = PoolSize
  BY <1>0, FS_Interval
<1>4. Cardinality(Idle) = PoolSize
  BY <1>2, <1>3, FS_Bijection DEF ExistsBijection
<1> QED BY <1>1, <1>4, SameCardinality DEF Init, Lease!Init, Idle

LEMMA StepLease ==
  IInv /\ [Next]_vars => [Lease!Next]_<<Idle, conn>>
<1> SUFFICES ASSUME IInv, [Next]_vars
             PROVE  Lease!Next \/ UNCHANGED <<Idle, conn>>
  OBVIOUS
<1> USE PoolAssumption
<1>1. ASSUME NEW t \in Thread, Caller(t)
      PROVE  Lease!Next \/ UNCHANGED <<Idle, conn>>
  <2>1. CASE GetConnection(t) \/ Resume(t)
    <3>1. TakeOrWait(t) /\ t \notin Holders
      BY <2>1 DEF GetConnection, Resume, Holders
    <3>2. CASE pool = <<>>
      BY <3>1, <3>2 DEF TakeOrWait, Idle
    <3>3. CASE pool # <<>>
      <4>1. /\ pool' = Tail(pool)
            /\ conn' = [conn EXCEPT ![t] = Head(pool)]
        BY <3>1, <3>3 DEF TakeOrWait, PopFront
      <4>2. /\ Len(Tail(pool)) = Len(pool) - 1
            /\ Head(pool) = pool[1]
            /\ \A i \in 1..Len(Tail(pool)) : Tail(pool)[i] = pool[i + 1]
            /\ 1 \in 1..Len(pool)
            /\ Len(pool) \in Nat
        BY <3>3, QueueFacts DEF IInv, TypeOK
      <4>3. Head(pool) \in Idle
        BY <4>2 DEF Idle
      <4>4. Idle' = Idle \ {Head(pool)}
        <5>1. \A i \in 1..Len(pool) :
                pool[i] # Head(pool) => pool[i] \in Idle'
          <6> TAKE i \in 1..Len(pool)
          <6> HAVE pool[i] # Head(pool)
          <6>1. i - 1 \in 1..Len(Tail(pool)) /\ Tail(pool)[i - 1] = pool[i]
            BY <4>2
          <6> QED BY <4>1, <6>1 DEF Idle
        <5>2. \A i \in 1..Len(Tail(pool)) :
                Tail(pool)[i] \in Idle /\ Tail(pool)[i] # Head(pool)
          BY <4>2 DEF IInv, Exclusive, Idle
        <5>3. Idle' \subseteq Idle \ {Head(pool)}
          BY <4>1, <5>2 DEF Idle
        <5>4. Idle \ {Head(pool)} \subseteq Idle'
          BY <5>1 DEF Idle
        <5> QED BY <5>3, <5>4
      <4>5. conn[t] = NoConn
        BY <3>1 DEF IInv, OwnerInv
      <4>6. Lease!Grant(t)
        BY <4>1, <4>3, <4>4, <4>5 DEF Lease!Grant
      <4> QED BY <4>6 DEF Lease!Next
    <3> QED BY <3>2, <3>3
  <2>2. CASE ReleaseInvalid(t)
    <3>1. conn[t] # NoConn
      BY <2>2 DEF ReleaseInvalid, Holders, IInv, OwnerInv
    <3>2. Idle' = Idle /\ conn' = [conn EXCEPT ![t] = NoConn]
      BY <2>2 DEF ReleaseInvalid, Idle
    <3> QED BY <3>1, <3>2 DEF Lease!Next, Lease!Discard
  <2>3. CASE ReleasePush(t)
    <3>1. conn[t] # NoConn /\ conn[t] \in Conn
      BY <2>3 DEF ReleasePush, Holders, IInv, OwnerInv, TypeOK
    <3>2. pool' = Append(pool, conn[t]) /\ conn' = [conn EXCEPT ![t] = NoConn]
      BY <2>3 DEF ReleasePush
    <3>3. Idle' = Idle \cup {conn[t]}
      <4>1. /\ Len(pool') = Len(pool) + 1
            /\ \A i \in 1..Len(pool) : pool'[i] = pool[i]
            /\ pool'[Len(pool) + 1] = conn[t]
            /\ Len(pool) \in Nat
        BY <3>1, <3>2, QueueFacts DEF IInv, TypeOK
      <4> QED BY <4>1 DEF Idle
    <3> QED BY <3>1, <3>2, <3>3 DEF Lease!Next, Lease!Return
  <2>4. CASE \/ Enter(t) \/ Leave(t) \/ SpuriousWake(t)
             \/ ReleaseChecked(t) \/ NotifyAfterDrop(t)
    BY <2>4 DEF Enter, Leave, SpuriousWake, ReleaseChecked, NotifyAfterDrop, Idle
  <2> QED BY <1>1, <2>1, <2>2, <2>3, <2>4 DEF Caller
<1>2. CASE HealthCreate
  <2>1. PICK c \in Conn \ Open : pool' = Append(pool, c)
    BY <1>2 DEF HealthCreate
  <2>2. hpc = "create" /\ need > 0 /\ conn' = conn
    BY <1>2 DEF HealthCreate, callers
  <2>3. Idle' = Idle \cup {c}
    <3>1. /\ Len(pool') = Len(pool) + 1
          /\ \A i \in 1..Len(pool) : pool'[i] = pool[i]
          /\ pool'[Len(pool) + 1] = c
          /\ Len(pool) \in Nat
      BY <2>1, QueueFacts DEF IInv, TypeOK
    <3> QED BY <3>1 DEF Idle
  <2>4. Cardinality(Open) < PoolSize
    <3>1. dpc # "done"
      BY <2>2 DEF IInv, LifeInv
    <3>2. Len(pool) + Cardinality(Holders) = actual
      <4>1. Cardinality(Holders) \in Nat /\ Len(pool) \in Nat
        BY HoldersCount DEF Holders, IInv, TypeOK
      <4> QED BY <2>2, <3>1, <4>1 DEF IInv, Accounting, TypeOK
    <3>3. actual < PoolSize
      BY <2>2 DEF IInv, HealthInv, TypeOK
    <3> QED BY <3>2, <3>3, OpenCount DEF IInv, TypeOK
  <2>5. Lease!Replace(c)
    BY <2>1, <2>2, <2>3, <2>4, LeasedIsHeld, SameCardinality DEF Lease!Replace
  <2> QED BY <2>5 DEF Lease!Next
<1>3. CASE DestroyDrain
  <2>1. Holders = {}
    BY <1>3 DEF DestroyDrain, IInv, LifeInv, Holders
  <2>2. Lease!Leased = {}
    BY <2>1, LeasedIsHeld
  <2>3. Idle' = {} /\ conn' = conn
    BY <1>3 DEF DestroyDrain, Idle, callers
  <2> QED BY <2>2, <2>3 DEF Lease!Next, Lease!CloseAll
<1>4. CASE \/ HealthTestStop \/ HealthBlock \/ HealthTimeout \/ HealthCheck
           \/ HealthLock \/ HealthCount \/ HealthDone \/ ResetOwner
           \/ DestroyStop \/ DestroyNotify \/ UNCHANGED vars
           \/ \E c \in Conn : Break(c)
  BY <1>4 DEF HealthTestStop, HealthBlock, HealthTimeout, HealthCheck, HealthLock,
              HealthCount, HealthDone, ResetOwner, DestroyStop, DestroyNotify,
              vars, Break, callers, Idle
<1> QED BY <1>1, <1>2, <1>3, <1>4 DEF Next, HealthThread, Destructor

(* The pool with its queue, mutex, condition variable and health thread    *)
(* implements the leases of ConnectionLease.                               *)
THEOREM LeaseRefinement == Spec => ImplementsLease
<1> QED BY InitLease, StepLease, Invariance, PTL
        DEF Spec, ImplementsLease, Lease!Spec
=============================================================================
