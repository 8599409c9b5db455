-------------------------- MODULE ClientPool_proofs --------------------------
(***************************************************************************)
(* The client pool, for any number of threads, clients and objects: the    *)
(* safety properties of ClientPool follow from the inductive invariant     *)
(* PoolInv.  It adds to them that objects not made yet are nowhere         *)
(* (FreshObjects) and that stop() leaves a pool that cannot lend (Stopped).*)
(***************************************************************************)
EXTENDS ClientPool, FiniteSetTheorems, TLAPS

FreshObjects ==
  /\ \A o \in clients : o < nextObj
  /\ \A u \in Users : loan[u].obj < nextObj

GuardShape ==
  \A u \in Users : (loan[u].held = FALSE => loan[u].index = None) /\ (loan[u].obj = 0 => loan[u].index = None)

\* A client lent without an index is not in the pool.
Outsiders ==
  \A u \in Users : loan[u].held /\ loan[u].index = None => loan[u].obj \notin clients

Stopped == stopping # "no" => clients = {} /\ maxC = 0

PoolInv ==
  /\ PoolTypeOK
  /\ FreshObjects
  /\ GuardShape
  /\ Outsiders
  /\ Stopped
  /\ ExclusiveLoans
  /\ IndicesAccountedFor
  /\ LoansStayInPool
  /\ DrainedMeansDone

LEMMA SizeNat == Size \in Nat /\ None \notin Indices /\ MaxObjects \in Nat /\ StartMin \in Nat /\ MinClients \in Nat /\ MaxClients \in Nat /\ StartMin <= Size
  BY SizesNat DEF Size, Indices, None

\* The pool as initialize() leaves it.
LEMMA PoolInitInv == PoolInit => PoolInv
<1> SUFFICES ASSUME PoolInit PROVE PoolInv
  BY Zenon
<1>0. clients \subseteq 1 .. StartMin
  BY Zenon DEF PoolInit
<1>1. PoolTypeOK
  BY <1>0, SizeNat, ObjectsForStart DEF PoolInit, PoolTypeOK, Indices, Objects, None, NoGuard
<1>2. FreshObjects
  BY <1>0, SizeNat DEF PoolInit, FreshObjects, NoGuard
<1>3. GuardShape /\ Outsiders /\ Stopped /\ ExclusiveLoans /\ DrainedMeansDone
  BY Zenon DEF PoolInit, GuardShape, Outsiders, Stopped, ExclusiveLoans, DrainedMeansDone, NoGuard
<1>4. IndicesAccountedFor
  <2>1. \A o \in clients : o \in Objects /\ poolIndex[o] = o - 1 /\ o - 1 \in Indices
    BY <1>0, SizeNat, ObjectsForStart DEF PoolInit, Objects, Indices
  <2>2. \A a, b \in clients : a # b => poolIndex[a] # poolIndex[b]
    BY <2>1, <1>0, SizeNat
  <2>3. \A o \in clients : poolIndex[o] \in Indices \ available
    BY <2>1, <1>0, SizeNat DEF PoolInit
  <2>4. \A i \in Indices : i \in available \/ i + 1 \in clients
    BY Zenon DEF PoolInit
  <2>5. \A i \in Indices : i + 1 \in clients => i = poolIndex[i + 1]
    BY <2>1, SizeNat DEF Indices
  <2>6. Indices \subseteq available \cup {poolIndex[o] : o \in clients}
    BY Zenon, <2>4, <2>5
  <2>7. available \subseteq Indices
    BY Zenon DEF PoolInit
  <2> QED
    BY Zenon, <2>2, <2>3, <2>6, <2>7 DEF IndicesAccountedFor
<1>5. LoansStayInPool
  BY Zenon DEF PoolInit, LoansStayInPool, NoGuard
<1> QED
  BY Zenon, <1>1, <1>2, <1>3, <1>4, <1>5 DEF PoolInv

\* A loan of the idle or new client o with index i keeps the books of loans.
LEMMA LendKeepsLoans ==
  ASSUME PoolInv, NEW u \in Users, ~loan[u].held, NEW o, NEW i \in Indices,
         i \notin inUse, o # 0, Lend(u, o, i), stopping' = stopping,
         stopping = "no" => o \in clients' /\ poolIndex'[o] = i,
         \A v \in Users : loan[v].obj # 0 /\ loan[v].held => loan[v].obj # o,
         \A c \in clients : c \in clients' /\ poolIndex'[c] = poolIndex[c],
         stopping = "no"
  PROVE  ExclusiveLoans' /\ LoansStayInPool' /\ DrainedMeansDone' /\ GuardShape'
<1>1. loan' = [loan EXCEPT ![u] = Guard(o, i)] /\ inUse' = inUse \cup {i}
  BY Zenon DEF Lend
<1>2. loan \in [Users -> [held : BOOLEAN, obj : 0 .. MaxObjects, index : Indices \cup {None}]]
  BY Zenon DEF PoolInv, PoolTypeOK
<1>3. loan'[u].held = TRUE /\ loan'[u].obj = o /\ loan'[u].index = i
  BY Zenon, <1>1, <1>2 DEF Guard
<1>4. \A v \in Users \ {u} : loan'[v] = loan[v]
  BY Zenon, <1>1, <1>2
<1>5. loan[u].index = None
  BY DEF PoolInv, GuardShape
<1>6. i # None
  BY Zenon, SizeNat
<1>7. \A v \in Users : loan[v].index # i
  BY Zenon, <1>6 DEF PoolInv, LoansStayInPool
<1>8. ExclusiveLoans'
  BY <1>3, <1>4, <1>6, <1>7 DEF PoolInv, ExclusiveLoans
<1>9. LoansStayInPool'
  <2>1. inUse = {loan[v].index : v \in Users} \ {None}
    BY Zenon DEF PoolInv, LoansStayInPool
  <2>2. inUse' = {loan'[v].index : v \in Users} \ {None}
    BY <2>1, <1>1, <1>3, <1>4, <1>5, <1>6
  <2>3. \A v \in Users : loan'[v].index # None /\ stopping' = "no" =>
          loan'[v].obj \in clients' /\ poolIndex'[loan'[v].obj] = loan'[v].index
    BY <1>3, <1>4 DEF PoolInv, LoansStayInPool
  <2> QED
    BY Zenon, <2>2, <2>3 DEF LoansStayInPool
<1>10. DrainedMeansDone'
  BY Zenon DEF DrainedMeansDone
<1>11. GuardShape'
  BY <1>3, <1>4 DEF PoolInv, GuardShape
<1> QED
  BY Zenon, <1>8, <1>9, <1>10, <1>11

\* acquire() of an idle client.
LEMMA AcquireIdleInv ==
  ASSUME PoolInv, NEW u \in Users, AcquireIdle(u)
  PROVE  PoolInv'
<1> PICK o \in Idle : Lend(u, o, poolIndex[o])
  BY Zenon DEF AcquireIdle
<1> UNCHANGED <<clients, poolIndex, available, minC, maxC, nextObj, stopping>> /\ ~loan[u].held
  BY Zenon DEF AcquireIdle
<1>0. o \in clients /\ o \in Objects /\ poolIndex[o] \notin inUse /\ poolIndex[o] \in Indices
  BY Zenon DEF Idle, PoolInv, IndicesAccountedFor, PoolTypeOK
<1>1. stopping = "no"
  BY Zenon, <1>0 DEF PoolInv, Stopped
<1>2. \A v \in Users : loan[v].obj # 0 /\ loan[v].held => loan[v].obj # o
  BY <1>0, <1>1 DEF PoolInv, Outsiders, LoansStayInPool
<1>3. o # 0
  BY <1>0, SizeNat DEF Objects
<1>4. ExclusiveLoans' /\ LoansStayInPool' /\ DrainedMeansDone' /\ GuardShape'
  BY Zenon, <1>0, <1>1, <1>2, <1>3, LendKeepsLoans
<1>5. PoolTypeOK'
  BY <1>0, SizeNat DEF PoolInv, PoolTypeOK, Lend, Guard, Objects
<1>6. FreshObjects' /\ Outsiders'
  BY Zenon, <1>0, SizeNat DEF PoolInv, PoolTypeOK, FreshObjects, Outsiders, Lend, Guard
<1>7. Stopped' /\ IndicesAccountedFor'
  BY Zenon, <1>1 DEF PoolInv, Stopped, IndicesAccountedFor
<1> QED
  BY Zenon, <1>4, <1>5, <1>6, <1>7 DEF PoolInv

\* The caller u gets the object o, or nothing, from outside the pool.
LEMMA OutsideLoanInv ==
  ASSUME PoolInv, NEW u \in Users, ~loan[u].held, NEW o \in 0 .. MaxObjects,
         o = 0 \/ o = nextObj,
         loan' = [loan EXCEPT ![u] = Guard(o, None)],
         nextObj' \in 1 .. MaxObjects + 1, nextObj' >= nextObj, o < nextObj',
         UNCHANGED <<clients, poolIndex, available, inUse, active, expired, minC, maxC, stopping>>
  PROVE  PoolInv'
<1>1. PoolTypeOK'
  BY Zenon, SizeNat DEF PoolInv, PoolTypeOK, Guard
<1>2. loan'[u] = Guard(o, None) /\ \A v \in Users \ {u} : loan'[v] = loan[v]
  BY Zenon DEF PoolInv, PoolTypeOK
<1>3. loan[u].index = None
  BY DEF PoolInv, GuardShape
<1>4. FreshObjects'
  BY <1>2, SizeNat DEF PoolInv, PoolTypeOK, FreshObjects, Guard, Objects
<1>5. o \notin clients
  BY SizeNat DEF PoolInv, PoolTypeOK, FreshObjects, Objects
<1>6. GuardShape' /\ Outsiders' /\ Stopped' /\ DrainedMeansDone' /\ IndicesAccountedFor'
  BY <1>2, <1>5 DEF PoolInv, GuardShape, Outsiders, Stopped, DrainedMeansDone, IndicesAccountedFor, Guard
<1>7. ExclusiveLoans'
  <2>1. \A v \in Users : loan[v].obj # nextObj
    BY SizeNat DEF PoolInv, PoolTypeOK, FreshObjects
  <2> QED
    BY <1>2, <2>1 DEF PoolInv, ExclusiveLoans, Guard
<1>8. LoansStayInPool'
  <2>1. inUse' = {loan'[v].index : v \in Users} \ {None}
    BY <1>2, <1>3 DEF PoolInv, LoansStayInPool, Guard
  <2> QED
    BY <1>2, <2>1 DEF PoolInv, LoansStayInPool, Guard
<1> QED
  BY Zenon, <1>1, <1>4, <1>6, <1>7, <1>8 DEF PoolInv

\* acquire() of a new client.
LEMMA AcquireNewInv ==
  ASSUME PoolInv, NEW u \in Users, AcquireNew(u)
  PROVE  PoolInv'
<1> USE SizeNat
<1>0. /\ ~loan[u].held /\ nextObj \in Objects /\ nextObj' = nextObj + 1
      /\ nextObj' \in 1 .. MaxObjects + 1
      /\ UNCHANGED <<minC, maxC, stopping>>
  BY DEF AcquireNew, PoolInv, PoolTypeOK, Objects
<1>1. CASE available = {}
  <2>1. /\ loan' = [loan EXCEPT ![u] = Guard(nextObj, None)]
        /\ UNCHANGED <<clients, poolIndex, available, inUse, active, expired>>
    BY Zenon, <1>1 DEF AcquireNew
  <2>2. nextObj \in 0 .. MaxObjects /\ nextObj' >= nextObj /\ nextObj < nextObj'
    BY <1>0 DEF Objects
  <2>3. UNCHANGED <<clients, poolIndex, available, inUse, active, expired, minC, maxC, stopping>>
    BY Zenon, <1>0, <2>1
  <2> QED
    BY Zenon, <1>0, <2>1, <2>2, <2>3, OutsideLoanInv
<1>2. CASE available # {}
  <2> PICK i \in available :
         /\ available' = available \ {i}
         /\ clients' = clients \cup {nextObj}
         /\ poolIndex' = [poolIndex EXCEPT ![nextObj] = i]
         /\ Lend(u, nextObj, i)
    BY Zenon, <1>2 DEF AcquireNew
  <2>1. i \in Indices /\ nextObj \notin clients /\ nextObj # 0
    BY <1>0 DEF PoolInv, PoolTypeOK, FreshObjects, Objects
  <2>2. \A c \in clients : c \in Objects /\ c # nextObj /\ poolIndex'[c] = poolIndex[c]
    BY Zenon, <1>0, <2>1 DEF PoolInv, PoolTypeOK
  <2>3. poolIndex'[nextObj] = i
    BY Zenon, <1>0 DEF PoolInv, PoolTypeOK
  <2>4. stopping = "no"
    <3> SUFFICES ASSUME stopping # "no" PROVE FALSE
      BY Zenon
    <3>1. clients = {} /\ maxC = 0
      BY Zenon DEF PoolInv, Stopped
    <3>2. Cardinality(clients) = 0
      BY Zenon, <3>1, FS_EmptySet
    <3> QED
      BY <3>1, <3>2 DEF AcquireNew
  <2>5. i \notin inUse
    BY <2>4, SizeNat DEF PoolInv, LoansStayInPool, IndicesAccountedFor
  <2>6. \A v \in Users : loan[v].obj # nextObj
    BY <1>0 DEF PoolInv, PoolTypeOK, FreshObjects, Objects
  <2>7. ExclusiveLoans' /\ LoansStayInPool' /\ DrainedMeansDone' /\ GuardShape'
    BY Zenon, <1>0, <2>1, <2>2, <2>3, <2>4, <2>5, <2>6, LendKeepsLoans
  <2>8. PoolTypeOK'
    BY <1>0, <2>1 DEF PoolInv, PoolTypeOK, Lend, Guard, Objects
  <2>9. loan'[u] = Guard(nextObj, i) /\ \A v \in Users \ {u} : loan'[v] = loan[v]
    BY Zenon DEF PoolInv, PoolTypeOK, Lend
  <2>10. FreshObjects'
    <3>1. nextObj \in Nat
      BY <1>0 DEF Objects
    <3>2. \A c \in clients : c \in Nat /\ c < nextObj
      BY DEF PoolInv, PoolTypeOK, FreshObjects, Objects
    <3>3. \A v \in Users : loan[v].obj \in Nat /\ loan[v].obj < nextObj
      BY DEF PoolInv, PoolTypeOK, FreshObjects
    <3>4. \A c \in clients' : c < nextObj'
      BY <1>0, <3>1, <3>2
    <3>5. \A v \in Users : loan'[v].obj < nextObj'
      BY <1>0, <2>9, <3>1, <3>3 DEF Guard
    <3> QED
      BY Zenon, <3>4, <3>5 DEF FreshObjects
  <2>11. Outsiders'
    BY <2>1, <2>6, <2>9 DEF PoolInv, Outsiders, Guard
  <2>12. Stopped'
    BY Zenon, <1>0, <2>4 DEF Stopped
  <2>13. IndicesAccountedFor'
    <3>1. \A a, b \in clients' : a # b => poolIndex'[a] # poolIndex'[b]
      BY <2>2, <2>3 DEF PoolInv, IndicesAccountedFor
    <3>2. \A c \in clients' : poolIndex'[c] \in Indices \ available'
      BY <2>1, <2>2, <2>3 DEF PoolInv, IndicesAccountedFor
    <3>3. Indices = available \cup {poolIndex[c] : c \in clients}
      BY Zenon, <2>4 DEF PoolInv, IndicesAccountedFor
    <3>4. {poolIndex'[c] : c \in clients'} = {poolIndex[c] : c \in clients} \cup {i}
      BY Zenon, <2>2, <2>3
    <3> QED
      BY <3>1, <3>2, <3>3, <3>4 DEF IndicesAccountedFor
  <2> QED
    BY Zenon, <2>7, <2>8, <2>10, <2>11, <2>12, <2>13 DEF PoolInv
<1> QED
  BY Zenon, <1>1, <1>2

\* release() by the destructor of a guard.
LEMMA ReleaseInv ==
  ASSUME PoolInv, NEW u \in Users, Release(u)
  PROVE  PoolInv'
<1> UNCHANGED <<clients, poolIndex, available, active, expired, minC, maxC, nextObj, stopping>>
  BY Zenon DEF Release
<1>1. loan'[u] = NoGuard /\ \A v \in Users \ {u} : loan'[v] = loan[v]
  BY Zenon DEF PoolInv, PoolTypeOK, Release
<1>2. PoolTypeOK'
  BY SizeNat DEF PoolInv, PoolTypeOK, Release, NoGuard
<1>3. FreshObjects' /\ GuardShape' /\ Outsiders' /\ Stopped' /\ IndicesAccountedFor' /\ DrainedMeansDone'
  BY SMTT(40), <1>1, SizeNat DEF PoolInv, PoolTypeOK, FreshObjects, GuardShape, Outsiders, Stopped,
     IndicesAccountedFor, DrainedMeansDone, NoGuard
<1>4. ExclusiveLoans'
  BY <1>1 DEF PoolInv, ExclusiveLoans, NoGuard
<1>5. LoansStayInPool'
  <2>1. inUse = {loan[v].index : v \in Users} \ {None} /\ inUse' = inUse \ {loan[u].index}
    BY Zenon DEF PoolInv, LoansStayInPool, Release
  <2>2. \A v \in Users \ {u} : loan[v].index # None => loan[v].index # loan[u].index
    BY Zenon DEF PoolInv, PoolTypeOK, GuardShape, ExclusiveLoans
  <2>3. inUse' = {loan'[v].index : v \in Users} \ {None}
    BY <1>1, <2>1, <2>2 DEF NoGuard
  <2> QED
    BY <1>1, <2>3 DEF PoolInv, LoansStayInPool, NoGuard
<1> QED
  BY Zenon, <1>2, <1>3, <1>4, <1>5 DEF PoolInv

\* clear() by the watcher thread: whatever idle clients it chooses to drop.
LEMMA ClearInv ==
  ASSUME PoolInv, ClearPool
  PROVE  PoolInv'
<1> PICK D \in SUBSET ToDelete :
      /\ clients' = clients \ D
      /\ available' = available \cup {poolIndex[o] : o \in D}
  BY Zenon DEF ClearPool
<1> UNCHANGED <<poolIndex, inUse, active, expired, minC, maxC, loan, nextObj, stopping>>
  BY Zenon DEF ClearPool
<1>0. \A o \in D : o \in clients /\ poolIndex[o] \in Indices /\ poolIndex[o] \notin inUse
  BY Zenon DEF ToDelete, PoolInv, IndicesAccountedFor
<1>1. PoolTypeOK'
  BY <1>0 DEF PoolInv, PoolTypeOK
<1>2. FreshObjects' /\ GuardShape' /\ Outsiders' /\ Stopped' /\ ExclusiveLoans' /\ DrainedMeansDone'
  BY Zenon DEF PoolInv, FreshObjects, GuardShape, Outsiders, Stopped, ExclusiveLoans, DrainedMeansDone
<1>3. IndicesAccountedFor'
  <2>1. \A a, b \in clients : a # b => poolIndex[a] # poolIndex[b]
    BY Zenon DEF PoolInv, IndicesAccountedFor
  <2>2. \A o \in clients' : poolIndex[o] \in Indices \ available'
    BY Zenon, <1>0, <2>1 DEF PoolInv, IndicesAccountedFor
  <2>3. {poolIndex[o] : o \in clients} = {poolIndex[o] : o \in clients'} \cup {poolIndex[o] : o \in D}
    BY Zenon, <1>0
  <2> QED
    BY <2>1, <2>2, <2>3 DEF PoolInv, IndicesAccountedFor
<1>4. LoansStayInPool'
  BY <1>0 DEF PoolInv, PoolTypeOK, LoansStayInPool
<1> QED
  BY Zenon, <1>1, <1>2, <1>3, <1>4 DEF PoolInv

\* stop(), and the return of stop().
LEMMA StopInv ==
  ASSUME PoolInv, StopPool \/ StopReturns
  PROVE  PoolInv'
<1>1. CASE StopPool
  <2>1. PoolTypeOK'
    BY Zenon, <1>1 DEF StopPool, PoolInv, PoolTypeOK
  <2> QED
    BY <1>1, <2>1 DEF StopPool, PoolInv, FreshObjects, GuardShape, Outsiders, Stopped, ExclusiveLoans,
       IndicesAccountedFor, LoansStayInPool, DrainedMeansDone
<1>2. CASE StopReturns
  <2>1. PoolTypeOK'
    BY Zenon, <1>2 DEF StopReturns, PoolInv, PoolTypeOK
  <2>2. DrainedMeansDone'
    BY Zenon, <1>2 DEF StopReturns, PoolInv, LoansStayInPool, DrainedMeansDone
  <2>3. FreshObjects' /\ GuardShape' /\ Outsiders' /\ Stopped' /\ ExclusiveLoans'
    BY Zenon, <1>2 DEF StopReturns, PoolInv, FreshObjects, GuardShape, Outsiders, Stopped, ExclusiveLoans
  <2>4. IndicesAccountedFor' /\ LoansStayInPool'
    BY Zenon, <1>2 DEF StopReturns, PoolInv, Stopped, IndicesAccountedFor, LoansStayInPool
  <2> QED
    BY Zenon, <2>1, <2>2, <2>3, <2>4 DEF PoolInv
<1> QED
  BY Zenon, <1>1, <1>2

LEMMA PoolNextInv == PoolInv /\ [PoolNext]_poolVars => PoolInv'
<1> SUFFICES ASSUME PoolInv, [PoolNext]_poolVars PROVE PoolInv'
  BY Zenon
<1>1. ASSUME NEW u \in Users, AcquireFails(u) PROVE PoolInv'
  <2>1. nextObj \in 0 .. MaxObjects /\ nextObj' = nextObj + 1 /\ nextObj' \in 1 .. MaxObjects + 1
    BY <1>1, SizeNat DEF AcquireFails, PoolInv, PoolTypeOK
  <2>2. nextObj < nextObj' /\ nextObj' >= nextObj
    BY <2>1
  <2> QED
    BY Zenon, <1>1, <2>1, <2>2, OutsideLoanInv DEF AcquireFails
<1>2. ASSUME NEW u \in Users, AcquireNothing(u) PROVE PoolInv'
  <2>1. 0 \in 0 .. MaxObjects /\ nextObj' = nextObj /\ nextObj' \in 1 .. MaxObjects + 1
    BY <1>2, SizeNat DEF AcquireNothing, PoolInv, PoolTypeOK
  <2>2. 0 < nextObj' /\ nextObj' >= nextObj
    BY <2>1, SizeNat
  <2> QED
    BY Zenon, <1>2, <2>1, <2>2, OutsideLoanInv DEF AcquireNothing
<1>3. ASSUME NEW i \in Indices, Expire(i) PROVE PoolInv'
  <2>1. PoolTypeOK'
    BY Zenon, <1>3 DEF Expire, PoolInv, PoolTypeOK
  <2> QED
    BY <1>3, <2>1 DEF Expire, PoolInv, FreshObjects, GuardShape, Outsiders, Stopped, ExclusiveLoans,
       IndicesAccountedFor, LoansStayInPool, DrainedMeansDone
<1>4. CASE UNCHANGED poolVars
  <2>1. PoolTypeOK'
    BY Zenon, <1>4 DEF poolVars, PoolInv, PoolTypeOK
  <2> QED
    BY SMTT(60), <1>4, <2>1 DEF poolVars, PoolInv, FreshObjects, GuardShape, Outsiders, Stopped, ExclusiveLoans,
       IndicesAccountedFor, LoansStayInPool, DrainedMeansDone
<1> QED
  BY Zenon, <1>1, <1>2, <1>3, <1>4, AcquireIdleInv, AcquireNewInv, ReleaseInv, ClearInv, StopInv DEF PoolNext

LEMMA PoolInvariant == PoolSpec => []PoolInv
  BY PoolInitInv, PoolNextInv, PTL DEF PoolSpec

\* Two threads never share a client or an index of the pool, however many
\* threads and clients there are (acquire, release, clear, stop).
THEOREM LoansAreExclusive == PoolSpec => []ExclusiveLoans
<1>1. PoolInv => ExclusiveLoans
  BY Zenon DEF PoolInv
<1> QED
  BY <1>1, PoolInvariant, PTL

\* Every index is free or that of exactly one client until stop(), inUse is
\* what the guards hold, and clear() never drops a client on loan.
THEOREM PoolBookkeeping == PoolSpec => [](PoolTypeOK /\ IndicesAccountedFor /\ LoansStayInPool)
<1>1. PoolInv => PoolTypeOK /\ IndicesAccountedFor /\ LoansStayInPool
  BY Zenon DEF PoolInv
<1> QED
  BY <1>1, PoolInvariant, PTL

\* After stop() has returned true nobody has, or gets, a client of the pool.
THEOREM StopDrains == PoolSpec => []DrainedMeansDone
<1>1. PoolInv => DrainedMeansDone
  BY Zenon DEF PoolInv
<1> QED
  BY <1>1, PoolInvariant, PTL
=============================================================================
