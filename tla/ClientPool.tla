----------------------------- MODULE ClientPool -----------------------------
(***************************************************************************)
(* rssdisk::pool of the client library: ClientMutex lends clients (sets of *)
(* connections to all servers) to the threads of an application, creates   *)
(* them up to maxClients, and once in ten minutes drops the idle ones down *)
(* to minClients; stop() empties the pool and waits for what is on loan.   *)
(*                                                                         *)
(* A client object is a number (0 is nullptr) and poolIndex its pool_index *)
(* (None outside the pool).  Sets stand for the vectors: which idle client *)
(* is lent or dropped is left open.  Sections under mutexLock are one step.*)
(***************************************************************************)
EXTENDS Integers, FiniteSets

CONSTANTS
  Users,          \* threads that call pool::get
  StartMin, MinClients, MaxClients,
  CanFail,        \* whether client::init_settings may fail
  MaxObjects      \* bound: client objects ever made

ASSUME SizesNat == {StartMin, MinClients, MaxClients, MaxObjects} \subseteq Nat
ASSUME ObjectsForStart == StartMin <= MaxObjects
ASSUME CanFailBool == CanFail \in BOOLEAN

VARIABLES
  clients,    \* objects in the pool
  poolIndex,  \* pool_index of each object
  available,  \* availableIndices
  inUse,      \* indices on loan
  active,     \* indices with an entry in activeClients
  expired,    \* those whose entry is 3600 seconds old
  minC, maxC, \* minClients and maxClients, which stop() clears
  loan,       \* loan[u]: the guard of u, its client and its index
  nextObj,
  stopping    \* "no", "waiting", "drained", "timeout"

poolVars == <<clients, poolIndex, available, inUse, active, expired, minC, maxC, loan, nextObj, stopping>>

None == -1
Objects == 1 .. MaxObjects
Size == IF StartMin > MaxClients THEN StartMin ELSE MaxClients
Indices == 0 .. Size - 1
NoGuard == [held |-> FALSE, obj |-> 0, index |-> None]
Guard(o, i) == [held |-> TRUE, obj |-> o, index |-> i]

\* initialize(): the clients whose init_settings succeed, numbered from 0; every
\* other index up to maxClients is available.
PoolInit ==
  /\ clients \in {S \in SUBSET (1 .. StartMin) : CanFail \/ S = 1 .. StartMin}
  /\ poolIndex = [o \in Objects |-> IF o \in clients THEN o - 1 ELSE None]
  /\ available = {i \in Indices : i + 1 \notin clients}
  /\ inUse = {} /\ active = {} /\ expired = {}
  /\ minC = MinClients /\ maxC = MaxClients
  /\ loan = [u \in Users |-> NoGuard]
  /\ nextObj = StartMin + 1
  /\ stopping = "no"

Idle == {o \in clients : poolIndex[o] \notin inUse}

Lend(u, o, i) ==
  /\ inUse' = inUse \cup {i}
  /\ active' = active \cup {i}
  /\ expired' = expired \ {i}
  /\ loan' = [loan EXCEPT ![u] = Guard(o, i)]

\* acquire() finds an idle client.
AcquireIdle(u) ==
  /\ ~loan[u].held
  /\ \E o \in Idle : Lend(u, o, poolIndex[o])
  /\ UNCHANGED <<clients, poolIndex, available, minC, maxC, nextObj, stopping>>

\* Mutant: the index of the new client stays available.
AcquireNewKeepsIndex(u) ==
  /\ ~loan[u].held
  /\ Idle = {}
  /\ Cardinality(clients) < maxC
  /\ nextObj <= MaxObjects
  /\ \E i \in available :
       /\ clients' = clients \cup {nextObj}
       /\ poolIndex' = [poolIndex EXCEPT ![nextObj] = i]
       /\ Lend(u, nextObj, i)
  /\ nextObj' = nextObj + 1
  /\ UNCHANGED <<available, minC, maxC, stopping>>

\* acquire() makes a client; without an index left, the client stays outside.
AcquireNew(u) ==
  /\ ~loan[u].held
  /\ Idle = {}
  /\ Cardinality(clients) < maxC
  /\ nextObj <= MaxObjects
  /\ IF available = {}
     THEN /\ loan' = [loan EXCEPT ![u] = Guard(nextObj, None)]
          /\ UNCHANGED <<clients, poolIndex, available, inUse, active, expired>>
     ELSE \E i \in available :
            /\ available' = available \ {i}
            /\ clients' = clients \cup {nextObj}
            /\ poolIndex' = [poolIndex EXCEPT ![nextObj] = i]
            /\ Lend(u, nextObj, i)
  /\ nextObj' = nextObj + 1
  /\ UNCHANGED <<minC, maxC, stopping>>

\* init_settings fails: the caller gets the client, but not from the pool.
AcquireFails(u) ==
  /\ CanFail
  /\ ~loan[u].held
  /\ Idle = {}
  /\ Cardinality(clients) < maxC
  /\ nextObj <= MaxObjects
  /\ loan' = [loan EXCEPT ![u] = Guard(nextObj, None)]
  /\ nextObj' = nextObj + 1
  /\ UNCHANGED <<clients, poolIndex, available, inUse, active, expired, minC, maxC, stopping>>

\* "Pool is full": the caller gets nullptr.
AcquireNothing(u) ==
  /\ ~loan[u].held
  /\ Idle = {}
  /\ Cardinality(clients) >= maxC
  /\ loan' = [loan EXCEPT ![u] = Guard(0, None)]
  /\ UNCHANGED <<clients, poolIndex, available, inUse, active, expired, minC, maxC, nextObj, stopping>>

\* ~guard: release(index), of an index on loan or of None.
Release(u) ==
  /\ loan[u].held
  /\ inUse' = inUse \ {loan[u].index}
  /\ loan' = [loan EXCEPT ![u] = NoGuard]
  /\ UNCHANGED <<clients, poolIndex, available, active, expired, minC, maxC, nextObj, stopping>>

\* An hour has passed since the index was last lent.
Expire(i) ==
  /\ i \in active \ expired
  /\ expired' = expired \cup {i}
  /\ UNCHANGED <<clients, poolIndex, available, inUse, active, minC, maxC, loan, nextObj, stopping>>

ToDelete == {o \in clients : poolIndex[o] \in expired \ inUse}

\* clear(), by the watcher thread: idle clients go until minClients are left.
ClearPool ==
  /\ Cardinality(clients) > minC
  /\ ToDelete # {}
  /\ \E D \in SUBSET ToDelete :
       /\ IF Cardinality(ToDelete) <= Cardinality(clients) - minC
          THEN D = ToDelete
          ELSE Cardinality(D) = Cardinality(clients) - minC
       /\ clients' = clients \ D
       /\ available' = available \cup {poolIndex[o] : o \in D}
  /\ UNCHANGED <<poolIndex, inUse, active, expired, minC, maxC, loan, nextObj, stopping>>

\* stop(): the pool is emptied; then it waits for the loans, for 5 seconds.
StopPool ==
  /\ stopping = "no"
  /\ clients' = {} /\ available' = {}
  /\ minC' = 0 /\ maxC' = 0
  /\ stopping' = "waiting"
  /\ UNCHANGED <<poolIndex, inUse, active, expired, loan, nextObj>>

StopReturns ==
  /\ stopping = "waiting"
  /\ \/ inUse = {} /\ stopping' = "drained"
     \/ inUse # {} /\ stopping' = "timeout"
  /\ UNCHANGED <<clients, poolIndex, available, inUse, active, expired, minC, maxC, loan, nextObj>>

PoolNext ==
  \/ \E u \in Users : AcquireIdle(u) \/ AcquireNew(u) \/ AcquireFails(u) \/ AcquireNothing(u) \/ Release(u)
  \/ \E i \in Indices : Expire(i)
  \/ ClearPool \/ StopPool \/ StopReturns

PoolSpec == PoolInit /\ [][PoolNext]_poolVars

(***************************************************************************)
(* Properties                                                              *)
(***************************************************************************)
\* Type invariant of the pool.
PoolTypeOK ==
  /\ clients \in SUBSET Objects
  /\ poolIndex \in [Objects -> Indices \cup {None}]
  /\ available \in SUBSET Indices
  /\ inUse \in SUBSET Indices
  /\ active \in SUBSET Indices /\ expired \in SUBSET active
  /\ minC \in Nat /\ maxC \in Nat
  /\ loan \in [Users -> [held : BOOLEAN, obj : 0 .. MaxObjects, index : Indices \cup {None}]]
  /\ nextObj \in 1 .. MaxObjects + 1
  /\ stopping \in {"no", "waiting", "drained", "timeout"}

\* Two threads never share a client, nor an index of the pool: loans, releases
\* and the watcher's deletions in any order.
ExclusiveLoans ==
  \A u, v \in Users : u # v /\ loan[u].held /\ loan[v].held =>
    /\ loan[u].obj # 0 => loan[u].obj # loan[v].obj
    /\ loan[u].index # None => loan[u].index # loan[v].index

\* Every index is either free or that of exactly one client, until stop():
\* none is lost, so the pool can always grow back to maxClients, and none is
\* given twice.
IndicesAccountedFor ==
  /\ \A a, b \in clients : a # b => poolIndex[a] # poolIndex[b]
  /\ \A o \in clients : poolIndex[o] \in Indices \ available
  /\ stopping = "no" => Indices = available \cup {poolIndex[o] : o \in clients}

\* inUse holds exactly the indices that guards will release, and a client on
\* loan stays in the pool: clear() never drops it.
LoansStayInPool ==
  /\ inUse = {loan[u].index : u \in Users} \ {None}
  /\ \A u \in Users : loan[u].index # None /\ stopping = "no" =>
       loan[u].obj \in clients /\ poolIndex[loan[u].obj] = loan[u].index

\* After stop() has returned true nobody has, or gets, a client of the pool.
DrainedMeansDone ==
  stopping = "drained" => \A u \in Users : loan[u].index = None
=============================================================================
