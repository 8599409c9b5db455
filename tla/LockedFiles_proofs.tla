------------------------- MODULE LockedFiles_proofs -------------------------
(***************************************************************************)
(* Proofs about the lock table, for any number of threads and keys, as     *)
(* long as an entry's counter is wide enough for the threads.              *)
(***************************************************************************)
EXTENDS LockedFiles, FiniteSetTheorems, TLAPS

\* Arithmetic of the 8-bit counter: below its width it is exact.
LEMMA ModSmall ==
  ASSUME NEW m \in Nat \ {0}, NEW a \in Nat, a < m
  PROVE  a % m = a
  BY SMT

LEMMA ModFull ==
  ASSUME NEW m \in Nat \ {0}
  PROVE  m % m = 0
  BY SMT

LEMMA ModWrap ==
  ASSUME NEW m \in Nat \ {0}, NEW a \in Nat, a < m
  PROVE  (a + m) % m = a
  BY SMT

LEMMA ModRange ==
  ASSUME NEW m \in Nat \ {0}, NEW a \in Nat
  PROVE  a % m \in 0 .. m - 1
  BY SMT

\* A thread is at a key exactly when it is inside the table.
PlaceOK == \A t \in Threads : mode[t] = "out" <=> at[t] = NoKey

\* The inductive invariant: mutual exclusion rests on the entry of a file
\* being there for as long as somebody is inside, which rests on the count.
LockInv ==
  /\ LockTypeOK
  /\ PlaceOK
  /\ OneUpdaterPerFile
  /\ EntryCountsHolders
  /\ MutualExclusion

\* The threads inside a file are finitely many, and no more than all threads.
LEMMA HoldersFinite ==
  ASSUME NEW k \in Keys
  PROVE  /\ IsFiniteSet(Holders(k))
         /\ Cardinality(Holders(k)) \in Nat
         /\ Cardinality(Holders(k)) <= Cardinality(Threads)
<1>1. Holders(k) \subseteq Threads
  BY Zenon DEF Holders, Readers, Writers
<1> QED BY Zenon, <1>1, ThreadsFinite, FS_Subset, FS_CardinalityType

\* A holder more: the incremented entry counts it.
LEMMA IncrementCounts ==
  ASSUME CounterWideEnough, LockTypeOK, EntryCountsHolders,
         NEW k \in Keys, NEW t \in Threads,
         t \notin Holders(k), Increment(k), Holders(k)' = Holders(k) \cup {t}
  PROVE  /\ k \in present'
         /\ count' \in [Keys -> 0 .. CountMod - 1]
         /\ count'[k] = Cardinality(Holders(k)') % CountMod
<1>0. PICK c : c = Cardinality(Holders(k))
  BY Zenon
<1>1. c \in Nat /\ IsFiniteSet(Holders(k))
  BY Zenon, <1>0, HoldersFinite
<1>2. Cardinality(Holders(k) \cup {t}) = c + 1
  BY Zenon, <1>0, <1>1, FS_AddElement
<1>3. c + 1 <= CountMod
  <2>1. Holders(k) \cup {t} \subseteq Threads
    BY Zenon DEF Holders, Readers, Writers
  <2>2. Cardinality(Holders(k) \cup {t}) <= Cardinality(Threads)
    BY Zenon, <2>1, ThreadsFinite, FS_Subset
  <2>3. Cardinality(Threads) \in Nat
    BY Zenon, ThreadsFinite, FS_CardinalityType
  <2> QED BY <1>1, <1>2, <2>2, <2>3, CountModPositive DEF CounterWideEnough
<1>4. count[k] = c
  BY <1>0, <1>1, <1>3, ModSmall, CountModPositive DEF EntryCountsHolders
<1>5. (c + 1) % CountMod \in 0 .. CountMod - 1
  BY <1>1, ModRange, CountModPositive
<1>6. count' = [count EXCEPT ![k] = (c + 1) % CountMod] /\ k \in present'
  BY Zenon, <1>4 DEF Increment, LockTypeOK
<1> QED
  BY Zenon, <1>2, <1>5, <1>6 DEF LockTypeOK

\* A holder less: the decremented entry counts the others, and goes with the
\* last one.
LEMMA DecrementCounts ==
  ASSUME CounterWideEnough, LockTypeOK, EntryCountsHolders,
         NEW k \in Keys, NEW t \in Threads,
         t \in Holders(k), Decrement(k), Holders(k)' = Holders(k) \ {t}
  PROVE  /\ k \in present' <=> Holders(k)' # {}
         /\ count' \in [Keys -> 0 .. CountMod - 1]
         /\ count'[k] = Cardinality(Holders(k)') % CountMod
<1>0. PICK c, left : /\ c = Cardinality(Holders(k))
                      /\ left = (count[k] + CountMod - 1) % CountMod
  BY Zenon
<1>1. /\ c \in Nat /\ IsFiniteSet(Holders(k))
      /\ c <= Cardinality(Threads)
  BY Zenon, <1>0, HoldersFinite
<1>2. c <= CountMod
  <2>1. Cardinality(Threads) \in Nat
    BY Zenon, ThreadsFinite, FS_CardinalityType
  <2> QED BY <1>1, <2>1, CountModPositive DEF CounterWideEnough
<1>3. /\ Cardinality(Holders(k) \ {t}) = c - 1
      /\ IsFiniteSet(Holders(k) \ {t})
      /\ c # 0
  BY Zenon, <1>0, <1>1, FS_RemoveElement, FS_EmptySet
<1>4. k \in present /\ count[k] = c % CountMod
  BY Zenon, <1>0 DEF EntryCountsHolders
<1>5. left = c - 1
  <2>1. CASE c = CountMod
    <3>1. count[k] = 0
      BY Zenon, <1>4, <2>1, ModFull, CountModPositive
    <3>2. (CountMod - 1) % CountMod = CountMod - 1
      BY ModSmall, CountModPositive
    <3>3. count[k] + CountMod - 1 = CountMod - 1
      BY <3>1, CountModPositive
    <3> QED BY Zenon, <1>0, <2>1, <3>2, <3>3
  <2>2. CASE c < CountMod
    <3>1. count[k] = c
      BY Zenon, <1>1, <1>4, <2>2, ModSmall, CountModPositive
    <3>2. count[k] + CountMod - 1 = (c - 1) + CountMod
      BY <1>1, <3>1, CountModPositive
    <3>3. c - 1 \in Nat /\ c - 1 < CountMod
      BY <1>1, <1>3, <2>2, CountModPositive
    <3>4. ((c - 1) + CountMod) % CountMod = c - 1
      BY Zenon, <3>3, ModWrap, CountModPositive
    <3> QED BY Zenon, <1>0, <3>2, <3>4
  <2> QED BY <1>1, <1>2, <2>1, <2>2, CountModPositive
<1>6. left = 0 <=> Holders(k) \ {t} = {}
  BY Zenon, <1>1, <1>3, <1>5, FS_EmptySet
<1>7. (c - 1) % CountMod = c - 1 /\ c - 1 \in 0 .. CountMod - 1
  <2>1. c - 1 \in Nat /\ c - 1 < CountMod
    BY <1>1, <1>2, <1>3, CountModPositive
  <2> QED BY <2>1, ModSmall, CountModPositive
<1>8. /\ count' = [count EXCEPT ![k] = left]
      /\ present' = IF left = 0 THEN present \ {k} ELSE present
  BY Zenon, <1>0, <1>4 DEF Decrement
<1> QED
  BY Zenon, <1>3, <1>4, <1>5, <1>6, <1>7, <1>8 DEF LockTypeOK

LEMMA LockInitInv == LockInit => LockInv
<1> SUFFICES ASSUME LockInit PROVE LockInv
  BY Zenon
<1>1. \A k \in Keys : Holders(k) = {} /\ Waiters(k) = {} /\ Writers(k) = {}
  BY Zenon DEF LockInit, Holders, Readers, Writers, Waiters
<1>2. LockTypeOK /\ PlaceOK
  BY CountModPositive, NoKeyIsNoKey DEF LockInit, LockTypeOK, PlaceOK, Modes
<1>3. EntryCountsHolders
  <2>1. 0 % CountMod = 0
    BY ModSmall, CountModPositive
  <2> QED BY Zenon, <1>1, <2>1, FS_EmptySet DEF LockInit, EntryCountsHolders
<1>4. OneUpdaterPerFile /\ MutualExclusion
  BY Zenon, <1>1, NoThreadIsNoThread DEF LockInit, OneUpdaterPerFile, MutualExclusion
<1> QED BY Zenon, <1>2, <1>3, <1>4 DEF LockInv

\* The counter part of the invariant, when one thread enters one file.
LEMMA EnterKeepsCounts ==
  ASSUME CounterWideEnough, LockTypeOK, EntryCountsHolders,
         NEW k \in Keys, NEW t \in Threads, t \notin Holders(k), Increment(k),
         \A x \in Keys : Holders(x)' = IF x = k THEN Holders(k) \cup {t} ELSE Holders(x)
  PROVE  /\ present' \in SUBSET Keys
         /\ count' \in [Keys -> 0 .. CountMod - 1]
         /\ EntryCountsHolders'
<1>1. Holders(k)' = Holders(k) \cup {t}
  BY Zenon
<1>2. /\ k \in present'
      /\ count' \in [Keys -> 0 .. CountMod - 1]
      /\ count'[k] = Cardinality(Holders(k)') % CountMod
  BY Zenon, <1>1, IncrementCounts
<1>3. ASSUME NEW x \in Keys, x # k
      PROVE  /\ x \in present' <=> x \in present
             /\ count'[x] = count[x]
             /\ Holders(x)' = Holders(x)
  BY Zenon, <1>3 DEF Increment, LockTypeOK
<1>4. present' \in SUBSET Keys
  BY Zenon DEF Increment, LockTypeOK
<1> QED BY Zenon, <1>1, <1>2, <1>3, <1>4 DEF EntryCountsHolders

\* The counter part of the invariant, when one thread leaves one file.
LEMMA LeaveKeepsCounts ==
  ASSUME CounterWideEnough, LockTypeOK, EntryCountsHolders,
         NEW k \in Keys, NEW t \in Threads, t \in Holders(k), Decrement(k),
         \A x \in Keys : Holders(x)' = IF x = k THEN Holders(k) \ {t} ELSE Holders(x)
  PROVE  /\ present' \in SUBSET Keys
         /\ count' \in [Keys -> 0 .. CountMod - 1]
         /\ EntryCountsHolders'
<1>1. Holders(k)' = Holders(k) \ {t}
  BY Zenon
<1>2. /\ k \in present' <=> Holders(k)' # {}
      /\ count' \in [Keys -> 0 .. CountMod - 1]
      /\ count'[k] = Cardinality(Holders(k)') % CountMod
  BY Zenon, <1>1, DecrementCounts
<1>3. ASSUME NEW x \in Keys, x # k
      PROVE  /\ x \in present' <=> x \in present
             /\ count'[x] = count[x]
             /\ Holders(x)' = Holders(x)
  BY Zenon, <1>3 DEF Decrement, LockTypeOK
<1>4. present' \in SUBSET Keys
  BY Zenon DEF Decrement, LockTypeOK
<1> QED BY Zenon, <1>1, <1>2, <1>3, <1>4 DEF EntryCountsHolders

LEMMA LockNextInv ==
  ASSUME CounterWideEnough, LockInv, [LockNext]_lockVars
  PROVE  LockInv'
<1> USE DEF LockInv
<1>1. ASSUME UNCHANGED lockVars PROVE LockInv'
  <2>1. \A k \in Keys : /\ Writers(k)' = Writers(k) /\ Waiters(k)' = Waiters(k)
                        /\ Holders(k)' = Holders(k)
    BY Zenon, <1>1 DEF lockVars, Holders, Readers, Writers, Waiters
  <2>2. LockTypeOK' /\ PlaceOK'
    BY Zenon, <1>1 DEF lockVars, LockTypeOK, PlaceOK
  <2>3. OneUpdaterPerFile' /\ EntryCountsHolders' /\ MutualExclusion'
    BY <1>1, <2>1 DEF lockVars, OneUpdaterPerFile, EntryCountsHolders, MutualExclusion
  <2> QED BY Zenon, <2>2, <2>3
<1>2. ASSUME NEW t \in Threads, NEW k \in Keys, AddReader(t, k)
      PROVE  LockInv'
  <2> USE <1>2 DEF AddReader, Moves
  <2>1. /\ mode' = [mode EXCEPT ![t] = "read"] /\ at' = [at EXCEPT ![t] = k]
        /\ mode' \in [Threads -> Modes] /\ at' \in [Threads -> Keys \cup {NoKey}]
        /\ mode[t] = "out" /\ at[t] = NoKey /\ pending' = pending
    BY Zenon DEF LockTypeOK, PlaceOK, Modes
  <2>2. \A x \in Keys : /\ Writers(x)' = Writers(x)
                        /\ Waiters(x)' = Waiters(x)
                        /\ Holders(x)' = IF x = k THEN Holders(k) \cup {t} ELSE Holders(x)
    BY <2>1, NoKeyIsNoKey DEF Writers, Waiters, Readers, Holders, LockTypeOK
  <2>3. t \notin Holders(k)
    BY Zenon DEF Holders, Readers, Writers
  <2>4. present' \in SUBSET Keys /\ count' \in [Keys -> 0 .. CountMod - 1] /\ EntryCountsHolders'
    BY Zenon, <2>2, <2>3, EnterKeepsCounts
  <2>5. LockTypeOK' /\ PlaceOK'
    BY <2>1, <2>4, NoKeyIsNoKey DEF LockTypeOK, PlaceOK
  <2>6. OneUpdaterPerFile'
    BY Zenon, <2>1, <2>2 DEF OneUpdaterPerFile
  <2>7. Writers(k) = {}
    BY NoThreadIsNoThread DEF OneUpdaterPerFile, Writers
  <2>8. MutualExclusion'
    BY Zenon, <2>2, <2>7 DEF MutualExclusion
  <2> QED BY Zenon, <2>4, <2>5, <2>6, <2>8
<1>3. ASSUME NEW t \in Threads, NEW k \in Keys, AddWriter(t, k)
      PROVE  LockInv'
  <2> USE <1>3 DEF AddWriter, Moves
  <2>1. /\ mode[t] = "out" /\ at[t] = NoKey /\ pending[k] = NoThread
        /\ pending' = [pending EXCEPT ![k] = t]
        /\ at' = [at EXCEPT ![t] = k] /\ at' \in [Threads -> Keys \cup {NoKey}]
        /\ pending' \in [Keys -> Threads \cup {NoThread}]
    BY Zenon DEF LockTypeOK, PlaceOK
  <2>2. Writers(k) = {} /\ Waiters(k) = {} /\ t \notin Holders(k)
    BY NoThreadIsNoThread DEF OneUpdaterPerFile, Writers, Waiters, Holders, Readers
  <2>3. CASE k \notin present
    <3>1. mode' = [mode EXCEPT ![t] = "write"] /\ mode' \in [Threads -> Modes] /\ Increment(k)
      BY Zenon, <2>3 DEF LockTypeOK, Modes
    <3>2. \A x \in Keys : /\ Writers(x)' = IF x = k THEN Writers(k) \cup {t} ELSE Writers(x)
                          /\ Waiters(x)' = Waiters(x)
                          /\ Holders(x)' = IF x = k THEN Holders(k) \cup {t} ELSE Holders(x)
      BY <2>1, <3>1, NoKeyIsNoKey DEF Writers, Waiters, Readers, Holders, LockTypeOK
    <3>3. present' \in SUBSET Keys /\ count' \in [Keys -> 0 .. CountMod - 1] /\ EntryCountsHolders'
      BY Zenon, <2>2, <3>1, <3>2, EnterKeepsCounts
    <3>4. LockTypeOK' /\ PlaceOK'
      BY Zenon, <2>1, <3>1, <3>3, NoKeyIsNoKey DEF LockTypeOK, PlaceOK
    <3>5. OneUpdaterPerFile'
      BY <2>1, <2>2, <3>2, NoThreadIsNoThread DEF OneUpdaterPerFile, LockTypeOK, Writers, Waiters
    <3>6. Holders(k) = {}
      BY Zenon, <2>3 DEF EntryCountsHolders
    <3>7. MutualExclusion'
      BY <2>2, <3>2, <3>6 DEF MutualExclusion
    <3> QED BY Zenon, <3>3, <3>4, <3>5, <3>7
  <2>4. CASE k \in present
    <3>1. /\ mode' = [mode EXCEPT ![t] = "wait"] /\ mode' \in [Threads -> Modes]
          /\ UNCHANGED <<present, count>>
      BY Zenon, <2>4 DEF LockTypeOK, Modes
    <3>2. \A x \in Keys : /\ Writers(x)' = Writers(x)
                          /\ Waiters(x)' = IF x = k THEN Waiters(k) \cup {t} ELSE Waiters(x)
                          /\ Holders(x)' = Holders(x)
      BY <2>1, <3>1, NoKeyIsNoKey DEF Writers, Waiters, Readers, Holders, LockTypeOK
    <3>3. EntryCountsHolders'
      BY Zenon, <3>1, <3>2 DEF EntryCountsHolders
    <3>4. LockTypeOK' /\ PlaceOK'
      BY Zenon, <2>1, <3>1, NoKeyIsNoKey DEF LockTypeOK, PlaceOK
    <3>5. OneUpdaterPerFile'
      BY <2>1, <2>2, <3>2, NoThreadIsNoThread DEF OneUpdaterPerFile, LockTypeOK, Writers, Waiters
    <3>6. MutualExclusion'
      BY <3>2 DEF MutualExclusion
    <3> QED BY Zenon, <3>3, <3>4, <3>5, <3>6
  <2> QED BY Zenon, <2>3, <2>4
<1>4. ASSUME NEW t \in Threads, WriterEnters(t)
      PROVE  LockInv'
  <2> DEFINE k == at[t]
  <2> USE <1>4 DEF WriterEnters, Moves
  <2>1. /\ k \in Keys /\ mode[t] = "wait" /\ k \notin present
        /\ mode' = [mode EXCEPT ![t] = "write"] /\ mode' \in [Threads -> Modes]
        /\ at' = at /\ pending' = pending
    BY Zenon DEF LockTypeOK, PlaceOK, Modes
  <2>2. t \notin Holders(k) /\ Holders(k) = {}
    BY Zenon, <2>1 DEF EntryCountsHolders
  <2>3. \A x \in Keys : /\ Writers(x)' = IF x = k THEN Writers(k) \cup {t} ELSE Writers(x)
                        /\ Waiters(x)' = IF x = k THEN Waiters(k) \ {t} ELSE Waiters(x)
                        /\ Holders(x)' = IF x = k THEN Holders(k) \cup {t} ELSE Holders(x)
    BY <2>1 DEF Writers, Waiters, Readers, Holders, LockTypeOK
  <2>4. present' \in SUBSET Keys /\ count' \in [Keys -> 0 .. CountMod - 1] /\ EntryCountsHolders'
    BY Zenon, <2>1, <2>2, <2>3, EnterKeepsCounts
  <2>5. LockTypeOK' /\ PlaceOK'
    BY Zenon, <2>1, <2>4, NoKeyIsNoKey DEF LockTypeOK, PlaceOK
  <2>6. t \in Waiters(k)
    BY Zenon, <2>1 DEF Waiters
  <2>7. OneUpdaterPerFile'
    BY <2>1, <2>3, <2>6 DEF OneUpdaterPerFile
  <2>8. MutualExclusion'
    BY <2>1, <2>2, <2>3 DEF MutualExclusion, Holders
  <2> QED BY Zenon, <2>4, <2>5, <2>7, <2>8
<1>5. ASSUME NEW t \in Threads, Erase(t)
      PROVE  LockInv'
  <2> DEFINE k == at[t]
  <2> USE <1>5 DEF Erase, Moves
  <2>1. /\ k \in Keys /\ mode[t] \in {"read", "write"}
        /\ mode' = [mode EXCEPT ![t] = "out"] /\ mode' \in [Threads -> Modes]
        /\ at' = [at EXCEPT ![t] = NoKey] /\ at' \in [Threads -> Keys \cup {NoKey}]
        /\ pending' = IF pending[k] = t THEN [pending EXCEPT ![k] = NoThread] ELSE pending
        /\ pending' \in [Keys -> Threads \cup {NoThread}]
    BY Zenon DEF LockTypeOK, PlaceOK, Modes
  <2>2. t \in Holders(k)
    BY Zenon, <2>1 DEF Holders, Readers, Writers
  <2>3. \A x \in Keys : /\ Writers(x)' = IF x = k THEN Writers(k) \ {t} ELSE Writers(x)
                        /\ Waiters(x)' = Waiters(x)
                        /\ Holders(x)' = IF x = k THEN Holders(k) \ {t} ELSE Holders(x)
    BY <2>1, NoKeyIsNoKey DEF Writers, Waiters, Readers, Holders, LockTypeOK
  <2>4. present' \in SUBSET Keys /\ count' \in [Keys -> 0 .. CountMod - 1] /\ EntryCountsHolders'
    BY Zenon, <2>1, <2>2, <2>3, LeaveKeepsCounts
  <2>5. LockTypeOK' /\ PlaceOK'
    BY Zenon, <2>1, <2>4, NoKeyIsNoKey DEF LockTypeOK, PlaceOK
  <2>6. t \notin Waiters(k)
    BY Zenon, <2>1 DEF Waiters
  <2>7. OneUpdaterPerFile'
    BY <2>1, <2>3, <2>6, NoThreadIsNoThread DEF OneUpdaterPerFile, LockTypeOK
  <2>8. MutualExclusion'
    <3>1. Writers(k) \subseteq Holders(k)
      BY Zenon DEF Holders
    <3> QED BY <2>1, <2>2, <2>3, <3>1 DEF MutualExclusion
  <2> QED BY Zenon, <2>4, <2>5, <2>7, <2>8
<1>6. CASE LockNext
  BY Zenon, <1>1, <1>2, <1>3, <1>4, <1>5, <1>6 DEF LockNext, AddRefused
<1> QED BY Zenon, <1>1, <1>6

\* Type correctness of the lock table (locked_files::add and ::erase).
THEOREM LockTypeCorrect ==
  ASSUME CounterWideEnough
  PROVE  LockSpec => []LockTypeOK
<1>1. LockInv /\ [LockNext]_lockVars => LockInv'
  BY Zenon, LockNextInv
<1>2. LockInv => LockTypeOK
  BY Zenon DEF LockInv
<1> QED BY LockInitInv, <1>1, <1>2, PTL DEF LockSpec

\* For any number of threads that an entry of `files` can count, a thread that
\* writes a file is alone in it (locked_files, "wait all thread will leave
\* file").
THEOREM LockMutualExclusion ==
  ASSUME CounterWideEnough
  PROVE  LockSpec => []MutualExclusion
<1>1. LockInv /\ [LockNext]_lockVars => LockInv'
  BY Zenon, LockNextInv
<1>2. LockInv => MutualExclusion
  BY Zenon DEF LockInv
<1> QED BY LockInitInv, <1>1, <1>2, PTL DEF LockSpec

\* pending_update names the one thread that writes or waits to write, and an
\* entry of `files` counts the threads inside, for any number of threads that
\* the entry can count.
THEOREM LockBookkeeping ==
  ASSUME CounterWideEnough
  PROVE  LockSpec => [](OneUpdaterPerFile /\ EntryCountsHolders)
<1>1. LockInv /\ [LockNext]_lockVars => LockInv'
  BY Zenon, LockNextInv
<1>2. LockInv => OneUpdaterPerFile /\ EntryCountsHolders
  BY Zenon DEF LockInv
<1> QED BY LockInitInv, <1>1, <1>2, PTL DEF LockSpec

\* Who is inside a file, who writes it and who has reserved it, as functions of
\* the file: the state of RWLock.
HoldersOf == [k \in Keys |-> Holders(k)]
WritersOf == [k \in Keys |-> Writers(k)]
UpdatersOf == [k \in Keys |-> Writers(k) \cup Waiters(k)]

\* A thread out of the table has no place in the abstract lock.
LEMMA OutIsIdle ==
  ASSUME LockInv, NEW t \in Threads, mode[t] = "out"
  PROVE  RW!Idle(t)
BY Zenon DEF LockInv, RW!Idle, Holders, Readers, Writers, Waiters

\* A file without pending_update is not reserved.
LEMMA FreeIsUnreserved ==
  ASSUME LockInv, NEW k \in Keys, pending[k] = NoThread
  PROVE  UpdatersOf[k] = {} /\ Writers(k) = {} /\ Waiters(k) = {}
BY NoThreadIsNoThread DEF LockInv, OneUpdaterPerFile, UpdatersOf, Writers, Waiters

\* The step of RWLock that a step of the lock table is, or none of it.
LEMMA LockStepRefines ==
  ASSUME LockInv, [LockNext]_lockVars
  PROVE  [RW!RWNext]_RW!rwVars
<1> USE DEF LockInv
<1>0. ASSUME HoldersOf' = HoldersOf, WritersOf' = WritersOf, UpdatersOf' = UpdatersOf
      PROVE  UNCHANGED RW!rwVars
  BY Zenon, <1>0 DEF HoldersOf, WritersOf, UpdatersOf, RW!rwVars
<1>1. ASSUME UNCHANGED lockVars PROVE UNCHANGED RW!rwVars
  BY Zenon, <1>0, <1>1 DEF lockVars, HoldersOf, WritersOf, UpdatersOf, Holders, Readers, Writers, Waiters
<1>2. ASSUME NEW t \in Threads, NEW k \in Keys, AddReader(t, k)
      PROVE  RW!StartRead(t, k)
  <2>1. /\ mode' = [mode EXCEPT ![t] = "read"] /\ at' = [at EXCEPT ![t] = k]
        /\ mode[t] = "out" /\ at[t] = NoKey /\ pending[k] = NoThread
    BY Zenon, <1>2 DEF AddReader, Moves, LockTypeOK, PlaceOK
  <2>2. \A x \in Keys : /\ Writers(x)' = Writers(x)
                        /\ Waiters(x)' = Waiters(x)
                        /\ Holders(x)' = IF x = k THEN Holders(k) \cup {t} ELSE Holders(x)
    BY <2>1, NoKeyIsNoKey DEF Writers, Waiters, Readers, Holders, LockTypeOK
  <2>3. /\ HoldersOf' = [HoldersOf EXCEPT ![k] = @ \cup {t}]
        /\ WritersOf' = WritersOf /\ UpdatersOf' = UpdatersOf
    BY Zenon, <2>2 DEF HoldersOf, WritersOf, UpdatersOf
  <2> QED BY Zenon, <2>1, <2>3, OutIsIdle, FreeIsUnreserved
          DEF RW!StartRead, HoldersOf, WritersOf, UpdatersOf
<1>3. ASSUME NEW t \in Threads, NEW k \in Keys, AddWriter(t, k)
      PROVE  RW!Reserve(t, k)
  <2>1. /\ mode[t] = "out" /\ at[t] = NoKey /\ pending[k] = NoThread
        /\ at' = [at EXCEPT ![t] = k]
    BY Zenon, <1>3 DEF AddWriter, Moves, LockTypeOK, PlaceOK
  <2>2. RW!Idle(t) /\ UpdatersOf[k] = {} /\ Writers(k) = {} /\ Waiters(k) = {}
    BY Zenon, <2>1, OutIsIdle, FreeIsUnreserved
  <2>3. CASE k \notin present
    <3>1. mode' = [mode EXCEPT ![t] = "write"]
      BY Zenon, <1>3, <2>3 DEF AddWriter, Moves
    <3>2. \A x \in Keys : /\ Writers(x)' = IF x = k THEN Writers(k) \cup {t} ELSE Writers(x)
                          /\ Waiters(x)' = Waiters(x)
                          /\ Holders(x)' = IF x = k THEN Holders(k) \cup {t} ELSE Holders(x)
      BY <2>1, <3>1, NoKeyIsNoKey DEF Writers, Waiters, Readers, Holders, LockTypeOK
    <3>3. Holders(k) = {}
      BY Zenon, <2>3 DEF EntryCountsHolders
    <3>4. /\ HoldersOf' = [HoldersOf EXCEPT ![k] = {t}]
          /\ WritersOf' = [WritersOf EXCEPT ![k] = {t}]
          /\ UpdatersOf' = [UpdatersOf EXCEPT ![k] = {t}]
          /\ HoldersOf[k] = {}
      BY ZenonT(40), <2>2, <3>2, <3>3 DEF HoldersOf, WritersOf, UpdatersOf
    <3> QED BY Zenon, <2>2, <3>4 DEF RW!Reserve, HoldersOf, WritersOf, UpdatersOf
  <2>4. CASE k \in present
    <3>1. mode' = [mode EXCEPT ![t] = "wait"]
      BY Zenon, <1>3, <2>4 DEF AddWriter, Moves
    <3>2. \A x \in Keys : /\ Writers(x)' = Writers(x)
                          /\ Waiters(x)' = IF x = k THEN Waiters(k) \cup {t} ELSE Waiters(x)
                          /\ Holders(x)' = Holders(x)
      BY <2>1, <3>1, NoKeyIsNoKey DEF Writers, Waiters, Readers, Holders, LockTypeOK
    <3>3. /\ HoldersOf' = HoldersOf /\ WritersOf' = WritersOf
          /\ UpdatersOf' = [UpdatersOf EXCEPT ![k] = {t}]
      BY Zenon, <2>2, <3>2 DEF HoldersOf, WritersOf, UpdatersOf
    <3> QED BY Zenon, <2>2, <3>3 DEF RW!Reserve, HoldersOf, WritersOf, UpdatersOf
  <2> QED BY Zenon, <2>3, <2>4
<1>4. ASSUME NEW t \in Threads, WriterEnters(t)
      PROVE  RW!StartWrite(t, at[t]) /\ at[t] \in Keys
  <2> DEFINE k == at[t]
  <2>1. /\ k \in Keys /\ mode[t] = "wait" /\ k \notin present
        /\ mode' = [mode EXCEPT ![t] = "write"] /\ at' = at
    BY Zenon, <1>4 DEF WriterEnters, Moves, LockTypeOK, PlaceOK
  <2>2. Holders(k) = {} /\ Writers(k) = {}
    BY Zenon, <2>1 DEF EntryCountsHolders, Holders
  <2>3. t \in Waiters(k) /\ Writers(k) \cup Waiters(k) = {t}
    BY <2>1 DEF OneUpdaterPerFile, Writers, Waiters
  <2>4. \A x \in Keys : /\ Writers(x)' = IF x = k THEN Writers(k) \cup {t} ELSE Writers(x)
                        /\ Waiters(x)' = IF x = k THEN Waiters(k) \ {t} ELSE Waiters(x)
                        /\ Holders(x)' = IF x = k THEN Holders(k) \cup {t} ELSE Holders(x)
    BY <2>1 DEF Writers, Waiters, Readers, Holders, LockTypeOK
  <2>5. /\ HoldersOf' = [HoldersOf EXCEPT ![k] = {t}]
        /\ WritersOf' = [WritersOf EXCEPT ![k] = {t}]
        /\ UpdatersOf' = UpdatersOf /\ UpdatersOf[k] = {t} /\ HoldersOf[k] = {}
    BY Zenon, <2>1, <2>2, <2>3, <2>4 DEF HoldersOf, WritersOf, UpdatersOf
  <2> QED BY Zenon, <2>1, <2>5 DEF RW!StartWrite, HoldersOf, WritersOf, UpdatersOf
<1>5. ASSUME NEW t \in Threads, Erase(t)
      PROVE  RW!Leave(t, at[t]) /\ at[t] \in Keys
  <2> DEFINE k == at[t]
  <2>1. /\ k \in Keys /\ mode[t] \in {"read", "write"}
        /\ mode' = [mode EXCEPT ![t] = "out"] /\ at' = [at EXCEPT ![t] = NoKey]
    BY Zenon, <1>5 DEF Erase, Moves, LockTypeOK, PlaceOK
  <2>2. t \in Holders(k) /\ t \notin Waiters(k)
    BY Zenon, <2>1 DEF Holders, Readers, Writers, Waiters
  <2>3. \A x \in Keys : /\ Writers(x)' = IF x = k THEN Writers(k) \ {t} ELSE Writers(x)
                        /\ Waiters(x)' = Waiters(x)
                        /\ Holders(x)' = IF x = k THEN Holders(k) \ {t} ELSE Holders(x)
    BY <2>1, NoKeyIsNoKey DEF Writers, Waiters, Readers, Holders, LockTypeOK
  <2>4. /\ HoldersOf' = [HoldersOf EXCEPT ![k] = @ \ {t}]
        /\ WritersOf' = [WritersOf EXCEPT ![k] = @ \ {t}]
        /\ UpdatersOf' = [UpdatersOf EXCEPT ![k] = @ \ {t}]
        /\ t \in HoldersOf[k]
    BY ZenonT(40), <2>1, <2>2, <2>3 DEF HoldersOf, WritersOf, UpdatersOf
  <2> QED BY Zenon, <2>1, <2>4 DEF RW!Leave, HoldersOf, WritersOf, UpdatersOf
<1>6. CASE LockNext
  BY Zenon, <1>1, <1>2, <1>3, <1>4, <1>5, <1>6 DEF LockNext, AddRefused, RW!RWNext
<1> QED BY Zenon, <1>1, <1>6

\* locked_files implements the reader/writer lock its callers count on, for any
\* number of threads that an entry of `files` can count: the empty table is the
\* free lock, and every add(), every turn of the waiting loop and every erase()
\* is a step of RWLock or none of it.
THEOREM LockRefinesRWLock ==
  ASSUME CounterWideEnough
  PROVE  LockSpec => ImplementsRWLock
<1>1. LockInit => RW!RWInit
  BY DEF LockInit, RW!RWInit, Holders, Readers, Writers, Waiters
<1>2. LockInv /\ [LockNext]_lockVars => LockInv'
  BY Zenon, LockNextInv
<1>3. LockInv /\ [LockNext]_lockVars => [RW!RWNext]_RW!rwVars
  BY Zenon, LockStepRefines
<1> QED BY LockInitInv, <1>1, <1>2, <1>3, PTL DEF LockSpec, ImplementsRWLock, RW!RWSpec
=============================================================================
