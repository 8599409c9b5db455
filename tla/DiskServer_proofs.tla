------------------------- MODULE DiskServer_proofs -------------------------
(***************************************************************************)
(* The theorems about DiskServer.  Every step of the server is a step of   *)
(* the lock table (LockSteps), whose own proof shows that it excludes as   *)
(* it should; with that, every action keeps DiskInv (DiskSteps_proofs).    *)
(***************************************************************************)
EXTENDS DiskSteps_proofs, LockedFiles_proofs

LEMMA DiskInitInv == DiskInit => DiskInv
<1> SUFFICES ASSUME DiskInit PROVE DiskInv
  BY Zenon
<1>1. LockHolds
  BY Zenon, LockInitInv DEF DiskInit, LockInv, LockHolds
<1>2. StoreOK
  <2>1. <<>> \in Seq(Nat)
    OBVIOUS
  <2>2. \A f \in Files : disk[f] = NoFile
    BY Zenon DEF DiskInit
  <2>3. DOMAIN NoFile = FileFields /\ NoFile.refs = {}
    BY Zenon DEF NoFile, FileFields
  <2> QED
    BY <2>1, <2>2, <2>3, BoundsNat DEF StoreOK, DiskInit
<1>3. \A t \in Threads : op[t] = NoOp /\ pc[t] = "idle" /\ mode[t] = "out"
  BY Zenon DEF DiskInit, LockInit
<1>4. \A t \in Threads : OpOK(t) /\ OpKnows(t) /\ op[t].kind # "ttl"
  BY <1>3, NoOpIs DEF OpOK, OpKnows, OutPcs
<1>5. \A f \in Files : FileOK(f)
  BY Zenon DEF DiskInit, FileOK, NoFile, PairMatches, Stamped
<1> QED
  BY ZenonT(40), <1>1, <1>2, <1>4, <1>5 DEF DiskInv, DiskInit

\* Every step of the server is a step of the lock table, or none, or the crash
\* that starts the table anew.
LEMMA LockSteps ==
  ASSUME CounterWideEnough, LockInv, DiskInv, [DiskNext]_diskVars
  PROVE  LockInv'
<1> USE DEF LockNext
<1>1. LockInv /\ Checker \in Threads /\ \A f \in Files : Key(f) \in Keys
  BY Zenon, CheckerIsThread DEF DiskInv, Files, Key
<1>2. ASSUME UNCHANGED lockVars PROVE LockInv'
  BY ZenonT(40), <1>1, <1>2, LockNextInv
<1>3. ASSUME NEW t \in Threads, EnterFile(t) \/ Release(t) \/ Busy(t) PROVE LockInv'
  BY ZenonT(40), <1>1, <1>3, LockNextInv DEF EnterFile, Release, Busy
<1>4. ASSUME NEW t \in Workers, Accept(t) PROVE LockInv'
  <2>1. CASE AcceptCall(t)
    <3>1. PICK r \in Requests : AddWriter(t, Key(r.f))
      BY Zenon, <2>1 DEF AcceptCall
    <3>2. r.f \in Files
      BY Zenon DEF Requests
    <3> QED
      BY ZenonT(40), <1>1, <3>1, <3>2, LockNextInv DEF Workers
  <2>2. CASE ~AcceptCall(t)
    BY ZenonT(40), <1>2, <1>4, <2>2 DEF Accept, Room, BodyOpen, BodyDone, IndexOpen, IndexDone, Log, Account, TtlDate, TtlAppend
  <2> QED
    BY Zenon, <2>1, <2>2
<1>5. ASSUME NEW t \in Workers, Read(t) PROVE LockInv'
  <2>1. CASE ReadCall(t)
    BY Zenon, <1>1, <2>1, LockNextInv DEF ReadCall, Workers
  <2>2. CASE ~ReadCall(t)
    BY ZenonT(40), <1>2, <1>5, <2>2 DEF Read, ReadIndex, ReadBody
  <2> QED
    BY Zenon, <2>1, <2>2
<1>6. ASSUME NEW t \in Workers, Remove(t) PROVE LockInv'
  <2>1. CASE RemoveCall(t)
    BY ZenonT(40), <1>1, <2>1, LockNextInv DEF RemoveCall, Workers
  <2>2. CASE ~RemoveCall(t)
    BY ZenonT(40), <1>2, <1>6, <2>2 DEF Remove, RemoveCheck, Unlink, UnlinkBody
  <2> QED
    BY Zenon, <2>1, <2>2
<1>7. ASSUME TtlRemover PROVE LockInv'
  <2>1. CASE TtlLock
    BY ZenonT(40), <1>1, <2>1, LockNextInv DEF TtlLock, DiskInv, StoreOK
  <2>2. CASE TtlUnlinkBody
    BY ZenonT(40), <1>1, <2>2, LockNextInv DEF TtlUnlinkBody
  <2>3. CASE ~TtlLock /\ ~TtlUnlinkBody
    BY ZenonT(40), <1>2, <1>7, <2>3 DEF TtlRemover, TtlStart, TtlRead, TtlUnlink, TtlDrop
  <2> QED
    BY ZenonT(40), <2>1, <2>2, <2>3
<1>8. ASSUME Crash PROVE LockInv'
  <2>1. LockInit'
    BY Zenon, <1>8 DEF Crash, LockInit
  <2>2. LockInit' => LockInv'
    BY LockInitInv, PTL
  <2> QED
    BY Zenon, <2>1, <2>2
<1>9. ASSUME AttachOplog \/ Midnight \/ UNCHANGED diskVars PROVE LockInv'
  BY Zenon, <1>2, <1>9 DEF AttachOplog, Midnight, diskVars
<1> QED
  BY ZenonT(40), <1>3, <1>4, <1>5, <1>6, <1>7, <1>8, <1>9 DEF DiskNext

LEMMA DiskNextInv ==
  ASSUME CounterWideEnough, LockInv, DiskInv, [DiskNext]_diskVars
  PROVE  LockInv' /\ DiskInv'
<1>0. LockInv'
  BY Zenon, LockSteps
<1>1. LockHolds'
  BY Zenon, <1>0 DEF LockInv, LockHolds
<1>2. ASSUME NEW t \in Threads, EnterFile(t) \/ Release(t) \/ Busy(t) PROVE DiskInv'
  BY ZenonT(40), <1>1, <1>2, EnterFileInv, ReleaseInv, IdleSteps DEF Busy
<1>3. Workers \subseteq Threads
  BY Zenon DEF Workers
<1>4. ASSUME NEW t \in Workers, Accept(t) PROVE DiskInv'
  BY ZenonT(40), <1>1, <1>3, <1>4, AcceptCallInv, RoomInv, BodyOpenInv, BodyDoneInv, IndexOpenInv, IndexDoneInv,
     LogInv, AccountInv, TtlDateInv, TtlAppendInv DEF Accept
<1>5. ASSUME NEW t \in Workers, Read(t) PROVE DiskInv'
  BY ZenonT(40), <1>1, <1>3, <1>5, ReadCallInv, ReadIndexInv, ReadBodyInv DEF Read
<1>6. ASSUME NEW t \in Workers, Remove(t) PROVE DiskInv'
  BY ZenonT(40), <1>1, <1>3, <1>6, RemoveCallInv, RemoveCheckInv, UnlinkInv, UnlinkBodyInv DEF Remove
<1>7. ASSUME TtlRemover PROVE DiskInv'
  BY ZenonT(40), <1>1, <1>7, TtlStartInv, TtlReadInv, TtlLockInv, TtlUnlinkInv, TtlUnlinkBodyInv, TtlDropInv DEF TtlRemover
<1>8. ASSUME AttachOplog \/ Midnight \/ Crash \/ UNCHANGED diskVars PROVE DiskInv'
  BY ZenonT(40), <1>1, <1>8, IdleSteps, CrashInv
<1> QED
  BY ZenonT(40), <1>0, <1>2, <1>4, <1>5, <1>6, <1>7, <1>8 DEF DiskNext

\* The invariant of the proofs, for every number of threads that the counter of
\* a lock entry can tell apart and every set of files, types, stamps and TTLs.
LEMMA DiskInvariant ==
  ASSUME CounterWideEnough
  PROVE  DiskSpec => [](LockInv /\ DiskInv)
<1>1. DiskInit => LockInv /\ DiskInv
  BY Zenon, DiskInitInv, LockInitInv DEF DiskInit
<1>2. LockInv /\ DiskInv /\ [DiskNext]_diskVars => (LockInv /\ DiskInv)'
  BY Zenon, DiskNextInv
<1> QED
  BY <1>1, <1>2, PTL DEF DiskSpec

\* Who changes a file is in it, as a writer.
LEMMA ChangersWrite ==
  ASSUME DiskInv, NEW f \in Files, Writers(Key(f)) = {}, NEW t \in Threads
  PROVE  ~Replaces(t, f) /\ ~Logging(t, f)
<1>1. SUFFICES ASSUME Replaces(t, f) \/ Logging(t, f) PROVE FALSE
  BY Zenon
<1>2. mode[t] \in Modes /\ OpOK(t)
  BY Zenon DEF DiskInv, LockHolds, LockTypeOK
<1>3. mode[t] = "write" /\ at[t] = Key(f)
  BY ZenonT(40), <1>1, <1>2 DEF Replaces, Logging, OpOK, OutPcs, Modes
<1> QED
  BY Zenon, <1>3 DEF Writers

\* A "?jdb" read that answers ok has combined an index with the body blocks
\* written for it (read_file, JDatabaseManager::fetch), whatever accept_file,
\* remove_file_by_tms, the TTL remover and crashes do in between.
THEOREM DiskReadConsistent ==
  ASSUME CounterWideEnough
  PROVE  DiskSpec => []ReadConsistent
<1>1. DiskInv => ReadConsistent
  BY ZenonT(40) DEF DiskInv, OpKnows, ReadConsistent
<1> QED
  BY <1>1, DiskInvariant, PTL

\* The index of a split database that nobody is writing refers to the blocks it
\* was built for, after any crash: accept_file writes the body first, and an
\* append (createDatabaseContent) takes the offset from the end of the body.
THEOREM DiskIndexMatchesBody ==
  ASSUME CounterWideEnough
  PROVE  DiskSpec => []IndexMatchesBody
<1>1. DiskInv => IndexMatchesBody
  BY ZenonT(40), ChangersWrite DEF DiskInv, FileOK, IndexMatchesBody
<1> QED
  BY <1>1, DiskInvariant, PTL

\* A stamped file whose writer has left is in the oplog, but for the writes that
\* accept_file made while on_write_ was not set or that a crash cut off from it.
THEOREM DiskWritesReachOplog ==
  ASSUME CounterWideEnough
  PROVE  DiskSpec => []WritesReachOplog
<1>1. DiskInv => WritesReachOplog
  BY Zenon, ChangersWrite DEF DiskInv, FileOK, Logged, WritesReachOplog
<1> QED
  BY <1>1, DiskInvariant, PTL

\* What remove_file_by_tms has found out about the header of a file still holds
\* when it unlinks the file: a newer version is never lost to an old record.
THEOREM DiskRemovesOnlySuperseded ==
  ASSUME CounterWideEnough
  PROVE  DiskSpec => RemovesOnlySuperseded
<1>1. DiskInv => \A t \in Threads :
        pc[t] = "unlink" /\ pc'[t] = "unlinkbody" /\ ~op[t].force
          => Supersedes(op[t].stamp, disk[op[t].f])
  BY Zenon DEF DiskInv, OpKnows
<1> QED
  BY <1>1, DiskInvariant, PTL DEF RemovesOnlySuperseded

\* The lock table keeps its promise under the whole disk server, restarts
\* included: while a thread writes a file (accept_file, remove_file_by_tms, the
\* TTL remover), no other thread is inside the file.
THEOREM DiskMutualExclusion ==
  ASSUME CounterWideEnough
  PROVE  DiskSpec => []MutualExclusion
<1>1. LockInv => MutualExclusion
  BY Zenon DEF LockInv
<1> QED
  BY <1>1, DiskInvariant, PTL
=============================================================================
