------------------------- MODULE DiskSteps_proofs --------------------------
(***************************************************************************)
(* The steps of DiskServer: what the lock table gives to the operations    *)
(* that go through it.  A thread inside a file knows what the file is like *)
(* (OpKnows), because nobody else changes it; a file that nobody is        *)
(* changing is in order (FileOK).  Every action keeps this (DiskInv), as   *)
(* long as the lock table excludes as it should (LockHolds).               *)
(***************************************************************************)
EXTENDS DiskServer, TLAPS

\* What the operations need of the lock table.
LockHolds == LockTypeOK /\ MutualExclusion

FileFields == {"st", "type", "stamp", "size", "id", "refs"}
AcceptFields == {"kind", "f", "type", "content", "stamp", "ttl", "size", "id", "plan", "refs",
                 "bytes", "date", "status"}
ReadFields == {"kind", "f", "query", "seen", "blocks", "status"}
RemoveFields == {"kind", "f", "stamp", "force", "status"}
TtlFields == {"kind", "date", "f"}

\* An index entry: the place of a block in the body, and the write it is of.
Refs == (Nat \ {0}) \X (Nat \ {0})

AcceptPcs == {"room", "body", "bodyw", "index", "indexw", "log", "account", "ttldate", "ttlappend"}
ReadPcs == {"rindex", "rbody"}
RemovePcs == {"check", "unlink", "unlinkbody"}
TtlPcs == {"ttlitem", "ttlunlink", "ttlunlinkbody"}
OutPcs == {"idle", "ttlday", "ttlitem"}

\* The files and the lists hold what they are meant to hold.
StoreOK ==
  /\ disk = [f \in Files |-> disk[f]]
  /\ \A f \in Files :
       /\ DOMAIN disk[f] = FileFields
       /\ disk[f].refs \subseteq Refs
       /\ disk[f].type \notin Split => disk[f].refs = {}
  /\ body \in [Files -> Seq(Nat)]
  /\ nextId \in Nat \ {0}
  /\ today \in 0 .. MaxDay
  /\ ttl \in [Days -> SUBSET Files]
  /\ ttlDirs \subseteq Days /\ due \subseteq Days
  /\ items \subseteq Files

\* What a thread is doing fits where it is and which lock it has.
OpOK(t) ==
  /\ op[t].kind \in {"none", "accept", "read", "remove", "ttl"}
  /\ op[t].kind = "none" => op[t] = NoOp /\ pc[t] \in {"idle", "ttlday"}
  /\ op[t].kind = "accept" =>
       /\ DOMAIN op[t] = AcceptFields
       /\ pc[t] \in AcceptPcs \cup {"reply"}
       /\ op[t].ttl \in TtlDays
       /\ op[t].id \in Nat \ {0}
       /\ op[t].plan \in {"none", "append", "write", "drop"}
       /\ pc[t] \in {"body", "bodyw"} => op[t].plan # "none"
       /\ op[t].refs \subseteq Refs
       /\ op[t].type \notin Split => op[t].refs = {} /\ op[t].plan = "none"
       /\ pc[t] = "ttlappend" => op[t].date \in Days
  /\ op[t].kind = "read" => DOMAIN op[t] = ReadFields /\ pc[t] \in ReadPcs \cup {"reply"}
  /\ op[t].kind = "remove" => DOMAIN op[t] = RemoveFields /\ pc[t] \in RemovePcs \cup {"reply"}
  /\ op[t].kind = "ttl" =>
       /\ DOMAIN op[t] = TtlFields
       /\ pc[t] \in TtlPcs
       /\ op[t].date \in Days
  /\ mode[t] = "out" <=> pc[t] \in OutPcs
  /\ mode[t] = "read" <=> op[t].kind = "read"
  /\ mode[t] = "wait" => pc[t] \in {"room", "check", "ttlunlink"}
  /\ mode[t] # "out" => op[t].f \in Files /\ at[t] = Key(op[t].f)

\* What the thread that is to write the body, has written it, is to write the
\* index or the log knows about the file.
BodyReady(o) ==
  /\ o.plan = "append" /\ o.f \notin torn =>
       \A r \in o.refs : \/ r \in disk[o.f].refs
                         \/ o.content = "data" /\ r = <<Len(body[o.f]) + 1, o.id>>
  /\ o.plan # "append" =>
       \A r \in o.refs : o.content = "data" /\ r = <<1, o.id>>

BodyWritten(o) ==
  /\ o.content = "data" => Len(body[o.f]) > 0 /\ body[o.f][Len(body[o.f])] = Torn
  /\ o.plan = "append" /\ o.f \notin torn =>
       \A r \in o.refs : \/ r \in disk[o.f].refs
                         \/ o.content = "data" /\ r = <<Len(body[o.f]), o.id>>
  /\ o.plan # "append" =>
       \A r \in o.refs : o.content = "data" /\ r = <<Len(body[o.f]), o.id>>

IndexReady(o) == o.plan # "append" \/ o.f \notin torn => PairMatches(o.refs, body[o.f])

Logged(f) == f \in silent \/ <<f, disk[f].stamp>> \in oplog

LogReady(o) ==
  disk[o.f].type \in Stamped =>
    IF o.type \in Stamped THEN disk[o.f].stamp = o.stamp ELSE Logged(o.f)

\* What the operation of a thread knows at each point of its way.
OpKnows(t) ==
  /\ pc[t] = "body" => BodyReady(op[t])
  /\ pc[t] = "bodyw" => BodyWritten(op[t])
  /\ pc[t] \in {"index", "indexw"} => IndexReady(op[t])
  /\ pc[t] = "log" => LogReady(op[t])
  /\ pc[t] = "unlink" => op[t].force \/ Supersedes(op[t].stamp, disk[op[t].f])
  /\ pc[t] \in {"unlinkbody", "ttlunlinkbody"} => disk[op[t].f].refs = {}
  /\ pc[t] = "rbody" => op[t].seen = disk[op[t].f]
  /\ op[t].kind = "read" /\ pc[t] = "reply" /\ op[t].query /\ op[t].status = "ok" /\ op[t].f \notin torn
       => PairMatches(op[t].seen.refs, op[t].blocks)

\* Thread t has replaced the body of f and not yet its index.
Replaces(t, f) ==
  /\ op[t].kind = "accept" /\ op[t].f = f
  /\ op[t].plan \in {"write", "drop"} /\ pc[t] \in {"bodyw", "index"}

\* Thread t has written f and not yet handed it to on_write_.
Logging(t, f) == op[t].kind = "accept" /\ op[t].f = f /\ pc[t] = "log"

\* A file is in order, but for what a thread is doing to it.
FileOK(f) ==
  /\ f \in torn \/ PairMatches(disk[f].refs, body[f]) \/ \E t \in Threads : Replaces(t, f)
  /\ disk[f].type \in Stamped => Logged(f) \/ \E t \in Threads : Logging(t, f)

DiskInv ==
  /\ LockHolds
  /\ StoreOK
  /\ DOMAIN pc = Threads /\ DOMAIN op = Threads
  /\ \A t \in Threads : OpOK(t) /\ OpKnows(t) /\ (t = Checker \/ op[t].kind # "ttl")
  /\ \A f \in Files : FileOK(f)

SameFile(g) ==
  /\ disk'[g] = disk[g] /\ body'[g] = body[g]
  /\ g \in torn' <=> g \in torn
  /\ g \in silent' <=> g \in silent
  /\ oplog \subseteq oplog'

\* Only thread t has moved.
OnlyMoves(t) ==
  /\ DOMAIN pc' = Threads /\ DOMAIN op' = Threads
  /\ \A u \in Threads : u # t => /\ pc'[u] = pc[u] /\ op'[u] = op[u]
                                 /\ mode'[u] = mode[u] /\ at'[u] = at[u]

\* While a thread writes a file, no other is inside the file.
LEMMA Alone ==
  ASSUME DiskInv, NEW t \in Threads, NEW u \in Threads, t # u,
         mode[t] = "write", mode[u] \in {"read", "write"}
  PROVE  op[u].f # op[t].f
<1>1. at[t] = Key(op[t].f) /\ at[u] = Key(op[u].f) /\ op[t].f \in Files
  BY Zenon DEF DiskInv, OpOK
<1>2. Key(op[t].f) \in Keys
  BY Zenon, <1>1 DEF Files, Key
<1>3. SUFFICES ASSUME op[u].f = op[t].f PROVE FALSE
  BY Zenon
<1>4. t \in Writers(Key(op[t].f)) /\ u \in Holders(Key(op[t].f))
  BY Zenon, <1>1, <1>3 DEF Writers, Holders, Readers
<1> QED
  BY <1>2, <1>4 DEF DiskInv, LockHolds, MutualExclusion

LEMMA OpStays ==
  ASSUME NEW u \in Threads, OpOK(u), pc'[u] = pc[u], op'[u] = op[u],
         mode'[u] = mode[u], at'[u] = at[u]
  PROVE  OpOK(u)'
BY DEF OpOK

LEMMA KnowsStays ==
  ASSUME NEW u \in Threads, OpOK(u), OpKnows(u), pc'[u] = pc[u], op'[u] = op[u],
         mode[u] \in {"read", "write"} => SameFile(op[u].f),
         mode[u] \in Modes
  PROVE  OpKnows(u)'
<1>1. CASE mode[u] \in {"read", "write"}
  BY <1>1 DEF OpKnows, SameFile, BodyReady, BodyWritten, IndexReady, LogReady, Logged, PairMatches, Supersedes
<1>2. CASE mode[u] \in {"out", "wait"}
  BY Zenon, <1>2 DEF OpKnows, OpOK, OutPcs
<1> QED
  BY ZenonT(40), <1>1, <1>2 DEF Modes

LEMMA FileStays ==
  ASSUME NEW g \in Files, FileOK(g), SameFile(g),
         \A u \in Threads : /\ Replaces(u, g) => Replaces(u, g)'
                            /\ Logging(u, g) => Logging(u, g)'
  PROVE  FileOK(g)'
BY Zenon DEF FileOK, SameFile, Logged, PairMatches

\* A step of thread t that writes its file and nothing else.
LEMMA WriteStep ==
  ASSUME DiskInv, LockHolds', StoreOK', NEW t \in Threads, mode[t] = "write", OnlyMoves(t),
         \A g \in Files : g # op[t].f => SameFile(g),
         op'[t].f = op[t].f,
         OpOK(t)', OpKnows(t)', FileOK(op[t].f)', t = Checker \/ op'[t].kind # "ttl"
  PROVE  DiskInv'
<1>1. ASSUME NEW u \in Threads, u # t
      PROVE  OpOK(u)' /\ OpKnows(u)' /\ (u = Checker \/ op'[u].kind # "ttl")
  <2>1. mode[u] \in {"read", "write"} => SameFile(op[u].f)
    BY <1>1, Alone DEF DiskInv, OpOK
  <2>2. mode[u] \in Modes
    BY Zenon DEF DiskInv, LockHolds, LockTypeOK
  <2> QED
    BY Zenon, <1>1, <2>1, <2>2, OpStays, KnowsStays DEF DiskInv, OnlyMoves
<1>2. ASSUME NEW g \in Files, g # op[t].f
      PROVE  FileOK(g)'
  <2>1. \A u \in Threads : /\ Replaces(u, g) => Replaces(u, g)'
                           /\ Logging(u, g) => Logging(u, g)'
    BY Zenon, <1>2 DEF OnlyMoves, Replaces, Logging
  <2> QED
    BY Zenon, <1>2, <2>1, FileStays DEF DiskInv
<1> QED
  BY Zenon, <1>1, <1>2 DEF DiskInv, OnlyMoves

\* A step of thread t that writes no file.
LEMMA QuietStep ==
  ASSUME DiskInv, LockHolds', StoreOK', NEW t \in Threads, OnlyMoves(t),
         \A g \in Files : SameFile(g),
         \A g \in Files : (Replaces(t, g) => Replaces(t, g)') /\ (Logging(t, g) => Logging(t, g)'),
         OpOK(t)', OpKnows(t)', t = Checker \/ op'[t].kind # "ttl"
  PROVE  DiskInv'
<1>1. ASSUME NEW u \in Threads, u # t
      PROVE  OpOK(u)' /\ OpKnows(u)' /\ (u = Checker \/ op'[u].kind # "ttl")
  <2>1. mode[u] \in {"read", "write"} => SameFile(op[u].f)
    BY Zenon DEF DiskInv, OpOK
  <2>2. mode[u] \in Modes
    BY Zenon DEF DiskInv, LockHolds, LockTypeOK
  <2> QED
    BY Zenon, <1>1, <2>1, <2>2, OpStays, KnowsStays DEF DiskInv, OnlyMoves
<1>2. ASSUME NEW g \in Files
      PROVE  FileOK(g)'
  <2>1. \A u \in Threads : /\ Replaces(u, g) => Replaces(u, g)'
                           /\ Logging(u, g) => Logging(u, g)'
    BY DEF OnlyMoves, Replaces, Logging
  <2> QED
    BY Zenon, <2>1, FileStays DEF DiskInv
<1> QED
  BY Zenon, <1>1, <1>2 DEF DiskInv, OnlyMoves

LEMMA Moved ==
  ASSUME DiskInv, NEW t \in Threads, NEW o, NEW p, With(t, o), Goto(t, p), UNCHANGED lockVars
  PROVE  /\ OnlyMoves(t) /\ op'[t] = o /\ pc'[t] = p
         /\ mode'[t] = mode[t] /\ at'[t] = at[t]
BY Zenon DEF DiskInv, OnlyMoves, With, Goto, lockVars

\* The answer of a write or of a removal is set.
LEMMA Replied ==
  ASSUME DiskInv, NEW t \in Threads, NEW s, Reply(t, op[t], s), UNCHANGED lockVars,
         mode[t] = "write", op[t].kind \in {"accept", "remove"}
  PROVE  /\ OnlyMoves(t) /\ OpOK(t)' /\ OpKnows(t)'
         /\ op'[t].f = op[t].f /\ op'[t].kind = op[t].kind
<1>1. /\ OnlyMoves(t) /\ op'[t] = [op[t] EXCEPT !.status = s] /\ pc'[t] = "reply"
      /\ mode'[t] = mode[t] /\ at'[t] = at[t]
  BY Zenon, Moved DEF Reply
<1>2. OpOK(t)
  BY Zenon DEF DiskInv
<1>3. CASE op[t].kind = "accept"
  <2>1. DOMAIN op[t] = AcceptFields
    BY Zenon, <1>2, <1>3 DEF OpOK
  <2>2. /\ DOMAIN op'[t] = AcceptFields
        /\ op'[t].kind = "accept" /\ op'[t].f = op[t].f /\ op'[t].ttl = op[t].ttl
        /\ op'[t].id = op[t].id /\ op'[t].refs = op[t].refs /\ op'[t].type = op[t].type
        /\ op'[t].plan = op[t].plan
    BY Zenon, <1>1, <1>3, <2>1 DEF AcceptFields
  <2> QED
    BY <1>1, <1>2, <1>3, <2>2 DEF OpOK, OpKnows, OutPcs
<1>4. CASE op[t].kind = "remove"
  <2>1. DOMAIN op[t] = RemoveFields
    BY Zenon, <1>2, <1>4 DEF OpOK
  <2>2. /\ DOMAIN op'[t] = RemoveFields
        /\ op'[t].kind = "remove" /\ op'[t].f = op[t].f
    BY Zenon, <1>1, <1>4, <2>1 DEF RemoveFields
  <2> QED
    BY Zenon, <1>1, <1>2, <1>4, <2>2 DEF OpOK, OpKnows, OutPcs
<1> QED
  BY Zenon, <1>1, <1>3, <1>4

LEMMA StoreStays ==
  ASSUME StoreOK, UNCHANGED <<fsVars, nextId, today, ttl, ttlDirs, due, items>>
  PROVE  StoreOK'
BY Zenon DEF StoreOK, fsVars

LEMMA AllSame ==
  ASSUME UNCHANGED <<fsVars, oplog, torn, silent>>
  PROVE  \A g \in Files : SameFile(g)
BY Zenon DEF SameFile, fsVars

LEMMA PreparedIs ==
  ASSUME NEW o, DOMAIN o = AcceptFields
  PROVE  /\ DOMAIN Prepared(o) = AcceptFields
         /\ Prepared(o).kind = o.kind /\ Prepared(o).f = o.f /\ Prepared(o).ttl = o.ttl
         /\ Prepared(o).id = o.id /\ Prepared(o).type = o.type /\ Prepared(o).content = o.content
         /\ Prepared(o).plan = BodyPlan(o)
         /\ Prepared(o).refs =
              (IF BodyPlan(o) = "append" THEN disk[o.f].refs ELSE {})
              \cup (IF BodyPlan(o) # "none" /\ o.content = "data" THEN {<<NewOffset(o), o.id>>} ELSE {})
BY Zenon DEF Prepared, AcceptFields

LEMMA RoomInv ==
  ASSUME DiskInv, LockHolds', NEW t \in Threads, Room(t)
  PROVE  DiskInv'
<1> DEFINE o == op[t]
<1>1. /\ mode[t] = "write" /\ o.kind = "accept" /\ pc[t] = "room" /\ UNCHANGED lockVars
      /\ OpOK(t) /\ DOMAIN o = AcceptFields /\ o.f \in Files /\ o.id \in Nat \ {0}
  BY Zenon DEF DiskInv, Room, Writing, OpOK
<1>2. StoreOK' /\ \A g \in Files : SameFile(g)
  BY Zenon, StoreStays, AllSame DEF DiskInv, Room, ttlVars, envVars
<1>3. \A g \in Files : ~Replaces(t, g) /\ ~Logging(t, g)
  BY Zenon, <1>1 DEF Replaces, Logging
<1>4. ASSUME NEW s, Reply(t, o, s) PROVE DiskInv'
  BY ZenonT(40), <1>1, <1>2, <1>3, <1>4, Replied, QuietStep
<1>5. ASSUME With(t, Prepared(o)), Goto(t, IF BodyPlan(o) # "none" THEN "body" ELSE "index")
      PROVE  DiskInv'
  <2> DEFINE q == Prepared(o)
  <2>1. /\ OnlyMoves(t) /\ op'[t] = q /\ mode'[t] = mode[t] /\ at'[t] = at[t]
        /\ pc'[t] = IF BodyPlan(o) # "none" THEN "body" ELSE "index"
    BY <1>1, <1>5, Moved
  <2>2. body[o.f] \in Seq(Nat) /\ disk[o.f].refs \subseteq Refs
    BY Zenon, <1>1 DEF DiskInv, StoreOK
  <2>3. NewOffset(o) \in Nat \ {0}
    BY <2>2 DEF NewOffset
  <2>4. BodyPlan(o) \in {"none", "append", "write", "drop"}
    BY Zenon DEF BodyPlan
  <2>5. o.type \notin Split => BodyPlan(o) = "none"
    BY Zenon DEF BodyPlan
  <2>6. BodyPlan(o) = "append" <=> BodyPlan(o) # "none" /\ Appends(o)
    BY ZenonT(40) DEF BodyPlan
  <2>7. OpOK(t)'
    BY <1>1, <2>1, <2>2, <2>3, <2>4, <2>5, PreparedIs DEF OpOK, AcceptPcs, OutPcs, Refs
  <2>8. BodyPlan(o) # "none" => BodyReady(op[t])'
    BY <1>1, <1>2, <2>1, <2>6, PreparedIs DEF BodyReady, NewOffset, SameFile
  <2>9. BodyPlan(o) = "none" => IndexReady(op[t])'
    BY Zenon, <1>1, <2>1, PreparedIs DEF IndexReady, PairMatches
  <2> QED
    BY <1>1, <1>2, <1>3, <2>1, <2>7, <2>8, <2>9, PreparedIs, QuietStep DEF OpKnows
<1> QED
  BY Zenon, <1>4, <1>5 DEF Room

\* What thread t, writing its file, may rely on: only t itself has put it out of order.
LEMMA MyFile ==
  ASSUME DiskInv, NEW t \in Threads, mode[t] = "write"
  PROVE  /\ op[t].f \in Files
         /\ op[t].f \in torn \/ PairMatches(disk[op[t].f].refs, body[op[t].f]) \/ Replaces(t, op[t].f)
         /\ disk[op[t].f].type \in Stamped => Logged(op[t].f) \/ Logging(t, op[t].f)
<1>1. op[t].f \in Files
  BY Zenon DEF DiskInv, OpOK
<1>2. ASSUME NEW u \in Threads, u # t PROVE ~Replaces(u, op[t].f) /\ ~Logging(u, op[t].f)
  <2>1. SUFFICES ASSUME Replaces(u, op[t].f) \/ Logging(u, op[t].f) PROVE FALSE
    BY Zenon
  <2>2. mode[u] \in Modes /\ OpOK(u)
    BY Zenon DEF DiskInv, LockHolds, LockTypeOK
  <2>3. mode[u] \in {"read", "write"} /\ op[u].f = op[t].f
    BY Zenon, <2>1, <2>2 DEF Replaces, Logging, OpOK, OutPcs, Modes
  <2> QED
    BY Zenon, <1>2, <2>3, Alone
<1> QED
  BY Zenon, <1>1, <1>2 DEF DiskInv, FileOK

LEMMA Concat ==
  ASSUME NEW s \in Seq(Nat), NEW x \in Nat
  PROVE  /\ s \o <<x>> \in Seq(Nat) /\ Len(s \o <<x>>) = Len(s) + 1
         /\ (s \o <<x>>)[Len(s) + 1] = x
         /\ \A i \in 1 .. Len(s) : (s \o <<x>>)[i] = s[i]
         /\ s \o <<>> = s
OBVIOUS

LEMMA LastSet ==
  ASSUME NEW s \in Seq(Nat), NEW x \in Nat, Len(s) > 0
  PROVE  LET q == [s EXCEPT ![Len(s)] = x]
         IN /\ q \in Seq(Nat) /\ Len(q) = Len(s) /\ q[Len(s)] = x
            /\ \A i \in 1 .. Len(s) : i # Len(s) => q[i] = s[i]
OBVIOUS

\* A longer body is as good for an index as it was.
LEMMA PairGrows ==
  ASSUME NEW refs \in SUBSET Refs, NEW s \in Seq(Nat), NEW q \in Seq(Nat), PairMatches(refs, s),
         Len(s) <= Len(q), \A i \in 1 .. Len(s) : s[i] # Torn => q[i] = s[i]
  PROVE  PairMatches(refs, q)
<1> SUFFICES ASSUME NEW r \in refs PROVE r[1] <= Len(q) /\ q[r[1]] = r[2]
  BY Zenon DEF PairMatches
<1>1. r[1] \in Nat \ {0} /\ r[2] \in Nat \ {0}
  BY Zenon DEF Refs
<1>2. r[1] <= Len(s) /\ s[r[1]] = r[2]
  BY Zenon DEF PairMatches
<1> QED
  BY <1>1, <1>2 DEF Torn

\* The record of a write, but for what is charged, the date and the status.
Alike(q, o) ==
  /\ DOMAIN q = DOMAIN o
  /\ q.kind = o.kind /\ q.f = o.f /\ q.type = o.type /\ q.content = o.content /\ q.stamp = o.stamp
  /\ q.ttl = o.ttl /\ q.id = o.id /\ q.plan = o.plan /\ q.refs = o.refs

LEMMA AlikeIs ==
  ASSUME NEW o, DOMAIN o = AcceptFields, NEW x
  PROVE  Alike([o EXCEPT !.bytes = x], o) /\ Alike([o EXCEPT !.date = x], o)
BY Zenon DEF Alike, AcceptFields

\* A write goes on, and its record is the same in what matters.
LEMMA Advanced ==
  ASSUME DiskInv, NEW t \in Threads, NEW q, Alike(q, op[t]), NEW p, With(t, q), Goto(t, p),
         UNCHANGED lockVars, mode[t] = "write", op[t].kind = "accept",
         p \in {"bodyw", "index", "indexw", "log", "ttlappend"},
         p = "bodyw" => op[t].plan # "none",
         p = "ttlappend" => q.date \in Days
  PROVE  OnlyMoves(t) /\ OpOK(t)' /\ pc'[t] = p /\ Alike(op'[t], op[t])
<1>1. /\ OnlyMoves(t) /\ op'[t] = q /\ pc'[t] = p /\ mode'[t] = mode[t] /\ at'[t] = at[t]
  BY Moved
<1>2. OpOK(t)
  BY Zenon DEF DiskInv
<1>3. OpOK(t)'
  BY <1>1, <1>2 DEF OpOK, AcceptPcs, OutPcs, Alike
<1> QED
  BY Zenon, <1>1, <1>3

LEMMA BodyOpenInv ==
  ASSUME DiskInv, LockHolds', NEW t \in Threads, BodyOpen(t)
  PROVE  DiskInv'
<1> DEFINE o == op[t]
           f == o.f
           new == IF o.content = "data" THEN <<Torn>> ELSE <<>>
<1>1. /\ mode[t] = "write" /\ o.kind = "accept" /\ pc[t] = "body" /\ UNCHANGED lockVars
      /\ OpOK(t) /\ DOMAIN o = AcceptFields /\ BodyReady(o) /\ f \in Files /\ o.id \in Nat \ {0} /\ o.refs \subseteq Refs
      /\ o.plan \in {"append", "write", "drop"}
  BY Zenon DEF DiskInv, BodyOpen, Writing, OpOK, OpKnows
<1>2. \A g \in Files : ~Replaces(t, g) /\ ~Logging(t, g)
  BY Zenon, <1>1 DEF Replaces, Logging
<1>3. ASSUME Reply(t, o, "cant_write_file_to_disk"), UNCHANGED <<body, bodies>> PROVE DiskInv'
  <2>1. StoreOK' /\ \A g \in Files : SameFile(g)
    BY Zenon, <1>3, StoreStays, AllSame DEF DiskInv, BodyOpen, ttlVars, envVars, fsVars
  <2> QED
    BY Zenon, <1>1, <1>2, <1>3, <2>1, Replied, QuietStep
<1>4. ASSUME NEW n, With(t, [o EXCEPT !.bytes = n]), Goto(t, "bodyw"),
             body' = [body EXCEPT ![f] = IF o.plan = "append" THEN @ \o new ELSE new]
      PROVE  DiskInv'
  <2>1. /\ OnlyMoves(t) /\ OpOK(t)' /\ pc'[t] = "bodyw" /\ op'[t].f = f /\ op'[t].kind = o.kind
        /\ op'[t].id = o.id /\ op'[t].refs = o.refs /\ op'[t].plan = o.plan /\ op'[t].content = o.content
    <3>1. OnlyMoves(t) /\ OpOK(t)' /\ pc'[t] = "bodyw" /\ Alike(op'[t], o)
      BY Zenon, <1>1, <1>4, AlikeIs, Advanced
    <3> QED
      BY Zenon, <3>1 DEF Alike
  <2>2. body \in [Files -> Seq(Nat)] /\ disk[f].refs \subseteq Refs
    BY Zenon, <1>1 DEF DiskInv, StoreOK
  <2>3. /\ body'[f] \in Seq(Nat) /\ \A g \in Files : g # f => body'[g] = body[g]
        /\ o.plan = "append" => /\ Len(body[f]) <= Len(body'[f])
                                /\ \A i \in 1 .. Len(body[f]) : body'[f][i] = body[f][i]
                                /\ o.content = "data" => Len(body'[f]) = Len(body[f]) + 1
        /\ o.plan # "append" /\ o.content = "data" => Len(body'[f]) = 1
        /\ o.content = "data" => Len(body'[f]) > 0 /\ body'[f][Len(body'[f])] = Torn
    <3>1. body'[f] = IF o.plan = "append" THEN body[f] \o new ELSE new
      BY Zenon, <1>1, <1>4, <2>2
    <3>2. \A g \in Files : g # f => body'[g] = body[g]
      BY Zenon, <1>1, <1>4, <2>2
    <3>3. body[f] \in Seq(Nat) /\ Torn \in Nat
      BY Zenon, <1>1, <2>2 DEF Torn
    <3>4. CASE o.plan = "append"
      <4>1. CASE o.content = "data"
        <5>1. body'[f] = body[f] \o <<Torn>>
          BY Zenon, <3>1, <3>4, <4>1
        <5> HIDE DEF f
        <5> QED
          BY <3>2, <3>3, <3>4, <4>1, <5>1, Concat
      <4>2. CASE o.content # "data"
        <5>1. body'[f] = body[f]
          BY Zenon, <3>1, <3>3, <3>4, <4>2, Concat
        <5> QED
          BY <3>2, <3>3, <3>4, <4>2, <5>1
      <4> QED
        BY ZenonT(40), <4>1, <4>2
    <3>5. CASE o.plan # "append"
      BY <3>1, <3>2, <3>3, <3>5
    <3> QED
      BY Zenon, <3>4, <3>5
  <2>4. StoreOK'
    <3>1. body' \in [Files -> Seq(Nat)]
      BY Zenon, <1>1, <1>4, <2>2, <2>3
    <3> QED
      BY Zenon, <3>1 DEF DiskInv, StoreOK, BodyOpen, ttlVars, envVars
  <2>5. disk' = disk /\ torn' = torn /\ silent' = silent /\ oplog' = oplog
    BY Zenon DEF BodyOpen
  <2>6. \A g \in Files : g # f => SameFile(g)
    BY Zenon, <2>3, <2>5 DEF SameFile
  <2>7. OpKnows(t)'
    <3>1. BodyWritten(op[t])'
      BY <1>1, <2>1, <2>3, <2>5 DEF BodyReady, BodyWritten
    <3> QED
      BY ZenonT(40), <1>1, <2>1, <3>1 DEF OpKnows
  <2>8. FileOK(f)'
    <3>1. disk[f].type \in Stamped => Logged(f)'
      BY Zenon, <1>1, <1>2, <2>1, <2>5, MyFile DEF Logged
    <3>2. CASE o.plan = "append"
      <4>1. f \in torn \/ PairMatches(disk[f].refs, body[f])
        BY ZenonT(40), <1>1, <1>2, MyFile
      <4>2. f \in torn \/ PairMatches(disk[f].refs, body'[f])
        <5>1. disk[f].refs \in SUBSET Refs /\ body[f] \in Seq(Nat)
          BY Zenon, <1>1, <2>2
        <5> QED
          BY ZenonT(40), <2>3, <3>2, <4>1, <5>1, PairGrows
      <4> QED
        BY Zenon, <2>1, <2>5, <3>1, <4>2 DEF FileOK, PairMatches
    <3>3. CASE o.plan # "append"
      <4>1. Replaces(t, f)'
        BY Zenon, <1>1, <2>1, <3>3 DEF Replaces
      <4> QED
        BY Zenon, <2>1, <2>5, <3>1, <4>1 DEF FileOK
    <3> QED
      BY Zenon, <3>2, <3>3
  <2> QED
    BY Zenon, <1>1, <2>1, <2>4, <2>6, <2>7, <2>8, WriteStep
<1> QED
  BY Zenon, <1>3, <1>4 DEF BodyOpen

LEMMA BodyDoneInv ==
  ASSUME DiskInv, LockHolds', NEW t \in Threads, BodyDone(t)
  PROVE  DiskInv'
<1> DEFINE o == op[t]
           f == o.f
<1>1. /\ mode[t] = "write" /\ o.kind = "accept" /\ pc[t] = "bodyw" /\ UNCHANGED lockVars
      /\ OpOK(t) /\ DOMAIN o = AcceptFields /\ BodyWritten(o) /\ f \in Files /\ o.id \in Nat \ {0}
      /\ o.refs \subseteq Refs /\ o.plan \in {"append", "write", "drop"}
      /\ With(t, [o EXCEPT !.bytes = 0]) /\ Goto(t, "index")
  BY Zenon DEF DiskInv, BodyDone, Writing, OpOK, OpKnows
<1>2. OnlyMoves(t) /\ OpOK(t)' /\ pc'[t] = "index" /\ Alike(op'[t], o)
  BY Zenon, <1>1, AlikeIs, Advanced
<1>3. /\ op'[t].f = f /\ op'[t].kind = o.kind /\ op'[t].id = o.id /\ op'[t].refs = o.refs
      /\ op'[t].plan = o.plan /\ op'[t].content = o.content
  BY Zenon, <1>2 DEF Alike
<1>4. body \in [Files -> Seq(Nat)] /\ disk[f].refs \in SUBSET Refs /\ body[f] \in Seq(Nat)
  BY Zenon, <1>1 DEF DiskInv, StoreOK
<1>5. disk' = disk /\ torn' = torn /\ silent' = silent /\ oplog' = oplog
  BY Zenon DEF BodyDone
<1>6. /\ body' \in [Files -> Seq(Nat)] /\ \A g \in Files : g # f => body'[g] = body[g]
      /\ Len(body'[f]) = Len(body[f])
      /\ \A i \in 1 .. Len(body[f]) : body[f][i] # Torn => body'[f][i] = body[f][i]
      /\ o.content = "data" => Len(body[f]) > 0 /\ body'[f][Len(body[f])] = o.id
  <2>1. CASE o.content = "data"
    <3>1. Len(body[f]) > 0 /\ body[f][Len(body[f])] = Torn
      BY Zenon, <1>1, <2>1 DEF BodyWritten
    <3>2. body' = [body EXCEPT ![f] = [body[f] EXCEPT ![Len(body[f])] = o.id]]
      BY Zenon, <1>1, <1>4, <2>1 DEF BodyDone
    <3>3. body'[f] = [body[f] EXCEPT ![Len(body[f])] = o.id]
      BY ZenonT(40), <1>1, <1>4, <3>2
    <3>4. /\ body'[f] \in Seq(Nat) /\ Len(body'[f]) = Len(body[f]) /\ body'[f][Len(body[f])] = o.id
          /\ \A i \in 1 .. Len(body[f]) : i # Len(body[f]) => body'[f][i] = body[f][i]
      BY <1>1, <1>4, <3>1, <3>3, LastSet
    <3>5. body' \in [Files -> Seq(Nat)] /\ \A g \in Files : g # f => body'[g] = body[g]
      BY Zenon, <1>1, <1>4, <3>2, <3>3, <3>4
    <3> QED
      BY Zenon, <2>1, <3>1, <3>4, <3>5
  <2>2. CASE o.content # "data"
    BY Zenon, <1>4, <2>2 DEF BodyDone
  <2> QED
    BY Zenon, <2>1, <2>2
<1>7. StoreOK' /\ \A g \in Files : g # f => SameFile(g)
  BY Zenon, <1>5, <1>6 DEF DiskInv, StoreOK, BodyDone, ttlVars, envVars, SameFile
<1>8. f \in torn \/ Replaces(t, f) \/ PairMatches(disk[f].refs, body'[f])
  <2>1. body'[f] \in Seq(Nat) /\ Len(body[f]) <= Len(body'[f])
    BY <1>1, <1>4, <1>6
  <2>2. ASSUME PairMatches(disk[f].refs, body[f]) PROVE PairMatches(disk[f].refs, body'[f])
    BY Zenon, <1>4, <1>6, <2>1, <2>2, PairGrows
  <2> QED
    BY Zenon, <1>1, <2>2, MyFile
<1>9. OpKnows(t)'
  <2>1. ASSUME o.plan # "append" \/ f \notin torn, NEW r \in o.refs
        PROVE  r[1] <= Len(body'[f]) /\ body'[f][r[1]] = r[2]
    <3>1. CASE r \in disk[f].refs /\ o.plan = "append"
      BY ZenonT(40), <1>8, <2>1, <3>1 DEF Replaces, PairMatches
    <3>2. CASE o.content = "data" /\ r = <<Len(body[f]), o.id>>
      BY <1>4, <1>6, <3>2
    <3> QED
      BY Zenon, <1>1, <2>1, <3>1, <3>2 DEF BodyWritten
  <2>2. IndexReady(op[t])'
    BY Zenon, <1>3, <1>5, <2>1 DEF IndexReady, PairMatches
  <2> QED
    BY Zenon, <1>1, <1>2, <1>3, <2>2 DEF OpKnows
<1>10. FileOK(f)'
  <2>1. disk[f].type \in Stamped => Logged(f)'
    BY Zenon, <1>1, <1>3, <1>5, MyFile DEF Logged, Logging
  <2>2. Replaces(t, f) => Replaces(t, f)'
    BY Zenon, <1>1, <1>2, <1>3 DEF Replaces
  <2> QED
    BY Zenon, <1>3, <1>5, <1>8, <2>1, <2>2 DEF FileOK, PairMatches
<1> QED
  BY Zenon, <1>1, <1>2, <1>3, <1>7, <1>9, <1>10, WriteStep

LEMMA IndexOpenInv ==
  ASSUME DiskInv, LockHolds', NEW t \in Threads, IndexOpen(t)
  PROVE  DiskInv'
<1> DEFINE o == op[t]
           f == o.f
<1>1. /\ mode[t] = "write" /\ o.kind = "accept" /\ pc[t] = "index" /\ UNCHANGED lockVars
      /\ OpOK(t) /\ DOMAIN o = AcceptFields /\ IndexReady(o) /\ f \in Files
      /\ o.refs \subseteq Refs /\ o.plan \in {"none", "append", "write", "drop"}
      /\ o.type \notin Split => o.refs = {} /\ o.plan = "none"
  BY Zenon DEF DiskInv, IndexOpen, Writing, OpOK, OpKnows
<1>2. /\ disk = [g \in Files |-> disk[g]] /\ body \in [Files -> Seq(Nat)]
      /\ DOMAIN disk[f] = FileFields /\ disk[f].refs \in SUBSET Refs
  BY Zenon, <1>1 DEF DiskInv, StoreOK
<1>3. body' = body /\ silent' = silent /\ oplog' = oplog
  BY Zenon DEF IndexOpen
<1>4. /\ f \in torn \/ Replaces(t, f) \/ PairMatches(disk[f].refs, body[f])
      /\ disk[f].type \in Stamped => Logged(f)
  BY ZenonT(40), <1>1, MyFile DEF Logging
<1>s. ASSUME disk' = [g \in Files |-> disk'[g]],
             \A g \in Files : g # f => disk'[g] = disk[g],
             DOMAIN disk'[f] = FileFields, disk'[f].refs \subseteq Refs,
             disk'[f].type \notin Split => disk'[f].refs = {}
      PROVE  StoreOK'
  BY ZenonT(40), <1>1, <1>2, <1>s DEF DiskInv, StoreOK, IndexOpen, ttlVars, envVars
<1>o. ASSUME \A g \in Files : g # f => disk'[g] = disk[g], torn' \in {torn, torn \cup {f}, torn \ {f}}
      PROVE  \A g \in Files : g # f => SameFile(g)
  BY Zenon, <1>3, <1>o DEF SameFile
<1>5. ASSUME Reply(t, o, "cant_write_file_to_disk"), UNCHANGED disk,
             torn' = IF o.plan \in {"write", "drop"} THEN torn \cup {f} ELSE torn
      PROVE  DiskInv'
  <2>1. /\ OnlyMoves(t) /\ OpOK(t)' /\ OpKnows(t)' /\ op'[t].f = f /\ op'[t].kind = "accept"
    BY Zenon, <1>1, <1>5, Replied
  <2>2. StoreOK' /\ \A g \in Files : g # f => SameFile(g)
    BY Zenon, <1>1, <1>2, <1>5, <1>s, <1>o DEF DiskInv, StoreOK
  <2>3. FileOK(f)'
    BY Zenon, <1>1, <1>3, <1>4, <1>5, <2>1 DEF FileOK, Logged, Replaces, PairMatches
  <2> QED
    BY Zenon, <1>1, <2>1, <2>2, <2>3, WriteStep
<1>6. ASSUME NEW n, NEW grown, ToAppend(o), UNCHANGED torn,
             disk' = [disk EXCEPT ![f].size = @ + grown, ![f].id = o.id,
                                  ![f].st = IF disk[f].size + grown = 0 THEN "empty" ELSE "full"],
             With(t, [o EXCEPT !.bytes = n]), Goto(t, "log")
      PROVE  DiskInv'
  <2>1. OnlyMoves(t) /\ OpOK(t)' /\ pc'[t] = "log" /\ Alike(op'[t], o)
    BY Zenon, <1>1, <1>6, AlikeIs, Advanced
  <2>2. op'[t].f = f /\ op'[t].kind = "accept" /\ op'[t].type = o.type
    BY Zenon, <1>1, <2>1 DEF Alike
  <2>3. /\ disk' = [g \in Files |-> disk'[g]] /\ \A g \in Files : g # f => disk'[g] = disk[g]
        /\ DOMAIN disk'[f] = FileFields /\ disk'[f].refs = disk[f].refs
        /\ disk'[f].type = disk[f].type /\ disk'[f].stamp = disk[f].stamp
    BY Zenon, <1>1, <1>2, <1>6 DEF FileFields
  <2>4. StoreOK' /\ \A g \in Files : g # f => SameFile(g)
    BY Zenon, <1>1, <1>2, <1>6, <1>s, <1>o, <2>3 DEF DiskInv, StoreOK
  <2>5. o.type = "appendable" /\ o.refs = {} /\ o.plan = "none"
    BY Zenon, <1>1, <1>6 DEF ToAppend, Split
  <2>6. OpKnows(t)'
    BY Zenon, <1>1, <1>3, <1>4, <2>1, <2>2, <2>3, <2>5 DEF OpKnows, LogReady, Logged, Stamped
  <2>7. FileOK(f)'
    <3>1. f \in torn' \/ PairMatches(disk'[f].refs, body'[f])
      BY Zenon, <1>3, <1>4, <1>6, <2>3, <2>5 DEF Replaces
    <3>2. disk'[f].type \in Stamped => f \in silent' \/ <<f, disk'[f].stamp>> \in oplog'
      BY Zenon, <1>3, <1>4, <2>3 DEF Logged
    <3> QED
      BY Zenon, <2>2, <3>1, <3>2 DEF FileOK, Logged, PairMatches
  <2> QED
    BY Zenon, <1>1, <2>1, <2>2, <2>4, <2>6, <2>7, WriteStep
<1>7. ASSUME NEW n, NEW st, disk' = [disk EXCEPT ![f] = [NoFile EXCEPT !.st = st]],
             torn' \in {torn, torn \ {f}}, NEW p \in {"log", "indexw"}, p = "indexw" => torn' = torn,
             With(t, [o EXCEPT !.bytes = n]), Goto(t, p)
      PROVE  DiskInv'
  <2>1. OnlyMoves(t) /\ OpOK(t)' /\ pc'[t] = p /\ Alike(op'[t], o)
    BY Zenon, <1>1, <1>7, AlikeIs, Advanced
  <2>2. op'[t].f = f /\ op'[t].kind = "accept" /\ op'[t].plan = o.plan /\ op'[t].refs = o.refs
    BY Zenon, <1>1, <2>1 DEF Alike
  <2>3. /\ disk' = [g \in Files |-> disk'[g]] /\ \A g \in Files : g # f => disk'[g] = disk[g]
        /\ DOMAIN disk'[f] = FileFields /\ disk'[f].refs = {} /\ disk'[f].type = "none"
    BY Zenon, <1>1, <1>2, <1>7 DEF FileFields, NoFile
  <2>4. StoreOK' /\ \A g \in Files : g # f => SameFile(g)
    BY ZenonT(40), <1>7, <1>s, <1>o, <2>3
  <2>5. OpKnows(t)'
    BY <1>1, <1>3, <1>7, <2>1, <2>2, <2>3 DEF OpKnows, LogReady, Stamped, IndexReady, PairMatches
  <2>6. FileOK(f)'
    BY Zenon, <2>2, <2>3 DEF FileOK, PairMatches, Stamped
  <2> QED
    BY Zenon, <1>1, <2>1, <2>2, <2>4, <2>5, <2>6, WriteStep
<1>8. NoFile = [NoFile EXCEPT !.st = "none"]
  BY DEF NoFile
<1> QED
  BY Zenon, <1>5, <1>6, <1>7, <1>8 DEF IndexOpen

\* A thread goes on with the record it has.
LEMMA Went ==
  ASSUME DiskInv, NEW t \in Threads, NEW p, Goto(t, p), UNCHANGED <<op, lockVars>>
  PROVE  /\ OnlyMoves(t) /\ op'[t] = op[t] /\ pc'[t] = p
         /\ mode'[t] = mode[t] /\ at'[t] = at[t]
BY Zenon DEF DiskInv, OnlyMoves, Goto, lockVars

LEMMA IndexDoneInv ==
  ASSUME DiskInv, LockHolds', NEW t \in Threads, IndexDone(t)
  PROVE  DiskInv'
<1> DEFINE o == op[t]
           f == o.f
<1>1. /\ mode[t] = "write" /\ o.kind = "accept" /\ pc[t] = "indexw" /\ UNCHANGED <<op, lockVars>>
      /\ OpOK(t) /\ IndexReady(o) /\ f \in Files
      /\ o.refs \subseteq Refs
      /\ o.type \notin Split => o.refs = {}
  BY Zenon DEF DiskInv, IndexDone, Writing, OpOK, OpKnows
<1>2. /\ OnlyMoves(t) /\ op'[t] = o /\ pc'[t] = "log" /\ mode'[t] = mode[t] /\ at'[t] = at[t]
  BY Zenon, <1>1, Went DEF IndexDone
<1>3. disk = [g \in Files |-> disk[g]]
  BY Zenon DEF DiskInv, StoreOK
<1>4. /\ disk' = [g \in Files |-> disk'[g]] /\ \A g \in Files : g # f => disk'[g] = disk[g]
      /\ DOMAIN disk'[f] = FileFields /\ disk'[f].refs = o.refs
      /\ disk'[f].type = o.type /\ disk'[f].stamp = o.stamp
  BY Zenon, <1>1, <1>3 DEF IndexDone, FileFields
<1>5. body' = body /\ silent' = silent /\ oplog' = oplog /\ torn' = IF o.plan = "append" THEN torn ELSE torn \ {f}
  BY Zenon DEF IndexDone
<1>6. StoreOK'
  <2>1. StoreOK /\ UNCHANGED <<body, nextId, today, ttl, ttlDirs, due, items>>
    BY Zenon DEF DiskInv, IndexDone, ttlVars, envVars
  <2>2. \A g \in Files :
          /\ DOMAIN disk'[g] = FileFields
          /\ disk'[g].refs \subseteq Refs
          /\ disk'[g].type \notin Split => disk'[g].refs = {}
    BY Zenon, <1>1, <1>4, <2>1 DEF StoreOK
  <2> QED
    BY Zenon, <1>4, <2>1, <2>2 DEF StoreOK
<1>7. \A g \in Files : g # f => SameFile(g)
  BY Zenon, <1>4, <1>5 DEF SameFile
<1>8. OpOK(t)' /\ OpKnows(t)'
  <2>1. OpOK(t)'
    BY Zenon, <1>1, <1>2 DEF OpOK, AcceptPcs, OutPcs
  <2>2. LogReady(op[t])'
    BY Zenon, <1>2, <1>4 DEF LogReady
  <2> QED
    BY Zenon, <1>1, <1>2, <2>1, <2>2 DEF OpKnows
<1>9. FileOK(f)'
  <2>1. f \in torn' \/ PairMatches(disk'[f].refs, body'[f])
    BY Zenon, <1>1, <1>4, <1>5 DEF IndexReady
  <2>2. Logging(t, f)'
    BY Zenon, <1>1, <1>2 DEF Logging
  <2> QED
    BY Zenon, <1>2, <2>1, <2>2 DEF FileOK, PairMatches
<1> QED
  BY Zenon, <1>1, <1>2, <1>6, <1>7, <1>8, <1>9, WriteStep

LEMMA LogInv ==
  ASSUME DiskInv, LockHolds', NEW t \in Threads, Log(t)
  PROVE  DiskInv'
<1> DEFINE o == op[t]
           f == o.f
<1>1. /\ mode[t] = "write" /\ o.kind = "accept" /\ pc[t] = "log" /\ UNCHANGED <<op, lockVars>>
      /\ OpOK(t) /\ LogReady(o) /\ f \in Files
  BY Zenon DEF DiskInv, Log, Writing, OpOK, OpKnows
<1>2. /\ OnlyMoves(t) /\ op'[t] = o /\ pc'[t] = "account" /\ mode'[t] = mode[t] /\ at'[t] = at[t]
  BY Zenon, <1>1, Went DEF Log
<1>3. disk' = disk /\ body' = body /\ torn' = torn /\ StoreOK'
  BY Zenon, StoreStays DEF DiskInv, Log, fsVars, ttlVars, envVars
<1>4. \A g \in Files : g # f => SameFile(g)
  BY Zenon, <1>3 DEF SameFile, Log
<1>5. OpOK(t)' /\ OpKnows(t)'
  BY Zenon, <1>1, <1>2 DEF OpOK, OpKnows, AcceptPcs, OutPcs
<1>6. FileOK(f)'
  <2>1. f \in torn' \/ PairMatches(disk'[f].refs, body'[f])
    BY Zenon, <1>1, <1>3, MyFile DEF Replaces
  <2>2. disk'[f].type \in Stamped => f \in silent' \/ <<f, disk'[f].stamp>> \in oplog'
    BY Zenon, <1>1, <1>3 DEF LogReady, Logged, Log
  <2> QED
    BY Zenon, <1>2, <2>1, <2>2 DEF FileOK, Logged, PairMatches
<1> QED
  BY Zenon, <1>1, <1>2, <1>3, <1>4, <1>5, <1>6, WriteStep

LEMMA AccountInv ==
  ASSUME DiskInv, LockHolds', NEW t \in Threads, Account(t)
  PROVE  DiskInv'
<1>1. /\ mode[t] = "write" /\ op[t].kind = "accept" /\ pc[t] = "account" /\ UNCHANGED lockVars
      /\ OpOK(t)
  BY Zenon DEF DiskInv, Account, Writing
<1>2. StoreOK' /\ \A g \in Files : SameFile(g)
  BY Zenon, StoreStays, AllSame DEF DiskInv, Account, ttlVars, envVars
<1>3. \A g \in Files : ~Replaces(t, g) /\ ~Logging(t, g)
  BY Zenon, <1>1 DEF Replaces, Logging
<1>4. ASSUME Reply(t, op[t], "ok") PROVE DiskInv'
  BY Zenon, <1>1, <1>2, <1>3, <1>4, Replied, QuietStep
<1>5. ASSUME Goto(t, "ttldate"), UNCHANGED op PROVE DiskInv'
  <2>1. /\ OnlyMoves(t) /\ op'[t] = op[t] /\ pc'[t] = "ttldate" /\ mode'[t] = mode[t] /\ at'[t] = at[t]
    BY Zenon, <1>1, <1>5, Went
  <2>2. OpOK(t)' /\ OpKnows(t)'
    BY Zenon, <1>1, <2>1 DEF OpOK, OpKnows, AcceptPcs, OutPcs
  <2> QED
    BY Zenon, <1>1, <1>2, <1>3, <2>1, <2>2, QuietStep
<1> QED
  BY Zenon, <1>4, <1>5 DEF Account

LEMMA TtlDateInv ==
  ASSUME DiskInv, LockHolds', NEW t \in Threads, TtlDate(t)
  PROVE  DiskInv'
<1> DEFINE d == today + op[t].ttl
           q == [op[t] EXCEPT !.date = d]
<1>1. /\ mode[t] = "write" /\ op[t].kind = "accept" /\ pc[t] = "ttldate" /\ UNCHANGED lockVars
      /\ OpOK(t) /\ DOMAIN op[t] = AcceptFields /\ op[t].ttl \in TtlDays
      /\ With(t, q) /\ Goto(t, "ttlappend")
  BY Zenon DEF DiskInv, TtlDate, Writing, OpOK
<1>2. d \in Days
  BY <1>1 DEF DiskInv, StoreOK, Days
<1>3. q.date = d /\ Alike(q, op[t])
  BY Zenon, <1>1, AlikeIs DEF AcceptFields
<1>4. OnlyMoves(t) /\ OpOK(t)' /\ pc'[t] = "ttlappend" /\ Alike(op'[t], op[t])
  <2> HIDE DEF q
  <2> QED
    BY Zenon, <1>1, <1>2, <1>3, Advanced
<1>5. StoreOK' /\ \A g \in Files : SameFile(g)
  BY Zenon, <1>2, AllSame DEF DiskInv, StoreOK, TtlDate, fsVars, envVars
<1>6. \A g \in Files : ~Replaces(t, g) /\ ~Logging(t, g)
  BY Zenon, <1>1 DEF Replaces, Logging
<1>7. OpKnows(t)' /\ op'[t].kind # "ttl"
  BY Zenon, <1>1, <1>4 DEF OpKnows, Alike
<1> QED
  BY Zenon, <1>1, <1>4, <1>5, <1>6, <1>7, QuietStep

LEMMA TtlAppendInv ==
  ASSUME DiskInv, LockHolds', NEW t \in Threads, TtlAppend(t)
  PROVE  DiskInv'
<1>1. /\ mode[t] = "write" /\ op[t].kind = "accept" /\ pc[t] = "ttlappend" /\ UNCHANGED lockVars
      /\ op[t].f \in Files /\ op[t].date \in Days /\ Reply(t, op[t], "ok")
  BY Zenon DEF DiskInv, TtlAppend, Writing, OpOK
<1>2. ttl' \in [Days -> SUBSET Files]
  BY <1>1 DEF DiskInv, StoreOK, TtlAppend
<1>3. StoreOK' /\ \A g \in Files : SameFile(g)
  BY Zenon, <1>2, AllSame DEF DiskInv, StoreOK, TtlAppend, fsVars, envVars
<1>4. \A g \in Files : ~Replaces(t, g) /\ ~Logging(t, g)
  BY Zenon, <1>1 DEF Replaces, Logging
<1> QED
  BY Zenon, <1>1, <1>3, <1>4, Replied, QuietStep

\* A thread that is in no file enters one, or begins to wait for it.
LEMMA Called ==
  ASSUME DiskInv, NEW t \in Threads, NEW m, NEW k, Moves(t, m, k), NEW o, With(t, o), NEW p, Goto(t, p)
  PROVE  /\ OnlyMoves(t) /\ op'[t] = o /\ pc'[t] = p
         /\ mode'[t] = m /\ at'[t] = k
BY Zenon DEF DiskInv, OnlyMoves, With, Goto, Moves, LockHolds, LockTypeOK

LEMMA AcceptCallInv ==
  ASSUME DiskInv, LockHolds', NEW t \in Workers, AcceptCall(t)
  PROVE  DiskInv'
<1>1. t \in Threads /\ pc[t] = "idle" /\ mode[t] = "out"
  BY Zenon DEF Workers, AcceptCall, DiskInv, AddWriter
<1>2. PICK r \in Requests :
        /\ AddWriter(t, Key(r.f))
        /\ With(t, [kind |-> "accept", f |-> r.f, type |-> r.type, content |-> r.content,
                    stamp |-> r.stamp, ttl |-> r.ttl, size |-> r.size, id |-> nextId,
                    plan |-> "none", refs |-> {}, bytes |-> 0, date |-> 0, status |-> "none"])
  BY Zenon DEF AcceptCall
<1>3. r.f \in Files /\ r.ttl \in TtlDays
  BY Zenon, <1>2 DEF Requests
<1>4. PICK m \in {"write", "wait"} : Moves(t, m, Key(r.f))
  BY Zenon, <1>2 DEF AddWriter
<1>5. /\ OnlyMoves(t) /\ pc'[t] = "room" /\ mode'[t] = m /\ at'[t] = Key(r.f)
      /\ op'[t] = [kind |-> "accept", f |-> r.f, type |-> r.type, content |-> r.content,
                   stamp |-> r.stamp, ttl |-> r.ttl, size |-> r.size, id |-> nextId,
                   plan |-> "none", refs |-> {}, bytes |-> 0, date |-> 0, status |-> "none"]
  BY <1>1, <1>2, <1>4, Called DEF AcceptCall
<1>6. /\ DOMAIN op'[t] = AcceptFields /\ op'[t].kind = "accept" /\ op'[t].f = r.f /\ op'[t].ttl = r.ttl
      /\ op'[t].id = nextId /\ op'[t].plan = "none" /\ op'[t].refs = {}
  BY <1>5 DEF AcceptFields
<1>7. StoreOK' /\ \A g \in Files : SameFile(g)
  BY AllSame DEF DiskInv, StoreOK, AcceptCall, fsVars, ttlVars, envVars
<1>8. nextId \in Nat \ {0}
  BY Zenon DEF DiskInv, StoreOK
<1>9. OpOK(t)' /\ OpKnows(t)'
  BY Zenon, <1>3, <1>5, <1>6, <1>8 DEF OpOK, OpKnows, AcceptPcs, OutPcs
<1>10. \A g \in Files : ~Replaces(t, g) /\ ~Logging(t, g)
  BY Zenon, <1>1 DEF Replaces, Logging
<1> QED
  BY Zenon, <1>1, <1>5, <1>6, <1>7, <1>9, <1>10, QuietStep

LEMMA ReadCallInv ==
  ASSUME DiskInv, LockHolds', NEW t \in Workers, ReadCall(t)
  PROVE  DiskInv'
<1>1. t \in Threads /\ pc[t] = "idle"
  BY Zenon DEF Workers, ReadCall
<1>2. PICK f \in Files, q \in BOOLEAN :
        /\ AddReader(t, Key(f))
        /\ With(t, [kind |-> "read", f |-> f, query |-> q, seen |-> NoFile, blocks |-> <<>>,
                    status |-> "none"])
  BY Zenon DEF ReadCall
<1>3. Moves(t, "read", Key(f))
  BY Zenon, <1>2 DEF AddReader
<1>4. /\ OnlyMoves(t) /\ pc'[t] = "rindex" /\ mode'[t] = "read" /\ at'[t] = Key(f)
      /\ op'[t] = [kind |-> "read", f |-> f, query |-> q, seen |-> NoFile, blocks |-> <<>>,
                   status |-> "none"]
  BY <1>1, <1>2, <1>3, Called DEF ReadCall
<1>5. DOMAIN op'[t] = ReadFields /\ op'[t].kind = "read" /\ op'[t].f = f
  BY <1>4 DEF ReadFields
<1>6. StoreOK' /\ \A g \in Files : SameFile(g)
  BY Zenon, StoreStays, AllSame DEF DiskInv, ReadCall, ttlVars, envVars
<1>7. OpOK(t)' /\ OpKnows(t)'
  BY Zenon, <1>4, <1>5 DEF OpOK, OpKnows, ReadPcs, OutPcs
<1>8. \A g \in Files : ~Replaces(t, g) /\ ~Logging(t, g)
  BY Zenon, <1>1 DEF Replaces, Logging
<1> QED
  BY Zenon, <1>1, <1>4, <1>5, <1>6, <1>7, <1>8, QuietStep

\* What thread t, reading a file, may rely on: nobody is changing it.
LEMMA FileIRead ==
  ASSUME DiskInv, NEW t \in Threads, mode[t] = "read"
  PROVE  /\ op[t].f \in Files
         /\ op[t].f \in torn \/ PairMatches(disk[op[t].f].refs, body[op[t].f])
<1>1. op[t].f \in Files
  BY Zenon DEF DiskInv, OpOK
<1>2. ASSUME NEW u \in Threads PROVE ~Replaces(u, op[t].f)
  <2>1. SUFFICES ASSUME Replaces(u, op[t].f) PROVE FALSE
    BY Zenon
  <2>2. mode[u] \in Modes /\ OpOK(u)
    BY Zenon DEF DiskInv, LockHolds, LockTypeOK
  <2>3. mode[u] = "write" /\ op[u].f = op[t].f
    BY Zenon, <2>1, <2>2 DEF Replaces, OpOK, OutPcs, Modes
  <2> QED
    BY Zenon, <2>3, Alone
<1> QED
  BY Zenon, <1>1, <1>2 DEF DiskInv, FileOK

\* A read goes on: with record q, whose answer is sound when there is one.
LEMMA ReadOn ==
  ASSUME DiskInv, LockHolds', NEW t \in Threads, NEW q, NEW p, With(t, q), Goto(t, p),
         UNCHANGED <<lockVars, fsVars, curr, ttlVars, oplog, envVars, nextId, torn, silent, drifted>>,
         mode[t] = "read", p \in {"rbody", "reply"},
         DOMAIN q = ReadFields, q.kind = "read", q.f = op[t].f,
         p = "rbody" => q.seen = disk[q.f],
         p = "reply" /\ q.query /\ q.status = "ok" /\ q.f \notin torn => PairMatches(q.seen.refs, q.blocks)
  PROVE  DiskInv'
<1>1. /\ OnlyMoves(t) /\ op'[t] = q /\ pc'[t] = p /\ mode'[t] = mode[t] /\ at'[t] = at[t]
  BY Moved
<1>2. OpOK(t) /\ op[t].kind = "read" /\ op[t].f \in Files /\ at[t] = Key(op[t].f)
  BY Zenon DEF DiskInv, OpOK
<1>3. StoreOK' /\ \A g \in Files : SameFile(g)
  BY Zenon, StoreStays, AllSame DEF DiskInv, ttlVars, envVars
<1>4. OpOK(t)'
  BY Zenon, <1>1, <1>2 DEF OpOK, ReadPcs, OutPcs
<1>5. OpKnows(t)'
  BY Zenon, <1>1, <1>2, <1>3 DEF OpKnows, SameFile, PairMatches
<1>6. \A g \in Files : ~Replaces(t, g) /\ ~Logging(t, g)
  BY Zenon, <1>2 DEF Replaces, Logging
<1> QED
  BY ZenonT(40), <1>1, <1>2, <1>3, <1>4, <1>5, <1>6, QuietStep

LEMMA ReadIndexInv ==
  ASSUME DiskInv, LockHolds', NEW t \in Threads, ReadIndex(t)
  PROVE  DiskInv'
<1> DEFINE o == op[t]
           got == [o EXCEPT !.seen = disk[o.f]]
           lost == [o EXCEPT !.status = "file_not_found"]
<1>1. /\ mode[t] = "read" /\ o.kind = "read" /\ DOMAIN o = ReadFields /\ o.f \in Files
      /\ UNCHANGED <<lockVars, fsVars, curr, ttlVars, oplog, envVars, nextId, torn, silent, drifted>>
  BY Zenon DEF DiskInv, OpOK, ReadIndex
<1>2. ASSUME Reply(t, o, "file_not_found") PROVE DiskInv'
  <2>1. With(t, lost) /\ Goto(t, "reply")
    BY Zenon, <1>2 DEF Reply
  <2>2. DOMAIN lost = ReadFields /\ lost.kind = "read" /\ lost.f = o.f /\ lost.status = "file_not_found"
    BY Zenon, <1>1 DEF ReadFields
  <2> HIDE DEF lost
  <2> QED
    BY Zenon, <1>1, <2>1, <2>2, ReadOn
<1>3. DOMAIN got = ReadFields /\ got.kind = "read" /\ got.f = o.f /\ got.seen = disk[o.f] /\ got.query = o.query
  BY Zenon, <1>1 DEF ReadFields
<1>4. ASSUME With(t, got), Goto(t, "rbody") PROVE DiskInv'
  <2> HIDE DEF got
  <2> QED
    BY Zenon, <1>1, <1>3, <1>4, ReadOn
<1>5. ASSUME ~(o.query /\ disk[o.f].type \in Split), NEW s, Reply(t, got, s) PROVE DiskInv'
  <2> DEFINE q == [got EXCEPT !.status = s]
  <2>1. With(t, q) /\ Goto(t, "reply")
    BY Zenon, <1>5 DEF Reply
  <2>2. DOMAIN q = ReadFields /\ q.kind = "read" /\ q.f = o.f /\ q.seen = disk[o.f] /\ q.query = o.query
    <3> HIDE DEF got
    <3> QED
      BY Zenon, <1>3 DEF ReadFields
  <2> HIDE DEF q
  <2>3. q.query => PairMatches(q.seen.refs, q.blocks)
    BY Zenon, <1>1, <1>5, <2>2 DEF DiskInv, StoreOK, PairMatches
  <2> QED
    BY Zenon, <1>1, <2>1, <2>2, <2>3, ReadOn
<1> QED
  BY Zenon, <1>2, <1>4, <1>5 DEF ReadIndex

LEMMA ReadBodyInv ==
  ASSUME DiskInv, LockHolds', NEW t \in Threads, ReadBody(t)
  PROVE  DiskInv'
<1> DEFINE o == op[t]
           got == [o EXCEPT !.blocks = body[o.f]]
           lost == [o EXCEPT !.status = "cant_read_file"]
           q == [got EXCEPT !.status = "ok"]
<1>1. /\ mode[t] = "read" /\ o.kind = "read" /\ DOMAIN o = ReadFields /\ o.f \in Files
      /\ o.seen = disk[o.f]
      /\ UNCHANGED <<lockVars, fsVars, curr, ttlVars, oplog, envVars, nextId, torn, silent, drifted>>
  BY Zenon DEF DiskInv, OpOK, OpKnows, ReadBody
<1>2. ASSUME Reply(t, o, "cant_read_file") PROVE DiskInv'
  <2>1. With(t, lost) /\ Goto(t, "reply")
    BY Zenon, <1>2 DEF Reply
  <2>2. DOMAIN lost = ReadFields /\ lost.kind = "read" /\ lost.f = o.f /\ lost.status = "cant_read_file"
    BY Zenon, <1>1 DEF ReadFields
  <2> HIDE DEF lost
  <2> QED
    BY Zenon, <1>1, <2>1, <2>2, ReadOn
<1>3. ASSUME Reply(t, got, "ok") PROVE DiskInv'
  <2>1. With(t, q) /\ Goto(t, "reply")
    BY Zenon, <1>3 DEF Reply
  <2>2. DOMAIN q = ReadFields /\ q.kind = "read" /\ q.f = o.f /\ q.seen = disk[o.f] /\ q.blocks = body[o.f]
    BY Zenon, <1>1 DEF ReadFields
  <2> HIDE DEF q
  <2>3. q.f \notin torn => PairMatches(q.seen.refs, q.blocks)
    BY Zenon, <1>1, <2>2, FileIRead
  <2> QED
    BY Zenon, <1>1, <2>1, <2>2, <2>3, ReadOn
<1> QED
  BY Zenon, <1>2, <1>3 DEF ReadBody

LEMMA RemoveCallInv ==
  ASSUME DiskInv, LockHolds', NEW t \in Workers, RemoveCall(t)
  PROVE  DiskInv'
<1>1. t \in Threads /\ pc[t] = "idle"
  BY Zenon DEF Workers, RemoveCall
<1>2. PICK f \in Files, s \in Stamps, force \in BOOLEAN :
        /\ AddWriter(t, Key(f))
        /\ With(t, [kind |-> "remove", f |-> f, stamp |-> s, force |-> force, status |-> "none"])
  BY Zenon DEF RemoveCall
<1>3. PICK m \in {"write", "wait"} : Moves(t, m, Key(f))
  BY ZenonT(40), <1>2 DEF AddWriter
<1>4. /\ OnlyMoves(t) /\ pc'[t] = "check" /\ mode'[t] = m /\ at'[t] = Key(f)
      /\ op'[t] = [kind |-> "remove", f |-> f, stamp |-> s, force |-> force, status |-> "none"]
  BY <1>1, <1>2, <1>3, Called DEF RemoveCall
<1>5. DOMAIN op'[t] = RemoveFields /\ op'[t].kind = "remove" /\ op'[t].f = f
  BY <1>4 DEF RemoveFields
<1>6. StoreOK' /\ \A g \in Files : SameFile(g)
  BY Zenon, StoreStays, AllSame DEF DiskInv, RemoveCall, ttlVars, envVars
<1>7. OpOK(t)' /\ OpKnows(t)'
  BY Zenon, <1>4, <1>5 DEF OpOK, OpKnows, RemovePcs, OutPcs
<1>8. \A g \in Files : ~Replaces(t, g) /\ ~Logging(t, g)
  BY Zenon, <1>1 DEF Replaces, Logging
<1> QED
  BY Zenon, <1>1, <1>4, <1>5, <1>6, <1>7, <1>8, QuietStep

LEMMA RemoveCheckInv ==
  ASSUME DiskInv, LockHolds', NEW t \in Threads, RemoveCheck(t)
  PROVE  DiskInv'
<1>1. /\ mode[t] = "write" /\ op[t].kind = "remove" /\ pc[t] = "check" /\ UNCHANGED lockVars
      /\ OpOK(t) /\ op[t].f \in Files
  BY Zenon DEF DiskInv, RemoveCheck, Writing, OpOK
<1>2. StoreOK' /\ \A g \in Files : SameFile(g)
  BY Zenon, StoreStays, AllSame DEF DiskInv, RemoveCheck, ttlVars, envVars
<1>3. \A g \in Files : ~Replaces(t, g) /\ ~Logging(t, g)
  BY Zenon, <1>1 DEF Replaces, Logging
<1>4. ASSUME Reply(t, op[t], "ok") PROVE DiskInv'
  BY Zenon, <1>1, <1>2, <1>3, <1>4, Replied, QuietStep
<1>5. ASSUME Goto(t, "unlink"), UNCHANGED op, op[t].force \/ Supersedes(op[t].stamp, disk[op[t].f])
      PROVE  DiskInv'
  <2>1. /\ OnlyMoves(t) /\ op'[t] = op[t] /\ pc'[t] = "unlink" /\ mode'[t] = mode[t] /\ at'[t] = at[t]
    BY Zenon, <1>1, <1>5, Went
  <2>2. OpOK(t)'
    BY Zenon, <1>1, <2>1 DEF OpOK, RemovePcs, OutPcs
  <2>3. OpKnows(t)'
    BY Zenon, <1>1, <1>2, <1>5, <2>1 DEF OpKnows, SameFile, Supersedes
  <2> QED
    BY Zenon, <1>1, <1>2, <1>3, <2>1, <2>2, <2>3, QuietStep
<1> QED
  BY Zenon, <1>4, <1>5 DEF RemoveCheck

\* The main file of thread t goes; its companion still stands.
LEMMA MainFileGoes ==
  ASSUME DiskInv, LockHolds', NEW t \in Threads, mode[t] = "write", op[t].kind \in {"remove", "ttl"},
         disk' = [disk EXCEPT ![op[t].f] = NoFile], torn' = torn \ {op[t].f},
         OnlyMoves(t), op'[t] = op[t], OpOK(t)', pc'[t] \in {"unlinkbody", "ttlunlinkbody"},
         UNCHANGED <<body, nextId, today, ttl, ttlDirs, due, items, oplog, silent>>
  PROVE  DiskInv'
<1> DEFINE f == op[t].f
<1>1. f \in Files /\ StoreOK /\ disk = [g \in Files |-> disk[g]]
  BY Zenon DEF DiskInv, OpOK, StoreOK
<1>2. /\ disk' = [g \in Files |-> disk'[g]] /\ \A g \in Files : g # f => disk'[g] = disk[g]
      /\ disk'[f] = NoFile
  BY Zenon, <1>1
<1>3. DOMAIN disk'[f] = FileFields /\ disk'[f].refs = {} /\ disk'[f].type = "none"
  BY <1>2 DEF NoFile, FileFields
<1>4. StoreOK'
  <2>1. \A g \in Files :
          /\ DOMAIN disk'[g] = FileFields
          /\ disk'[g].refs \subseteq Refs
          /\ disk'[g].type \notin Split => disk'[g].refs = {}
    BY Zenon, <1>1, <1>2, <1>3 DEF StoreOK
  <2> QED
    BY Zenon, <1>1, <1>2, <2>1 DEF StoreOK
<1>5. \A g \in Files : g # f => SameFile(g)
  BY Zenon, <1>2 DEF SameFile
<1>6. OpKnows(t)'
  BY Zenon, <1>3 DEF OpKnows
<1>7. FileOK(f)'
  BY Zenon, <1>3 DEF FileOK, PairMatches, Stamped
<1>8. t = Checker \/ op'[t].kind # "ttl"
  BY Zenon DEF DiskInv
<1> QED
  BY Zenon, <1>4, <1>5, <1>6, <1>7, <1>8, WriteStep

LEMMA UnlinkInv ==
  ASSUME DiskInv, LockHolds', NEW t \in Threads, Unlink(t)
  PROVE  DiskInv'
<1>1. /\ mode[t] = "write" /\ op[t].kind = "remove" /\ pc[t] = "unlink" /\ UNCHANGED <<op, lockVars>>
      /\ OpOK(t)
  BY Zenon DEF DiskInv, Unlink, Writing
<1>2. /\ OnlyMoves(t) /\ op'[t] = op[t] /\ pc'[t] = "unlinkbody" /\ mode'[t] = mode[t] /\ at'[t] = at[t]
  BY Zenon, <1>1, Went DEF Unlink
<1>3. OpOK(t)'
  BY Zenon, <1>1, <1>2 DEF OpOK, RemovePcs, OutPcs
<1> QED
  BY Zenon, <1>1, <1>2, <1>3, MainFileGoes DEF Unlink, ttlVars, envVars

\* The companion of thread t goes; its main file has gone already.
LEMMA CompanionGoes ==
  ASSUME DiskInv, LockHolds', NEW t \in Threads, mode[t] = "write",
         pc[t] \in {"unlinkbody", "ttlunlinkbody"},
         body' = [body EXCEPT ![op[t].f] = <<>>],
         OnlyMoves(t), op'[t].f = op[t].f, op'[t].kind = op[t].kind, OpOK(t)', OpKnows(t)',
         UNCHANGED <<disk, nextId, today, ttl, ttlDirs, due, items, oplog, torn, silent>>
  PROVE  DiskInv'
<1> DEFINE f == op[t].f
<1>1. f \in Files /\ StoreOK /\ disk[f].refs = {} /\ body \in [Files -> Seq(Nat)]
  BY Zenon DEF DiskInv, OpOK, OpKnows, StoreOK
<1>2. body' \in [Files -> Seq(Nat)] /\ \A g \in Files : g # f => body'[g] = body[g]
  <2>1. <<>> \in Seq(Nat)
    OBVIOUS
  <2> QED
    BY Zenon, <1>1, <2>1
<1>3. StoreOK'
  BY Zenon, <1>1, <1>2 DEF StoreOK
<1>4. \A g \in Files : g # f => SameFile(g)
  BY Zenon, <1>2 DEF SameFile
<1>5. FileOK(f)'
  <2>1. disk[f].type \in Stamped => Logged(f)
    BY Zenon, MyFile DEF Logging
  <2> QED
    BY Zenon, <1>1, <2>1 DEF FileOK, PairMatches, Logged
<1>6. t = Checker \/ op'[t].kind # "ttl"
  BY Zenon DEF DiskInv
<1> QED
  BY Zenon, <1>3, <1>4, <1>5, <1>6, WriteStep

LEMMA UnlinkBodyInv ==
  ASSUME DiskInv, LockHolds', NEW t \in Threads, UnlinkBody(t)
  PROVE  DiskInv'
<1>1. /\ mode[t] = "write" /\ op[t].kind = "remove" /\ pc[t] = "unlinkbody" /\ UNCHANGED lockVars
      /\ Reply(t, op[t], "ok")
  BY Zenon DEF UnlinkBody, Writing
<1>2. OnlyMoves(t) /\ OpOK(t)' /\ OpKnows(t)' /\ op'[t].f = op[t].f /\ op'[t].kind = op[t].kind
  BY Zenon, <1>1, Replied
<1> QED
  BY Zenon, <1>1, <1>2, CompanionGoes DEF UnlinkBody, ttlVars, envVars

\* A thread between two operations has none.
LEMMA NothingOpen ==
  ASSUME DiskInv, NEW t \in Threads, pc[t] \in {"idle", "ttlday"}
  PROVE  op[t] = NoOp /\ mode[t] = "out"
BY Zenon DEF DiskInv, OpOK, AcceptPcs, ReadPcs, RemovePcs, TtlPcs, OutPcs

\* A thread that stays outside has nothing to keep in order.
LEMMA OutsideStep ==
  ASSUME DiskInv, LockHolds', StoreOK', NEW t \in Threads, OnlyMoves(t), OpOK(t)',
         mode'[t] = "out", pc[t] \notin {"bodyw", "index", "log"}, UNCHANGED <<fsVars, oplog, torn, silent>>,
         t = Checker \/ op'[t].kind # "ttl"
  PROVE  DiskInv'
<1>1. \A g \in Files : ~Replaces(t, g) /\ ~Logging(t, g)
  BY Zenon DEF Replaces, Logging
<1>2. OpKnows(t)'
  BY Zenon DEF OpKnows, OpOK, OutPcs
<1> QED
  BY Zenon, <1>1, <1>2, AllSame, QuietStep

LEMMA NoOpIs == NoOp.kind = "none"
BY Zenon DEF NoOp

LEMMA TtlStartInv ==
  ASSUME DiskInv, LockHolds', TtlStart
  PROVE  DiskInv'
<1>1. /\ Checker \in Threads /\ pc[Checker] = "idle" /\ UNCHANGED <<op, lockVars>>
      /\ op[Checker] = NoOp /\ mode[Checker] = "out"
  BY Zenon, CheckerIsThread, NothingOpen DEF TtlStart
<1>2. /\ OnlyMoves(Checker) /\ op'[Checker] = NoOp /\ pc'[Checker] = "ttlday" /\ mode'[Checker] = "out"
  BY Zenon, <1>1, Went DEF TtlStart
<1>3. StoreOK'
  BY Zenon DEF DiskInv, StoreOK, TtlStart, fsVars, envVars
<1>4. OpOK(Checker)'
  BY Zenon, <1>2, NoOpIs DEF OpOK, OutPcs
<1> QED
  BY Zenon, <1>1, <1>2, <1>3, <1>4, OutsideStep DEF TtlStart

LEMMA TtlReadInv ==
  ASSUME DiskInv, LockHolds', TtlRead
  PROVE  DiskInv'
<1>1. /\ Checker \in Threads /\ pc[Checker] = "ttlday" /\ UNCHANGED lockVars
      /\ op[Checker] = NoOp /\ mode[Checker] = "out" /\ UNCHANGED <<fsVars, oplog, torn, silent>>
  BY Zenon, CheckerIsThread, NothingOpen DEF TtlRead
<1>2. ASSUME Goto(Checker, "idle"), UNCHANGED <<op, items, removed>> PROVE DiskInv'
  <2>1. /\ OnlyMoves(Checker) /\ op'[Checker] = NoOp /\ pc'[Checker] = "idle" /\ mode'[Checker] = "out"
    BY Zenon, <1>1, <1>2, Went
  <2>2. OpOK(Checker)'
    BY Zenon, <2>1, NoOpIs DEF OpOK, OutPcs
  <2>3. StoreOK'
    BY Zenon, <1>2, StoreStays DEF DiskInv, TtlRead, envVars
  <2> QED
    BY Zenon, <1>1, <2>1, <2>2, <2>3, OutsideStep
<1>3. ASSUME NEW d \in due, items' = ttl[d], With(Checker, [kind |-> "ttl", date |-> d, f |-> <<>>]),
             Goto(Checker, "ttlitem")
      PROVE  DiskInv'
  <2>1. /\ OnlyMoves(Checker) /\ op'[Checker] = [kind |-> "ttl", date |-> d, f |-> <<>>]
        /\ pc'[Checker] = "ttlitem" /\ mode'[Checker] = "out"
    BY Zenon, <1>1, <1>3, Moved
  <2>2. d \in Days
    BY Zenon DEF DiskInv, StoreOK
  <2>3. OpOK(Checker)'
    BY <2>1, <2>2 DEF OpOK, OutPcs, TtlPcs, TtlFields
  <2>4. StoreOK'
    BY Zenon, <1>1, <1>3, <2>2 DEF DiskInv, StoreOK, TtlRead, fsVars, envVars
  <2> QED
    BY Zenon, <1>1, <2>1, <2>3, <2>4, OutsideStep
<1> QED
  BY Zenon, <1>2, <1>3 DEF TtlRead

\* The record of the TTL remover while it goes through a list.
LEMMA AtItem ==
  ASSUME DiskInv, NEW t \in Threads, pc[t] = "ttlitem"
  PROVE  /\ op[t].kind = "ttl" /\ DOMAIN op[t] = TtlFields /\ op[t].date \in Days /\ mode[t] = "out"
BY Zenon DEF DiskInv, OpOK, AcceptPcs, ReadPcs, RemovePcs, OutPcs

LEMMA TtlLockInv ==
  ASSUME DiskInv, LockHolds', TtlLock
  PROVE  DiskInv'
<1>1. /\ Checker \in Threads /\ pc[Checker] = "ttlitem"
      /\ op[Checker].kind = "ttl" /\ DOMAIN op[Checker] = TtlFields /\ op[Checker].date \in Days
  BY Zenon, CheckerIsThread, AtItem DEF TtlLock
<1>2. PICK f \in items : AddWriter(Checker, Key(f)) /\ With(Checker, [op[Checker] EXCEPT !.f = f])
  BY Zenon DEF TtlLock
<1>3. PICK m \in {"write", "wait"} : Moves(Checker, m, Key(f))
  BY Zenon, <1>2 DEF AddWriter
<1>4. /\ OnlyMoves(Checker) /\ pc'[Checker] = "ttlunlink" /\ mode'[Checker] = m /\ at'[Checker] = Key(f)
      /\ op'[Checker] = [op[Checker] EXCEPT !.f = f]
  BY <1>1, <1>2, <1>3, Called DEF TtlLock
<1>5. /\ DOMAIN op'[Checker] = TtlFields /\ op'[Checker].kind = "ttl" /\ op'[Checker].f = f
      /\ op'[Checker].date \in Days
  BY Zenon, <1>1, <1>4 DEF TtlFields
<1>6. StoreOK' /\ \A g \in Files : SameFile(g)
  BY Zenon, StoreStays, AllSame DEF DiskInv, TtlLock, ttlVars, envVars
<1>7. f \in Files
  BY Zenon DEF DiskInv, StoreOK
<1>8. OpOK(Checker)' /\ OpKnows(Checker)'
  BY Zenon, <1>4, <1>5, <1>7 DEF OpOK, OpKnows, TtlPcs, OutPcs
<1>9. \A g \in Files : ~Replaces(Checker, g) /\ ~Logging(Checker, g)
  BY Zenon, <1>1 DEF Replaces, Logging
<1> QED
  BY Zenon, <1>1, <1>4, <1>6, <1>8, <1>9, QuietStep

LEMMA TtlUnlinkInv ==
  ASSUME DiskInv, LockHolds', TtlUnlink
  PROVE  DiskInv'
<1>1. /\ Checker \in Threads /\ mode[Checker] = "write" /\ op[Checker].kind = "ttl"
      /\ pc[Checker] = "ttlunlink" /\ UNCHANGED <<op, lockVars>> /\ OpOK(Checker)
  BY Zenon, CheckerIsThread DEF DiskInv, TtlUnlink, Writing
<1>2. /\ OnlyMoves(Checker) /\ op'[Checker] = op[Checker] /\ pc'[Checker] = "ttlunlinkbody"
      /\ mode'[Checker] = mode[Checker] /\ at'[Checker] = at[Checker]
  BY Zenon, <1>1, Went DEF TtlUnlink
<1>3. OpOK(Checker)'
  BY Zenon, <1>1, <1>2 DEF OpOK, TtlPcs, OutPcs
<1> QED
  BY Zenon, <1>1, <1>2, <1>3, MainFileGoes DEF TtlUnlink, envVars

LEMMA TtlUnlinkBodyInv ==
  ASSUME DiskInv, LockHolds', TtlUnlinkBody
  PROVE  DiskInv'
<1>1. /\ Checker \in Threads /\ mode[Checker] = "write" /\ op[Checker].kind = "ttl"
      /\ pc[Checker] = "ttlunlinkbody" /\ UNCHANGED op /\ Moves(Checker, "out", NoKey)
      /\ DOMAIN op[Checker] = TtlFields /\ op[Checker].date \in Days
  BY Zenon, CheckerIsThread DEF DiskInv, OpOK, TtlUnlinkBody, Writing, Erase
<1>2. /\ OnlyMoves(Checker) /\ op'[Checker] = op[Checker] /\ pc'[Checker] = "ttlitem"
      /\ mode'[Checker] = "out"
  BY Zenon, <1>1 DEF DiskInv, OnlyMoves, Goto, Moves, LockHolds, LockTypeOK, TtlUnlinkBody
<1>3. OpOK(Checker)' /\ OpKnows(Checker)'
  BY Zenon, <1>1, <1>2 DEF OpOK, OpKnows, TtlPcs, OutPcs
<1> QED
  BY Zenon, <1>1, <1>2, <1>3, CompanionGoes DEF TtlUnlinkBody, ttlVars, envVars

LEMMA TtlDropInv ==
  ASSUME DiskInv, LockHolds', TtlDrop
  PROVE  DiskInv'
<1>1. /\ Checker \in Threads /\ pc[Checker] = "ttlitem" /\ UNCHANGED lockVars
      /\ op[Checker].date \in Days /\ mode[Checker] = "out"
  BY Zenon, CheckerIsThread, AtItem DEF TtlDrop
<1>2. /\ OnlyMoves(Checker) /\ op'[Checker] = NoOp /\ pc'[Checker] = "ttlday" /\ mode'[Checker] = "out"
  BY Zenon, <1>1, Moved DEF TtlDrop
<1>3. ttl' \in [Days -> SUBSET Files] /\ ttlDirs' \subseteq Days /\ due' \subseteq Days
  BY Zenon, <1>1 DEF DiskInv, StoreOK, TtlDrop
<1>4. StoreOK'
  BY Zenon, <1>3 DEF DiskInv, StoreOK, TtlDrop, fsVars, envVars
<1>5. OpOK(Checker)'
  BY Zenon, <1>2, NoOpIs DEF OpOK, OutPcs
<1> QED
  BY Zenon, <1>1, <1>2, <1>4, <1>5, OutsideStep DEF TtlDrop

LEMMA EnterFileInv ==
  ASSUME DiskInv, LockHolds', NEW t \in Threads, EnterFile(t)
  PROVE  DiskInv'
<1>1. /\ mode[t] = "wait" /\ UNCHANGED <<pc, op>> /\ Moves(t, "write", at[t])
      /\ OpOK(t) /\ OpKnows(t)
  BY Zenon DEF DiskInv, EnterFile, WriterEnters
<1>2. OnlyMoves(t) /\ mode'[t] = "write" /\ at'[t] = at[t]
  BY Zenon, <1>1 DEF DiskInv, OnlyMoves, Moves, LockHolds, LockTypeOK
<1>3. StoreOK' /\ \A g \in Files : SameFile(g)
  BY Zenon, StoreStays, AllSame DEF DiskInv, EnterFile, ttlVars, envVars
<1>4. OpOK(t)' /\ OpKnows(t)'
  BY Zenon, <1>1, <1>2 DEF OpOK, OpKnows, OutPcs
<1>5. \A g \in Files : ~Replaces(t, g) /\ ~Logging(t, g)
  BY Zenon, <1>1 DEF Replaces, Logging, OpOK
<1>6. t = Checker \/ op'[t].kind # "ttl"
  BY Zenon, <1>1 DEF DiskInv
<1> QED
  BY Zenon, <1>1, <1>2, <1>3, <1>4, <1>5, <1>6, QuietStep

LEMMA ReleaseInv ==
  ASSUME DiskInv, LockHolds', NEW t \in Threads, Release(t)
  PROVE  DiskInv'
<1>1. pc[t] = "reply" /\ Moves(t, "out", NoKey)
  BY Zenon DEF Release, Erase
<1>2. OnlyMoves(t) /\ op'[t] = NoOp /\ pc'[t] = "idle" /\ mode'[t] = "out"
  BY Zenon, <1>1, Called DEF Release
<1>3. StoreOK'
  BY Zenon, StoreStays DEF DiskInv, Release, ttlVars, envVars
<1>4. OpOK(t)' /\ op'[t].kind # "ttl"
  BY Zenon, <1>2, NoOpIs DEF OpOK, OutPcs
<1> QED
  BY Zenon, <1>1, <1>2, <1>3, <1>4, OutsideStep DEF Release

\* No thread moves and no file changes.
LEMMA NobodyMoves ==
  ASSUME DiskInv, LockHolds', StoreOK',
         UNCHANGED <<lockVars, pc, op, fsVars, oplog, torn, silent>>
  PROVE  DiskInv'
<1>1. \A g \in Files : SameFile(g)
  BY ZenonT(40), AllSame
<1>2. \A u \in Threads : /\ OpOK(u) /\ OpKnows(u) /\ mode[u] \in Modes
                         /\ pc'[u] = pc[u] /\ op'[u] = op[u] /\ mode'[u] = mode[u] /\ at'[u] = at[u]
                         /\ mode[u] \in {"read", "write"} => SameFile(op[u].f)
  BY <1>1 DEF DiskInv, OpOK, LockHolds, LockTypeOK, lockVars
<1>3. \A u \in Threads : OpOK(u)' /\ OpKnows(u)'
  BY Zenon, <1>2, OpStays, KnowsStays
<1>4. \A g \in Files, u \in Threads : /\ Replaces(u, g) => Replaces(u, g)'
                                      /\ Logging(u, g) => Logging(u, g)'
  BY Zenon, <1>2 DEF Replaces, Logging
<1>5. \A g \in Files : FileOK(g)'
  BY Zenon, <1>1, <1>4, FileStays DEF DiskInv
<1> QED
  BY Zenon, <1>3, <1>5 DEF DiskInv

LEMMA IdleSteps ==
  ASSUME DiskInv, LockHolds', AttachOplog \/ Midnight \/ UNCHANGED diskVars
  PROVE  DiskInv'
<1>1. StoreOK'
  <2>1. CASE AttachOplog
    BY Zenon, <2>1, StoreStays DEF DiskInv, AttachOplog, ttlVars
  <2>2. CASE UNCHANGED diskVars
    BY Zenon, <2>2, StoreStays DEF DiskInv, diskVars, ttlVars, envVars
  <2>3. CASE Midnight
    <3>1. today' \in 0 .. MaxDay
      BY <2>3, BoundsNat DEF DiskInv, StoreOK, Midnight
    <3> QED
      BY Zenon, <2>3, <3>1 DEF DiskInv, StoreOK, Midnight, fsVars, ttlVars
  <2> QED
    BY Zenon, <2>1, <2>2, <2>3
<1> QED
  BY Zenon, <1>1, NobodyMoves DEF AttachOplog, Midnight, diskVars

\* A torn block at the end of a body is no block of an index.
LEMMA TornLast ==
  ASSUME NEW R \in SUBSET Refs, NEW b \in Seq(Nat), PairMatches(R, b),
         Len(b) > 0, b[Len(b)] = Torn
  PROVE  PairMatches(R, SubSeq(b, 1, Len(b) - 1))
<1> SUFFICES ASSUME NEW r \in R
             PROVE  r[1] <= Len(SubSeq(b, 1, Len(b) - 1)) /\ SubSeq(b, 1, Len(b) - 1)[r[1]] = r[2]
  BY Zenon DEF PairMatches
<1>1. r[1] \in Nat \ {0} /\ r[2] \in Nat \ {0}
  BY DEF Refs
<1>2. r[1] <= Len(b) /\ b[r[1]] = r[2]
  BY Zenon DEF PairMatches
<1>3. r[1] # Len(b)
  BY <1>1, <1>2 DEF Torn
<1> QED
  BY <1>1, <1>2, <1>3

\* A crash leaves every file in order: what it takes from a body is the end that
\* no index refers to.
LEMMA CrashInv ==
  ASSUME DiskInv, LockHolds', Crash
  PROVE  DiskInv'
<1> DEFINE cut(f) == SubSeq(body[f], 1, Len(body[f]) - 1)
<1>1. PICK lost \in SUBSET Buffered : body' = [f \in Files |-> IF f \in lost THEN cut(f) ELSE body[f]]
  BY Zenon DEF Crash
<1>2. ASSUME NEW f \in lost
      PROVE  f \in Files /\ Len(body[f]) > 0 /\ body[f][Len(body[f])] = Torn
  <2>1. PICK t \in Threads : /\ op[t].f = f /\ op[t].kind = "accept" /\ pc[t] = "bodyw"
                              /\ op[t].content = "data"
    BY Zenon, <1>1 DEF Buffered
  <2>2. OpOK(t) /\ OpKnows(t)
    BY Zenon DEF DiskInv
  <2>3. mode[t] # "out" /\ f \in Files
    BY <2>1, <2>2 DEF OpOK, OutPcs
  <2> QED
    BY Zenon, <2>1, <2>2, <2>3 DEF OpKnows, BodyWritten
<1>3. body \in [Files -> Seq(Nat)]
  BY Zenon DEF DiskInv, StoreOK
<1>4. \A f \in Files : body[f] \in Seq(Nat) /\ (f \in lost => cut(f) \in Seq(Nat))
  BY <1>2, <1>3
<1>5. StoreOK'
  <2>1. body' \in [Files -> Seq(Nat)]
    BY Zenon, <1>1, <1>4
  <2> QED
    BY Zenon, <2>1 DEF DiskInv, StoreOK, Crash
<1>6. \A t \in Threads : op'[t] = NoOp /\ pc'[t] = "idle" /\ mode'[t] = "out"
  BY ZenonT(40) DEF Crash
<1>7. \A t \in Threads : OpOK(t)' /\ OpKnows(t)' /\ op'[t].kind # "ttl"
  BY <1>6, NoOpIs DEF OpOK, OpKnows, OutPcs
<1>8. ASSUME NEW f \in Files PROVE FileOK(f)'
  <2>1. FileOK(f) /\ disk' = disk /\ oplog' = oplog /\ disk[f].refs \subseteq Refs
    BY Zenon DEF DiskInv, StoreOK, Crash
  <2>2. torn \subseteq torn' /\ silent \subseteq silent'
    BY Zenon DEF Crash
  <2>3. ASSUME NEW t \in Threads, Replaces(t, f) PROVE f \in torn'
    BY Zenon, <2>3 DEF Replaces, Crash, Replacing
  <2>4. ASSUME NEW t \in Threads, Logging(t, f) PROVE f \in silent'
    BY Zenon, <2>4 DEF Logging, Crash, Interrupted
  <2>5. ASSUME PairMatches(disk[f].refs, body[f]) PROVE PairMatches(disk'[f].refs, body'[f])
    <3>1. CASE f \in lost
      <4>1. PairMatches(disk[f].refs, cut(f))
        BY Zenon, <2>1, <2>5, <3>1, <1>2, <1>4, TornLast
      <4> QED
        BY Zenon, <4>1, <3>1, <2>1, <1>1
    <3>2. CASE f \notin lost
      BY Zenon, <2>1, <2>5, <3>2, <1>1
    <3> QED
      BY Zenon, <3>1, <3>2
  <2>6. f \in torn' \/ PairMatches(disk'[f].refs, body'[f])
    BY Zenon, <2>1, <2>2, <2>3, <2>5 DEF FileOK
  <2>7. disk'[f].type \in Stamped => f \in silent' \/ <<f, disk'[f].stamp>> \in oplog'
    BY Zenon, <2>1, <2>2, <2>4 DEF FileOK, Logged
  <2> QED
    BY Zenon, <2>6, <2>7 DEF FileOK, Logged, PairMatches
<1>9. DOMAIN pc' = Threads /\ DOMAIN op' = Threads
  BY Zenon DEF Crash
<1> QED
  BY Zenon, <1>5, <1>7, <1>8, <1>9 DEF DiskInv

=============================================================================
