----------------------------- MODULE DiskServer -----------------------------
(***************************************************************************)
(* rssdisk::server: accept_file, read_file, read_file_info,                *)
(* remove_file_by_tms and run_ttl_remover, run by worker threads and by    *)
(* the checker thread over the shared lock table, the file system, the     *)
(* accounted size of each directory, the TTL lists and the oplog hook;     *)
(* with crashes and restarts of the process at any point.                  *)
(*                                                                         *)
(* A file is a sub folder and a lock key: the key has no sub folder in it, *)
(* so two files of the same name in two sub folders share a lock.  A file  *)
(* write is two steps, open-and-truncate and the completed content, with   *)
(* whatever other threads (or a crash) do in between.                      *)
(***************************************************************************)
EXTENDS LockedFiles, Integers, Sequences, FiniteSetsExt

CONSTANTS
  SubFolders,     \* the sub folders that requests name
  Dirs,           \* the configured ones (server_conf::dirs)
  Checker,        \* the thread of main() that runs the TTL remover
  Types,          \* the w_types written: see AllTypes
  Stamps,         \* pairs <<tms, crc32>> of a header
  Sizes,          \* sizes of the plain contents, in bytes
  TtlDays,        \* the TTLs asked for
  BlockSize,      \* fs_block_size_b
  BodyBytes,      \* size of one block of a jdb body
  TitleBytes,     \* size of the index entry of one body block
  MaxSize,        \* max_size_b of a directory, over its empty segment folders
  MaxWrites,      \* bound: calls of accept_file
  MaxDay,         \* bound: days that pass
  MaxCrashes,     \* bound: crashes
  CanFail         \* whether opening a file for writing may fail

AllTypes == {"insert_only", "updatable", "jdb1", "jdb2", "ajdb", "appendable"}

ASSUME CheckerIsThread == Checker \in Threads
ASSUME DirsConfigured == Dirs \subseteq SubFolders
ASSUME TypesKnown == Types \subseteq AllTypes
ASSUME BoundsNat == {MaxWrites, MaxDay, MaxCrashes, MaxSize} \subseteq Nat
ASSUME BlockSizePositive == BlockSize \in Nat \ {0}

VARIABLES
  disk,       \* main file of each name: header, content, references to the body
  body,       \* blocks of the ".jdb_data" companion, Torn for a partial one
  bodies,     \* the names that have a companion
  curr,       \* curr_size_b of each directory, over its empty segment folders
  ttl,        \* ttl[d]: the files in the list of day d
  ttlDirs,    \* the days that have a TTL folder
  oplog,      \* records handed to on_write_
  hooked,     \* on_write_ is set
  today, pc, op, nextId, crashes,
  due, items, \* run_ttl_remover: days still to do, files of the list it has read
  removed,    \* run_ttl_remover: the files of this list it has dealt with
  torn,       \* history: body replaced by a write whose index never followed
  silent,     \* history: last write on disk but never handed to on_write_
  drifted     \* history: how the code lets the account of a directory drift

fsVars == <<disk, body, bodies>>
ttlVars == <<ttl, ttlDirs, due, items, removed>>
envVars == <<hooked, today, crashes>>
diskVars == <<lockVars, fsVars, curr, ttlVars, oplog, envVars, pc, op, nextId, torn, silent, drifted>>

Files == SubFolders \X Keys
Sub(f) == f[1]
Key(f) == f[2]
Torn == 0
Days == {d + n : d \in 0 .. MaxDay, n \in TtlDays \cup {0}}

NoFile == [st |-> "none", type |-> "none", stamp |-> <<0, 0>>, size |-> 0, id |-> 0, refs |-> {}]
NoOp == [kind |-> "none"]
NoStamp == <<0, 0>>

Exists(f) == disk[f].st # "none"

\* w_types whose header holds tms and crc32 and whose writes go to the oplog
\* (jdb_formed is stored under the header of jdb).
Stamped == {"updatable", "jdb1", "jdb2"}

\* The order in which remove_file_by_tms compares headers.
Older(a, b) == a[1] < b[1] \/ (a[1] = b[1] /\ a[2] < b[2])

\* get_dir_size, get_file_size_fs_block_size: an empty file takes one block.
BlockBytes(n) == (n \div BlockSize + 1) * BlockSize

\* write_file_to_disk: an empty file takes none.
WrittenBytes(n) == IF n = 0 THEN 0 ELSE BlockBytes(n)

\* A missing file has size -1, which the conversions to size_t, to blocks and
\* to int32_t turn into no bytes at all.
FileBytes(f) == IF Exists(f) THEN BlockBytes(disk[f].size) ELSE 0
BodySize(f) == Len(body[f]) * BodyBytes
CompanionBytes(f) == IF f \in bodies THEN BlockBytes(BodySize(f)) ELSE 0

FilesOf(s) == {f \in Files : Sub(f) = s}

\* init_server_settings: the sizes as the start of the process finds them.
DirSize(s) == MapThenSumSet(LAMBDA f : FileBytes(f) + CompanionBytes(f), FilesOf(s))

Charge(s, n) == curr' = [curr EXCEPT ![s] = @ + n]
Goto(t, p) == pc' = [pc EXCEPT ![t] = p]
With(t, o) == op' = [op EXCEPT ![t] = o]
Reply(t, o, s) == Goto(t, "reply") /\ With(t, [o EXCEPT !.status = s])

\* Whether an account may run ahead, and how often it may have fallen behind.
NoDrift == [ahead |-> FALSE, appends |-> 0]

DiskInit ==
  /\ LockInit
  /\ disk = [f \in Files |-> NoFile]
  /\ body = [f \in Files |-> <<>>]
  /\ bodies = {}
  /\ curr = [s \in Dirs |-> 0]
  /\ ttl = [d \in Days |-> {}]
  /\ ttlDirs = {}
  /\ oplog = {}
  /\ hooked = FALSE
  /\ today = 0
  /\ pc = [t \in Threads |-> "idle"]
  /\ op = [t \in Threads |-> NoOp]
  /\ nextId = 1
  /\ crashes = 0
  /\ due = {}
  /\ items = {}
  /\ removed = {}
  /\ torn = {}
  /\ silent = {}
  /\ drifted = [s \in Dirs |-> NoDrift]

Workers == Threads \ {Checker}
Writing(t, kind, p) == mode[t] = "write" /\ op[t].kind = kind /\ pc[t] = p

\* The waiting loop of add() ends for a thread of any operation.
EnterFile(t) ==
  /\ WriterEnters(t)
  /\ UNCHANGED <<fsVars, curr, ttlVars, oplog, envVars, pc, op, nextId, torn, silent, drifted>>

\* The lock guard is destroyed and the answer sent.
Release(t) ==
  /\ pc[t] = "reply"
  /\ op[t].kind # "ttl"
  /\ Erase(t)
  /\ Goto(t, "idle")
  /\ With(t, NoOp)
  /\ UNCHANGED <<fsVars, curr, ttlVars, oplog, envVars, nextId, torn, silent, drifted>>

\* add() returned false.  accept_file, read_file and read_file_info answer
\* file_busy, remove_file_by_tms tries again and gives up after 50 times, the
\* TTL remover tries again.  Only answers are made of it.
Busy(t) ==
  /\ pc[t] \in {"idle", "ttlitem"}
  /\ \E k \in Keys : AddRefused(t, k)
  /\ UNCHANGED diskVars

(***************************************************************************)
(* accept_file                                                             *)
(***************************************************************************)
Jdb == {"jdb1", "jdb2", "ajdb"}

\* jdb2 and ajdb stand for settings {"v":2, "compress_particularly_data":n}:
\* index in the main file, body in the companion; jdb1 keeps both in one file.
Split == {"jdb2", "ajdb"}

\* What a request that passed the checks on size, key, name and authorisation
\* may carry.  "hollow" (an array without objects), "unparsable" and "notarray"
\* are what createDatabaseContent tells apart from good data.
Requests ==
  {r \in [f : Files, type : Types, content : {"data", "empty", "hollow", "unparsable", "notarray"},
          stamp : Stamps \cup {NoStamp}, ttl : TtlDays, size : Sizes] :
     /\ r.stamp = NoStamp <=> r.type \notin Stamped
     /\ r.content \in {"unparsable", "notarray"} => r.type \in Jdb
     /\ r.content = "hollow" => r.type \in Split
     /\ r.type \in Split => r.size = Min(Sizes)}

AcceptCall(t) ==
  /\ pc[t] = "idle"
  /\ nextId <= MaxWrites
  /\ \E r \in Requests :
       /\ AddWriter(t, Key(r.f))
       /\ With(t, [kind |-> "accept", f |-> r.f, type |-> r.type, content |-> r.content,
                   stamp |-> r.stamp, ttl |-> r.ttl, size |-> r.size, id |-> nextId,
                   plan |-> "none", refs |-> {}, bytes |-> 0, date |-> 0, status |-> "none"])
  /\ nextId' = nextId + 1
  /\ Goto(t, "room")
  /\ UNCHANGED <<fsVars, curr, ttlVars, oplog, envVars, torn, silent, drifted>>

\* createDatabaseContent: an ajdb write to a file that already is a split
\* database appends, at the offset where its companion now ends.
Appends(o) ==
  o.type = "ajdb" /\ disk[o.f].type \in Split /\ o.f \in bodies /\ body[o.f] # <<>>

\* What is to become of the companion: append to it, write it, or drop it
\* (write_file_to_disk removes a file that would be empty).
BodyPlan(o) ==
  IF o.type \notin Split \/ o.content \notin {"data", "hollow"} THEN "none"
  ELSE IF Appends(o) THEN "append"
  ELSE IF o.content = "data" THEN "write" ELSE "drop"

\* Mutant: the offset of the new block is the number of blocks of the index.
NewOffsetByCount(o) == IF Appends(o) THEN Cardinality(disk[o.f].refs) + 1 ELSE 1

NewOffset(o) == IF Appends(o) THEN Len(body[o.f]) + 1 ELSE 1

Prepared(o) ==
  [o EXCEPT !.plan = BodyPlan(o),
            !.refs = (IF BodyPlan(o) = "append" THEN disk[o.f].refs ELSE {})
                     \cup (IF BodyPlan(o) # "none" /\ o.content = "data" THEN {<<NewOffset(o), o.id>>} ELSE {})]

\* The file exists already, or its directory is not full; and the content is
\* one that can be stored.
Room(t) ==
  LET o == op[t]
      s == Sub(o.f)
  IN
  /\ Writing(t, "accept", "room")
  /\ \/ s \notin Dirs /\ Reply(t, o, "subfolder_not_found")
     \/ /\ s \in Dirs
        /\ ~Exists(o.f) /\ curr[s] >= MaxSize
        /\ Reply(t, o, "all_directories_are_full")
     \/ /\ s \in Dirs
        /\ Exists(o.f) \/ curr[s] < MaxSize
        /\ IF o.content = "notarray"
           THEN Reply(t, o, "cant_write_file_to_disk")
           ELSE /\ With(t, Prepared(o))
                /\ Goto(t, IF BodyPlan(o) # "none" THEN "body" ELSE "index")
  /\ UNCHANGED <<lockVars, fsVars, curr, ttlVars, oplog, envVars, nextId, torn, silent, drifted>>

\* The companion is opened: appended to, truncated and rewritten, or removed.
BodyOpen(t) ==
  LET o == op[t]
      f == o.f
      was == IF f \in bodies THEN WrittenBytes(BodySize(f)) ELSE 0
      new == IF o.content = "data" THEN <<Torn>> ELSE <<>>
  IN
  /\ Writing(t, "accept", "body")
  /\ \/ /\ CanFail /\ o.plan # "drop"
        /\ Reply(t, o, "cant_write_file_to_disk")
        /\ UNCHANGED <<body, bodies>>
     \/ /\ body' = [body EXCEPT ![f] = IF o.plan = "append" THEN @ \o new ELSE new]
        /\ bodies' = IF o.plan = "drop" THEN bodies \ {f} ELSE bodies \cup {f}
        /\ With(t, [o EXCEPT !.bytes = IF o.plan = "append" THEN Len(new) * BodyBytes
                                       ELSE WrittenBytes(Len(new) * BodyBytes) - was])
        /\ Goto(t, "bodyw")
  /\ UNCHANGED <<lockVars, disk, curr, ttlVars, oplog, envVars, nextId, torn, silent, drifted>>

BodyDone(t) ==
  LET o == op[t] IN
  /\ Writing(t, "accept", "bodyw")
  /\ body' = IF o.content = "data" THEN [body EXCEPT ![o.f][Len(body[o.f])] = o.id] ELSE body
  /\ Charge(Sub(o.f), o.bytes)
  /\ With(t, [o EXCEPT !.bytes = 0])
  /\ Goto(t, "index")
  /\ drifted' = IF o.plan = "append" THEN [drifted EXCEPT ![Sub(o.f)].appends = @ + 1] ELSE drifted
  /\ UNCHANGED <<lockVars, disk, bodies, ttlVars, oplog, envVars, nextId, torn, silent>>

\* to_write is empty: so it is for an empty content, and for a jdb content that
\* does not parse, since createDatabaseContent then returns without an error.
Blank(o) == o.content \in {"empty", "unparsable"}
ToAppend(o) == o.type = "appendable" /\ Exists(o.f)
IndexSize(o) == IF o.refs # {} THEN TitleBytes * Cardinality(o.refs) ELSE o.size

\* The main file: appended to (appendable), removed (nothing to write), or
\* opened and truncated.
IndexOpen(t) ==
  LET o == op[t]
      f == o.f
      was == IF Exists(f) THEN WrittenBytes(disk[f].size) ELSE 0
      grown == IF Blank(o) THEN 0 ELSE o.size
  IN
  /\ Writing(t, "accept", "index")
  /\ \/ /\ CanFail /\ (ToAppend(o) \/ ~Blank(o))
        /\ Reply(t, o, "cant_write_file_to_disk")
        /\ torn' = IF o.plan \in {"write", "drop"} THEN torn \cup {f} ELSE torn
        /\ UNCHANGED disk
     \/ /\ ToAppend(o)
        /\ disk' = [disk EXCEPT ![f].size = @ + grown, ![f].id = o.id,
                                ![f].st = IF disk[f].size + grown = 0 THEN "empty" ELSE "full"]
        /\ With(t, [o EXCEPT !.bytes = WrittenBytes(grown)])
        /\ Goto(t, "log")
        /\ UNCHANGED torn
     \/ /\ ~ToAppend(o) /\ Blank(o)
        /\ disk' = [disk EXCEPT ![f] = NoFile]
        /\ With(t, [o EXCEPT !.bytes = - was])
        /\ Goto(t, "log")
        /\ torn' = torn \ {f}
     \/ /\ ~ToAppend(o) /\ ~Blank(o)
        /\ disk' = [disk EXCEPT ![f] = [NoFile EXCEPT !.st = "empty"]]
        /\ With(t, [o EXCEPT !.bytes = WrittenBytes(IndexSize(o)) - was])
        /\ Goto(t, "indexw")
        /\ UNCHANGED torn
  /\ drifted' = IF ToAppend(o) THEN [drifted EXCEPT ![Sub(f)].ahead = TRUE] ELSE drifted
  /\ UNCHANGED <<lockVars, body, bodies, curr, ttlVars, oplog, envVars, nextId, silent>>

IndexDone(t) ==
  LET o == op[t] IN
  /\ Writing(t, "accept", "indexw")
  /\ disk' = [disk EXCEPT ![o.f] = [st |-> "full", type |-> o.type, stamp |-> o.stamp,
                                    size |-> IndexSize(o), id |-> o.id, refs |-> o.refs]]
  /\ torn' = IF o.plan = "append" THEN torn ELSE torn \ {o.f}
  /\ Goto(t, "log")
  /\ UNCHANGED <<lockVars, body, bodies, curr, ttlVars, oplog, envVars, op, nextId, silent, drifted>>

\* Mutant: is_oplog is set for updatable files only.
LogUpdatableOnly(t) ==
  LET o == op[t] IN
  /\ Writing(t, "accept", "log")
  /\ IF hooked /\ o.type = "updatable"
     THEN oplog' = oplog \cup {<<o.f, o.stamp>>} /\ silent' = silent \ {o.f}
     ELSE UNCHANGED <<oplog, silent>>
  /\ Goto(t, "account")
  /\ UNCHANGED <<lockVars, fsVars, curr, ttlVars, envVars, op, nextId, torn, drifted>>

\* is_oplog: the write is handed to on_write_, if main() has set it by now.
Log(t) ==
  LET o == op[t] IN
  /\ Writing(t, "accept", "log")
  /\ IF o.type \notin Stamped THEN UNCHANGED <<oplog, silent>>
     ELSE IF hooked
     THEN oplog' = oplog \cup {<<o.f, o.stamp>>} /\ silent' = silent \ {o.f}
     ELSE silent' = silent \cup {o.f} /\ UNCHANGED oplog
  /\ Goto(t, "account")
  /\ UNCHANGED <<lockVars, fsVars, curr, ttlVars, envVars, op, nextId, torn, drifted>>

Account(t) ==
  LET o == op[t] IN
  /\ Writing(t, "accept", "account")
  /\ Charge(Sub(o.f), o.bytes)
  /\ IF o.ttl > 0 /\ o.plan # "append"
     THEN Goto(t, "ttldate") /\ UNCHANGED op
     ELSE Reply(t, o, "ok")
  /\ UNCHANGED <<lockVars, fsVars, ttlVars, oplog, envVars, nextId, torn, silent, drifted>>

\* The day is computed and its folder created; then the name is appended to
\* the list, which fails when the folder has gone meanwhile.
TtlDate(t) ==
  LET o == op[t] IN
  /\ Writing(t, "accept", "ttldate")
  /\ With(t, [o EXCEPT !.date = today + o.ttl])
  /\ ttlDirs' = ttlDirs \cup {today + o.ttl}
  /\ Goto(t, "ttlappend")
  /\ UNCHANGED <<lockVars, fsVars, curr, ttl, due, items, removed, oplog, envVars, nextId, torn, silent, drifted>>

TtlAppend(t) ==
  LET o == op[t] IN
  /\ Writing(t, "accept", "ttlappend")
  /\ \/ /\ o.date \in ttlDirs
        /\ ttl' = [ttl EXCEPT ![o.date] = @ \cup {o.f}]
     \/ /\ o.date \notin ttlDirs \/ CanFail
        /\ UNCHANGED ttl
  /\ Reply(t, o, "ok")
  /\ UNCHANGED <<lockVars, fsVars, curr, ttlDirs, due, items, removed, oplog, envVars, nextId, torn, silent, drifted>>

Accept(t) ==
  \/ AcceptCall(t) \/ Room(t) \/ BodyOpen(t) \/ BodyDone(t) \/ IndexOpen(t) \/ IndexDone(t)
  \/ Log(t) \/ Account(t) \/ TtlDate(t) \/ TtlAppend(t)

(***************************************************************************)
(* read_file (with or without a "?jdb" query) and read_file_info           *)
(***************************************************************************)
ReadCall(t) ==
  /\ pc[t] = "idle"
  /\ \E f \in Files, q \in BOOLEAN :
       /\ AddReader(t, Key(f))
       /\ With(t, [kind |-> "read", f |-> f, query |-> q, seen |-> NoFile, blocks |-> <<>>,
                   status |-> "none"])
  /\ Goto(t, "rindex")
  /\ UNCHANGED <<fsVars, curr, ttlVars, oplog, envVars, nextId, torn, silent, drifted>>

ReadIndex(t) ==
  LET o == op[t]
      got == [o EXCEPT !.seen = disk[o.f]]
  IN
  /\ mode[t] = "read" /\ pc[t] = "rindex"
  /\ \/ /\ Sub(o.f) \notin Dirs \/ ~Exists(o.f)
        /\ Reply(t, o, "file_not_found")
     \/ /\ Sub(o.f) \in Dirs /\ Exists(o.f)
        /\ IF o.query /\ disk[o.f].type \in Split
           THEN With(t, got) /\ Goto(t, "rbody")
           ELSE Reply(t, got, IF disk[o.f].st = "empty" THEN "cant_read_file" ELSE "ok")
  /\ UNCHANGED <<lockVars, fsVars, curr, ttlVars, oplog, envVars, nextId, torn, silent, drifted>>

\* fetch() reads the companion of a split database.
ReadBody(t) ==
  LET o == op[t] IN
  /\ mode[t] = "read" /\ pc[t] = "rbody"
  /\ IF o.f \in bodies
     THEN Reply(t, [o EXCEPT !.blocks = body[o.f]], "ok")
     ELSE Reply(t, o, "cant_read_file")
  /\ UNCHANGED <<lockVars, fsVars, curr, ttlVars, oplog, envVars, nextId, torn, silent, drifted>>

Read(t) == ReadCall(t) \/ ReadIndex(t) \/ ReadBody(t)

(***************************************************************************)
(* remove_file_by_tms: an oplog record of a peer, or a forced removal      *)
(***************************************************************************)
RemoveCall(t) ==
  /\ pc[t] = "idle"
  /\ \E f \in Files, s \in Stamps, force \in BOOLEAN :
       /\ AddWriter(t, Key(f))
       /\ With(t, [kind |-> "remove", f |-> f, stamp |-> s, force |-> force, status |-> "none"])
  /\ Goto(t, "check")
  /\ UNCHANGED <<fsVars, curr, ttlVars, oplog, envVars, nextId, torn, silent, drifted>>

\* What the header of the file says about a record stamped s: an empty file is
\* too short to have one.
Supersedes(s, file) ==
  /\ file.st = "full"
  /\ \/ file.type \in Stamped /\ Older(file.stamp, s)
     \/ file.type \notin Stamped \cup {"ajdb"}

\* Mutant: the headers are not compared.
RemoveCheckBlind(t) ==
  LET o == op[t] IN
  /\ Writing(t, "remove", "check")
  /\ IF Sub(o.f) \in Dirs /\ Exists(o.f)
     THEN Goto(t, "unlink") /\ UNCHANGED op
     ELSE Reply(t, o, "ok")
  /\ UNCHANGED <<lockVars, fsVars, curr, ttlVars, oplog, envVars, nextId, torn, silent, drifted>>

RemoveCheck(t) ==
  LET o == op[t] IN
  /\ Writing(t, "remove", "check")
  /\ IF Sub(o.f) \in Dirs /\ Exists(o.f) /\ (o.force \/ Supersedes(o.stamp, disk[o.f]))
     THEN Goto(t, "unlink") /\ UNCHANGED op
     ELSE Reply(t, o, "ok")
  /\ UNCHANGED <<lockVars, fsVars, curr, ttlVars, oplog, envVars, nextId, torn, silent, drifted>>

Unlink(t) ==
  LET f == op[t].f IN
  /\ Writing(t, "remove", "unlink")
  /\ Charge(Sub(f), - FileBytes(f))
  /\ disk' = [disk EXCEPT ![f] = NoFile]
  /\ torn' = torn \ {f}
  /\ Goto(t, "unlinkbody")
  /\ UNCHANGED <<lockVars, body, bodies, ttlVars, oplog, envVars, op, nextId, silent, drifted>>

UnlinkBody(t) ==
  LET f == op[t].f IN
  /\ Writing(t, "remove", "unlinkbody")
  /\ Charge(Sub(f), - CompanionBytes(f))
  /\ body' = [body EXCEPT ![f] = <<>>]
  /\ bodies' = bodies \ {f}
  /\ Reply(t, op[t], "ok")
  /\ UNCHANGED <<lockVars, disk, ttlVars, oplog, envVars, nextId, torn, silent, drifted>>

Remove(t) == RemoveCall(t) \/ RemoveCheck(t) \/ Unlink(t) \/ UnlinkBody(t)

(***************************************************************************)
(* run_ttl_remover, by the checker thread                                  *)
(***************************************************************************)
\* Mutant: the lists of today are not taken.
TtlStartLate ==
  /\ pc[Checker] = "idle"
  /\ due' = {d \in ttlDirs : d < today}
  /\ due' # {}
  /\ Goto(Checker, "ttlday")
  /\ UNCHANGED <<lockVars, fsVars, curr, ttl, ttlDirs, items, removed, oplog, envVars, op, nextId, torn, silent, drifted>>

TtlStart ==
  /\ pc[Checker] = "idle"
  /\ due' = {d \in ttlDirs : d <= today}
  /\ due' # {}
  /\ Goto(Checker, "ttlday")
  /\ UNCHANGED <<lockVars, fsVars, curr, ttl, ttlDirs, items, removed, oplog, envVars, op, nextId, torn, silent, drifted>>

\* The list of the next day is read, as it is now.
TtlRead ==
  /\ pc[Checker] = "ttlday"
  /\ IF due = {}
     THEN Goto(Checker, "idle") /\ UNCHANGED <<op, items, removed>>
     ELSE \E d \in due :
            /\ items' = ttl[d]
            /\ removed' = {}
            /\ With(Checker, [kind |-> "ttl", date |-> d, f |-> <<>>])
            /\ Goto(Checker, "ttlitem")
  /\ UNCHANGED <<lockVars, fsVars, curr, ttl, ttlDirs, due, oplog, envVars, nextId, torn, silent, drifted>>

TtlLock ==
  /\ pc[Checker] = "ttlitem"
  /\ \E f \in items \ removed :
       /\ AddWriter(Checker, Key(f))
       /\ With(Checker, [op[Checker] EXCEPT !.f = f])
  /\ Goto(Checker, "ttlunlink")
  /\ UNCHANGED <<fsVars, curr, ttlVars, oplog, envVars, nextId, torn, silent, drifted>>

\* Mutant: the companion is not taken off the account.
TtlUnlinkMainOnly ==
  LET f == op[Checker].f IN
  /\ Writing(Checker, "ttl", "ttlunlink")
  /\ Charge(Sub(f), - FileBytes(f))
  /\ disk' = [disk EXCEPT ![f] = NoFile]
  /\ torn' = torn \ {f}
  /\ removed' = removed \cup {f}
  /\ Goto(Checker, "ttlunlinkbody")
  /\ UNCHANGED <<lockVars, body, bodies, ttl, ttlDirs, due, items, oplog, envVars, op, nextId, silent, drifted>>

\* Both files are taken off the account, then removed one after the other.
TtlUnlink ==
  LET f == op[Checker].f IN
  /\ Writing(Checker, "ttl", "ttlunlink")
  /\ Charge(Sub(f), - FileBytes(f) - CompanionBytes(f))
  /\ disk' = [disk EXCEPT ![f] = NoFile]
  /\ torn' = torn \ {f}
  /\ removed' = removed \cup {f}
  /\ Goto(Checker, "ttlunlinkbody")
  /\ UNCHANGED <<lockVars, body, bodies, ttl, ttlDirs, due, items, oplog, envVars, op, nextId, silent, drifted>>

TtlUnlinkBody ==
  LET f == op[Checker].f IN
  /\ Writing(Checker, "ttl", "ttlunlinkbody")
  /\ body' = [body EXCEPT ![f] = <<>>]
  /\ bodies' = bodies \ {f}
  /\ Erase(Checker)
  /\ Goto(Checker, "ttlitem")
  /\ UNCHANGED <<disk, curr, ttlVars, oplog, envVars, op, nextId, torn, silent, drifted>>

\* remove_all of the folder of the day, with whatever is in its list by now.
TtlDrop ==
  LET d == op[Checker].date IN
  /\ pc[Checker] = "ttlitem"
  /\ items \subseteq removed
  /\ ttl' = [ttl EXCEPT ![d] = {}]
  /\ ttlDirs' = ttlDirs \ {d}
  /\ due' = due \ {d}
  /\ With(Checker, NoOp)
  /\ Goto(Checker, "ttlday")
  /\ UNCHANGED <<lockVars, fsVars, curr, items, removed, oplog, envVars, nextId, torn, silent, drifted>>

TtlRemover == TtlStart \/ TtlRead \/ TtlLock \/ TtlUnlink \/ TtlUnlinkBody \/ TtlDrop

(***************************************************************************)
(* main(): the oplog hook; the clock; crash and restart                    *)
(***************************************************************************)
\* main() sets on_write_ after it has started to accept connections.
AttachOplog ==
  /\ ~hooked
  /\ hooked' = TRUE
  /\ UNCHANGED <<lockVars, fsVars, curr, ttlVars, oplog, today, crashes, pc, op, nextId, torn, silent, drifted>>

Midnight ==
  /\ today < MaxDay
  /\ today' = today + 1
  /\ UNCHANGED <<lockVars, fsVars, curr, ttlVars, oplog, hooked, crashes, pc, op, nextId, torn, silent, drifted>>

\* Writes under way when the process dies.
Interrupted(ps) == {op[t].f : t \in {u \in Threads : op[u].kind = "accept" /\ pc[u] \in ps}}
Replacing == {t \in Threads : op[t].kind = "accept" /\ op[t].plan \in {"write", "drop"}}

\* Companions with a block that may not have left the buffer of its stream.
Buffered ==
  {op[t].f : t \in {u \in Threads : op[u].kind = "accept" /\ pc[u] = "bodyw" /\ op[u].content = "data"}}

\* The process dies and starts again: files stay as they are, without the blocks
\* that were still in a buffer, locks and calls are gone, the sizes are measured
\* anew and on_write_ is not set yet.
Crash ==
  /\ crashes < MaxCrashes
  /\ crashes' = crashes + 1
  /\ present' = {}
  /\ count' = [k \in Keys |-> 0]
  /\ pending' = [k \in Keys |-> NoThread]
  /\ mode' = [t \in Threads |-> "out"]
  /\ at' = [t \in Threads |-> NoKey]
  /\ pc' = [t \in Threads |-> "idle"]
  /\ op' = [t \in Threads |-> NoOp]
  /\ \E lost \in SUBSET Buffered :
       body' = [f \in Files |-> IF f \in lost THEN SubSeq(body[f], 1, Len(body[f]) - 1) ELSE body[f]]
  /\ UNCHANGED <<disk, bodies>>
  /\ curr' = [s \in Dirs |-> DirSize(s)']
  /\ due' = {} /\ items' = {} /\ removed' = {}
  /\ hooked' = FALSE
  /\ torn' = torn \cup {op[t].f : t \in {u \in Replacing : pc[u] \in {"bodyw", "index"}}}
  /\ silent' = silent \cup Interrupted({"log"})
  /\ drifted' = [s \in Dirs |-> [NoDrift EXCEPT !.ahead = \E f \in FilesOf(s) :
                                                      disk[f].st = "empty" \/ (f \in bodies /\ body'[f] = <<>>)]]
  /\ UNCHANGED <<ttl, ttlDirs, oplog, today, nextId>>

DiskNext ==
  \/ \E t \in Threads : EnterFile(t) \/ Release(t) \/ Busy(t)
  \/ \E t \in Workers : Accept(t) \/ Read(t) \/ Remove(t)
  \/ TtlRemover
  \/ AttachOplog \/ Midnight \/ Crash

DiskSpec == DiskInit /\ [][DiskNext]_diskVars

(***************************************************************************)
(* Properties                                                              *)
(***************************************************************************)
PairMatches(refs, blocks) ==
  \A r \in refs : r[1] <= Len(blocks) /\ blocks[r[1]] = r[2]

\* A "?jdb" read (JDatabaseManager::fetch) that answers ok combines an index
\* with the body blocks written for that very index, whatever writers, removals
\* and the TTL remover do between its two reads.
ReadConsistent ==
  \A t \in Threads :
    op[t].kind = "read" /\ pc[t] = "reply" /\ op[t].query /\ op[t].status = "ok" /\ op[t].f \notin torn
      => PairMatches(op[t].seen.refs, op[t].blocks)

\* The index of a split database refers to the blocks it was built for, also
\* after crashes at any point of an append (accept_file writes the body first,
\* createDatabaseContent takes the offset from the real end of the body); the
\* one exception is a body replaced by a write whose index did not follow.
IndexMatchesBody ==
  \A f \in Files : Writers(Key(f)) = {} /\ f \notin torn => PairMatches(disk[f].refs, body[f])

Quiet(s) == \A t \in Threads : mode[t] = "write" => Sub(op[t].f) # s

\* When no thread writes in a directory, its curr_size_b is what a restart would
\* measure: the increments of accept_file, remove_file_by_tms and
\* run_ttl_remover add up, in any interleaving and with failing opens.  After
\* appends to appendable files (charged by whole blocks), and over files that a
\* crash left empty, it may run ahead; it falls behind by less than a block for
\* each append to a split database (charged by its bytes), and never otherwise.
AccountingExact ==
  \A s \in Dirs : Quiet(s) =>
    LET size == DirSize(s)
    IN  /\ curr[s] >= size - BlockSize * drifted[s].appends
        /\ drifted[s] = NoDrift => curr[s] = size

\* Every file that peers must hear of is in the oplog once its writer has left,
\* except a write that ended before main() set on_write_, or whose process died
\* between the write and on_write_.
WritesReachOplog ==
  \A f \in Files :
    Writers(Key(f)) = {} /\ disk[f].st = "full" /\ disk[f].type \in Stamped /\ f \notin silent
      => <<f, disk[f].stamp>> \in oplog

\* remove_file_by_tms, not forced, removes only a file that the record
\* supersedes at the time of the removal, not just of the check: a newer
\* version written meanwhile is never lost.
RemovesOnlySuperseded ==
  [][\A t \in Threads :
       pc[t] = "unlink" /\ pc'[t] = "unlinkbody" /\ ~op[t].force
         => Supersedes(op[t].stamp, disk[op[t].f])]_diskVars

\* Threads go on with what they have begun, and the checker thread comes round;
\* it gets at a file whose lock is free again and again.
DiskFairness ==
  /\ \A t \in Threads : WF_diskVars(EnterFile(t)) /\ WF_diskVars(Release(t))
  /\ \A t \in Workers :
       /\ WF_diskVars(Room(t) \/ BodyOpen(t) \/ BodyDone(t) \/ IndexOpen(t) \/ IndexDone(t)
                      \/ Log(t) \/ Account(t) \/ TtlDate(t) \/ TtlAppend(t))
       /\ WF_diskVars(ReadIndex(t) \/ ReadBody(t))
       /\ WF_diskVars(RemoveCheck(t) \/ Unlink(t) \/ UnlinkBody(t))
  /\ WF_diskVars(TtlStart \/ TtlRead \/ TtlUnlink \/ TtlUnlinkBody \/ TtlDrop)
  /\ \A k \in Keys : SF_diskVars(TtlLock /\ at'[Checker] = k)

DiskFairSpec == DiskSpec /\ DiskFairness
=============================================================================
