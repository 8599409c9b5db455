---------------------------- MODULE MCDiskServer ----------------------------
(***************************************************************************)
(* DiskServer for the TTL lists: either two entries of plain files, or one *)
(* of a split database with a crash.                                       *)
(***************************************************************************)
EXTENDS DiskServer
VARIABLES
  setting,
  late        \* entries <<day, file>> appended when their day had come already

MCOneStamp == {<<1, 1>>}

\* What TtlAppend adds in this step to a list that is due.
AppendedLate ==
  {<<op[t].date, op[t].f>> : t \in {u \in Threads : /\ pc[u] = "ttlappend" /\ pc'[u] = "reply"
                                                  /\ op[u].date <= today}}

MCInit == DiskInit /\ setting \in {"entries", "crash"} /\ late = {}
MCNext ==
  /\ UNCHANGED setting
  /\ DiskNext
  /\ late' = late \cup AppendedLate
  /\ \/ setting = "entries" /\ crashes' = 0 /\ \A t \in Threads : op'[t].kind = "accept" => op'[t].type # "jdb2"
     \/ setting = "crash" /\ nextId' <= 2
MCSpec == MCInit /\ [][MCNext]_<<setting, late, diskVars>> /\ DiskFairness

\* A file in the list of a day that has come is removed by run_ttl_remover, which
\* gets at its lock though others keep taking it, and which a crash makes start
\* again.  The exception is an entry appended after its day had begun, by a writer
\* that took the date before midnight: remove_all of the folder may take it
\* unread, and then the file stays for ever.
DueEntriesDealtWith ==
  \A d \in Days : \A f \in Files :
    (d <= today /\ f \in ttl[d]) ~> \/ op[Checker].kind = "ttl" /\ op[Checker].date = d /\ f \in removed
                                   \/ <<d, f>> \in late
=============================================================================
