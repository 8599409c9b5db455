------------------------------- MODULE MCDisk -------------------------------
(***************************************************************************)
(* DiskServer for its invariants, with one directory that one file fills.  *)
(* Two settings ask for different bounds: one is about the contents of the *)
(* files (a second sub folder with a shared lock, headers of equal tms),   *)
(* one about the account of the sizes (TTLs, contents of several sizes).   *)
(***************************************************************************)
EXTENDS DiskServer, TLC
CONSTANTS t1, t2, s1
VARIABLE setting

MCStamps == {<<1, 1>>, <<1, 2>>}
MCSymmetry == Permutations({t1, t2})

Contents(o) ==
  o.kind = "accept" => /\ o.type \in {"updatable", "jdb2", "ajdb"} /\ o.size = 3 /\ o.ttl = 0
                       /\ Sub(o.f) # s1 => o.type = "updatable" /\ o.content = "data"
Accounts(o) ==
  /\ o.kind \in {"accept", "read", "remove"} => Sub(o.f) = s1
  /\ o.kind \in {"accept", "remove"} => o.stamp # <<1, 2>>
  /\ o.kind = "accept" => /\ o.type \in {"insert_only", "jdb2", "appendable"}
                          /\ o.content \in {"data", "empty", "hollow"}
                          /\ o.type = "appendable" => o.ttl = 0

MCInit == DiskInit /\ setting \in {"contents", "accounts"}
MCNext ==
  /\ UNCHANGED setting
  /\ DiskNext
  /\ \/ setting = "contents" /\ today' = 0 /\ \A t \in Threads : Contents(op'[t])
     \/ setting = "accounts" /\ nextId' <= 3 /\ \A t \in Threads : Accounts(op'[t])
MCSpec == MCInit /\ [][MCNext]_<<setting, diskVars>>
=============================================================================
