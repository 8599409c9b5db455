SPECIFICATION MCSpec
SYMMETRY MCSymmetry
CONSTANTS
  t1 = t1
  t2 = t2
  s1 = s1
  Threads = {t1, t2, checker}
  Keys = {k1}
  CountMod = 4
  NoThread = NoThread
  NoKey = NoKey
  SubFolders = {s1, s2}
  Dirs = {s1}
  Checker = checker
  Types = {"updatable", "insert_only", "jdb2", "ajdb", "appendable"}
  Stamps <- MCStamps
  Sizes = {3, 5}
  TtlDays = {0, 1}
  BlockSize = 2
  BodyBytes = 3
  TitleBytes = 2
  MaxSize = 4
  MaxWrites = 3
  MaxDay = 1
  MaxCrashes = 1
  CanFail = TRUE
INVARIANTS ReadConsistent IndexMatchesBody WritesReachOplog AccountingExact
PROPERTIES RemovesOnlySuperseded
CHECK_DEADLOCK FALSE
