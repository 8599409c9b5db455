SPECIFICATION MCSpec
CONSTANTS
  Threads = {t1, checker}
  Keys = {k1, k2}
  CountMod = 4
  NoThread = NoThread
  NoKey = NoKey
  SubFolders = {s1}
  Dirs = {s1}
  Checker = checker
  Types = {"insert_only", "jdb2"}
  Stamps <- MCOneStamp
  Sizes = {3}
  TtlDays = {1}
  BlockSize = 2
  BodyBytes = 3
  TitleBytes = 2
  MaxSize = 100
  MaxWrites = 2
  MaxDay = 2
  MaxCrashes = 1
  CanFail = FALSE
PROPERTIES DueEntriesDealtWith
CHECK_DEADLOCK FALSE
