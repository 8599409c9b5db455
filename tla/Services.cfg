SPECIFICATION MCSpec
CONSTANTS
  Threads = {t1, t2, t3}
  Keys = {k1, k2}
  CountMod = 3
  NoThread = NoThread
  NoKey = NoKey
  Followers = {b1}
  Keep = 2
  CanFail = TRUE
  RoundedUp = TRUE
  MaxRecords = 3
  MaxCrashes = 2
  MaxRestarts = 1
INVARIANTS MutualExclusion NothingPassedOver
PROPERTIES WaitingWriterEnters ImplementsRWLock RecordsArrive
