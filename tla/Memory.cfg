CONSTANTS
  Headers = {h1}
  NoHeader = NoHeader
  Writers = {u1, u2}
  Ttl = 0
  Past = 1
  MaxEvents = 3
  MaxSecs = 1
  MaxLosses = 1
  k1 = k1
  v1 = v1
  v2 = v2
  NoVal = NoVal
  Keys = {k1}
  Vals = {v1, v2}
  Workers = {w1, w2}
  Requests <- MCRequests
  PerSec = 2
  MaxTime = 4
  MaxStops = 2
  MaxRequests = 2
  Users = {u3, u4, u5}
  StartMin = 2
  MinClients = 1
  MaxClients = 3
  CanFail = TRUE
  MaxObjects = 5
SYMMETRY MCSymmetry
SPECIFICATION MCSpec
CHECK_DEADLOCK FALSE
INVARIANT AckedWritesHold
INVARIANT NothingOutlivesItsTtl
INVARIANT EventsReachListener
INVARIANT ExclusiveLoans
