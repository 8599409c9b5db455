SPECIFICATION MCSpec
CONSTANTS
  Workers = {w1, w2}
  Callers = {c1, c2}
  Sizes = {3}
  Conns = {h1}
  Scripts <- MCScripts
  MaxBody = 3
  MaxSends = 2
CHECK_DEADLOCK FALSE
INVARIANTS NoJobOutlivesCall ReturnedMeansHandled HandledAsSent
PROPERTIES WaitReturns HttpAnswered
