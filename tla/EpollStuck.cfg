SPECIFICATION EpollSpec
CONSTANTS
  Fds = {f1}
  Kinds = {"ask"}
  MaxConns = 2
  MaxSends = 3
  MaxEvents = 0
  MaxPings = 0
INVARIANTS
  UnauthorizedKicked
