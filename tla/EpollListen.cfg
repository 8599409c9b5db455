SPECIFICATION EpollSpec
CONSTANTS
  Fds = {f1}
  Kinds = {"listen", "06", "tell"}
  MaxConns = 2
  MaxSends = 2
  MaxEvents = 0
  MaxPings = 0
INVARIANTS
  ListenersAsked
