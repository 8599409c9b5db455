SPECIFICATION EpollFairSpec
CONSTANTS
  Fds = {f1}
  Kinds = {"ask", "listen"}
  MaxConns = 1
  MaxSends = 3
  MaxEvents = 1
  MaxPings = 1
PROPERTIES RequestsAnswered
