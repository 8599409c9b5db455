SPECIFICATION EpollSpec
CONSTANTS
  Fds = {f1}
  Kinds = {"ask", "06"}
  MaxConns = 2
  MaxSends = 2
  MaxEvents = 2
  MaxPings = 0
INVARIANTS AnswersReachTheAsker StreamIntact NothingLeftBehind
