SPECIFICATION TcpSpec
CONSTANTS
    Items = {i1}
    MaxFaults = 2
    MaxRestarts = 1
    MaxConn = 6
    Room = 2
INVARIANTS OkMeansWhole CallbacksSound
PROPERTIES Recovers StopReturns
CHECK_DEADLOCK FALSE
