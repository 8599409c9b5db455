SPECIFICATION OpsSpec
CONSTANTS
    Servers = {1, 2, 3}
    Group <- MCGroup
    Modes <- MCModes
    Versions <- MCVersions
    Want = 2
    Parts = 2
    Pref <- MCPref
    MaxFaults <- MCFaults
INVARIANTS AckedIsStored EarlyOnlyByStrangers NewestIsNewest
CHECK_DEADLOCK FALSE
