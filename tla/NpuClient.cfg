SPECIFICATION LiveSpec
CONSTANTS
    depth = 2
    reconnect_enabled = TRUE
    MaxFlight = 3
    MaxSocks = 6
    MaxRestarts = 2
    MaxFails = 1
INVARIANTS TypeOK PermitsKept DepthKept
PROPERTY RepliesKeepComing
