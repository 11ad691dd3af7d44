CONSTANTS
    Threads = {t1, t2}
    Requests <- AnyRequest
    MaxSets = 3
SPECIFICATION LiveSpec
INVARIANTS QueueInv
PROPERTY LaunchCompletes
