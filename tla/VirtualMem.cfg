CONSTANTS
    Threads = {t1, t2}
    Ptrs = {p1, p2, p3}
    Sizes = {1, 2}
    Quota = 3
    MAX_ALLOC_ENTRIES = 2
    NoPtr = NoPtr
    MaxCells = 3
    MaxUsed = 5
    MaxRestarts = 1
    CallsAfter = FALSE
SYMMETRY Symmetry
SPECIFICATION VmemSpec
INVARIANTS QuotaBounded UsageInv
CHECK_DEADLOCK FALSE
