CONSTANTS
    Threads = {t1, t2}
    Ptrs = {p1, p2, p3}
    Sizes = {1, 2}
    Quotas <- SomeQuotas
    NoPtr = NoPtr
    MaxControls = 1
SYMMETRY Symmetry
SPECIFICATION TrackSpec
INVARIANTS StatisticsInv QuotaOverrun
