CONSTANTS
    TenantCount = 2
    Policies <- TwoPolicies
    DefaultRoundUs = 2
    Modes = {"FREE", "OVERCOMMIT", "PROFILING"}
    MinKernelUs = 1
    MaxKernelUs = 1
    MaxDebt = 3
    MaxAttaches = 2
    MaxCrashes = 1
    MaxVersion = 0
SPECIFICATION Spec
INVARIANTS TypeOK RoundLockExclusive GateStateOwned OverdraftBounded
CHECK_DEADLOCK FALSE
