CONSTANTS
    TenantCount = 2
    Policies <- OnePolicy
    DefaultRoundUs = 2
    Modes = {"OVERCOMMIT"}
    MinKernelUs = 1
    MaxKernelUs = 1
    MaxDebt = 5
    MaxAttaches = 2
    MaxCrashes = 0
    MaxVersion = 1
SPECIFICATION LiveSpec
PROPERTY EveryKillerRuns
CHECK_DEADLOCK FALSE
