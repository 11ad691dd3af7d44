CONSTANTS
    Procs <- Four
    TenantOf <- FourIds
    VirtualSM <- FourSM
    VirtualMem <- FourMem
    MAX_TENANTS = 2
    NoId = "none"
    MaxOpens = 4
SPECIFICATION RegistrySpec
INVARIANTS RegistryInv
PROPERTY SlotKept
CHECK_DEADLOCK FALSE
