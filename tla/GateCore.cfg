CONSTANTS
    Names = {"a", "b"}
    CREDIT_CAP_US = 1
    MaxRunUs = 1
    Adds = {1, 2}
    Credits <- SomeCredits
    work_conserving = TRUE
    LEGACY_REPAY = FALSE
    NoRun = NoRun
    MaxGranted = 2
    MaxSubmits = 2
SPECIFICATION LiveSpec
INVARIANTS TypeOK DebtBounded
PROPERTIES ContractConserved NoStall
