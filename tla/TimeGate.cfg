CONSTANTS
    Threads = {t1, t2}
    MaxBatchUs = 1
    UrgentLimits <- SomeLimits
    Adds = {1}
    Credits <- SomeCredits
    WcOn = TRUE
    NoStore = NoStore
    MaxCredit = 2
    MaxDebt = 0
SPECIFICATION FedSpec
INVARIANTS TypeOK LoanBounded WaitNotCharged
PROPERTY DebtRepaid
