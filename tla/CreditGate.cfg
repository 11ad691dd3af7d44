CONSTANTS
    Threads = {t1, t2}
    BURST = 3
    CreditQuotas <- SomeQuotas
SPECIFICATION LiveSpec
INVARIANTS NoUnderflow CreditInv
PROPERTY RefillSeen
