CONSTANTS
    Threads = {t1, t2}
    Control = ctl
    None = None
    SpaceModes = {"CTX", "MPS_ENV", "QMD"}
    Layouts = {"contiguous", "spread"}
    TpcTotal = 7
    WordBits = 3
    EnvPct = 40
    Pcts = {0, 100}
    MaxCommands <- CommandsByMode
    MaxContexts = 2
SPECIFICATION LiveSpec
INVARIANTS TypeOK GateProtects DataReachable NeverZeroTpcs ShareGranted DestroyedOnce
PROPERTY CallsReturn
CHECK_DEADLOCK FALSE
