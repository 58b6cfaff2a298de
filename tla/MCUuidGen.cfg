SPECIFICATION FairSpec
CONSTANTS
    Threads = {t1, t2}
    Ticks = 2
    MaxMs = 2
    MaxCalls = 3
INVARIANTS GenInv Unique RealTimeOrder NotAhead
PROPERTY SomeCallReturns
