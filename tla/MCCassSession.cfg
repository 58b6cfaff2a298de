SPECIFICATION SessionFairSpec
CONSTANTS
    Ops = {o1, o2, o3}
    None = None
    Runtimes = {cur, multi}
    CurrentThread = {cur}
    ClientIds = {id1}
    RandomId = RandomId
INVARIANTS SessionSafe RequestKeepsSession CloseDrains
PROPERTIES ImplementsContract AwaitedResolvesOnOneRuntime
