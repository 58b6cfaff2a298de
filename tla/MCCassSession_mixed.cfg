SPECIFICATION SessionFairSpec
CONSTANTS
    Ops = {o1, o2, o3}
    None = None
    Runtimes = {cur, multi}
    CurrentThread = {cur}
    ClientIds = {}
    RandomId = RandomId
PROPERTY AwaitedResolves
