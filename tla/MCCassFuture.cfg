SPECIFICATION FairSpec
CONSTANTS
    Threads = {t1, t2, t3}
    Results = {r1}
    Unset = Unset
    Task = Task
    Worker = Worker
    Other = Other
    MaxCalls = 1
INVARIANTS FutureInv NoStrandedWaiter
PROPERTIES ImplementsOneShot WaitReturns CallbackRuns
