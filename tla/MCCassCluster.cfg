SPECIFICATION ClusterSpec
CONSTANTS
    h1 = h1
    h2 = h2
    h3 = h3
    d1 = d1
    d2 = d2
    Hosts <- MCHosts
    Dcs <- MCDcs
    DcOf <- MCDcOf
    NoDc = NoDc
    Cluster = Cluster
    Profiles = {p1}
    MaxCalls = 4
    Sessions = {s1, s2}
    ThreadCounts = {Nil, one}
    Nil = Nil
    MaxOps = 4
    Strings = {x, bad}
    Unparsable = bad
    Budgets <- MCBudgets
SYMMETRY SessionSymmetry
CHECK_DEADLOCK FALSE
INVARIANTS ClusterInv FilterSound FilterExact StaysLocal OneRuntimePerCount TaskNeverCancelled ConnectionAsAsked
