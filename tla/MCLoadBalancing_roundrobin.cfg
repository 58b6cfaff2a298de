SPECIFICATION Spec
CONSTANTS
    h1 = h1
    h2 = h2
    h3 = h3
    d1 = d1
    d2 = d2
    Hosts <- MCHosts
    Dcs <- MCDcs
    DcOf <- MCDcOf
    NoDc = NoDc
    Cluster = Cluster
    Profiles = {}
    MaxCalls = 4
INVARIANTS RoundRobinReachesAll
