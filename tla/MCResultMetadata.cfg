SPECIFICATION FairSpec
CONSTANTS
    Requests = {r1, r2}
    Addresses = {a1, a2, a3, a4}
    Specs = {s1, s2}
    None = None
    MaxChanges = 3
INVARIANTS MetadataInv
PROPERTY Stabilises
