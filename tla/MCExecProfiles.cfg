SPECIFICATION ProfilesSpec
CONSTANTS
    Settings = {consistency, timeout}
    Consistency = consistency
    Values = {v0, v1}
    DEFAULT_CONSISTENCY = v0
    Names = {n1, n2}
    Sessions = {s1, s2}
    Execs = {e1, e2}
    None = None
    Inherit = Inherit
    MaxEdits = 3
    MaxCells = 2
CHECK_DEADLOCK FALSE
SYMMETRY Symmetry
INVARIANTS ProfilesInv SettingsAsAsked OneProfilePerCell OwnProfileOnOneConnection
