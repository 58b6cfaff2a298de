SPECIFICATION Spec
CONSTANTS
    i1 = i1
    i2 = i2
    t1 = t1
    Names <- MCNames
    Lower <- MCLower
    TypeOf <- MCTypeOf
    Columns <- MCColumns
    Values = {i1, i2, t1}
    Null = Null
    Unset = Unset
    Error = Error
    MaxCount = 3
    MaxCalls = 4
CHECK_DEADLOCK FALSE
INVARIANT BatchHonoursNames
