SPECIFICATION ReadingSpec
CONSTANTS
    Total = 3
    Columns = 2
    ColumnName <- McColumnName
    Sizes <- McSizes
    Requests = {r1, r2}
    Iterators = {i1, i2}
    None = None
    MaxCalls = 6
    Schemas <- McSchemas
    Names <- McNames
    ColumnNames <- McColumnNames
    SchemaIterators = {s1, s2}
    Null = Null
    MaxWalks = 2
    SchemaCost = 4
SYMMETRY McSymmetry
INVARIANTS ReadingInv TraversalExact RowsExact SnapshotFaithful WalkComplete
CHECK_DEADLOCK FALSE
