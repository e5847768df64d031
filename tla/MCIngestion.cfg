SPECIFICATION ISpec
CONSTANTS
    k1 = k1
    k2 = k2
    x = x
    y = y
    ItemKeys = {k1, k2}
    Values = {x, y}
    Bad = Bad
    None = None
    Files <- Orders
    Invocations = {i1, i2}
    BatchSize <- Batches
    IngestLimit <- IngestBounds
SYMMETRY InvocationSymmetry
INVARIANTS ITypeOK RowsConverge
PROPERTIES NoRegression
CHECK_DEADLOCK FALSE
