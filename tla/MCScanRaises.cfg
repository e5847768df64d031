SPECIFICATION CSpec
CONSTANTS
    Cells <- ShortCells
    MaxCells = 2
    MaxRaw = 2
    MaxBytes = 14
    FieldLimit = 131072
INVARIANTS IssuesReturned
CHECK_DEADLOCK FALSE
