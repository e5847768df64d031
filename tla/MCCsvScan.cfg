SPECIFICATION CSpec
CONSTANTS
    Cells <- SomeCells
    MaxCells = 2
    MaxRaw = 2
    MaxBytes = 14
    FieldLimit = 2
INVARIANTS FlagsFormulaCells
PROPERTIES PartialAccepted
CHECK_DEADLOCK FALSE
