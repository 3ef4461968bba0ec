SPECIFICATION EnteredSpec
CONSTANTS
    MaxTasks = 4
    EagerLimits = {0, 24, 1000}
    MatrixSizes = {1, 2, 3}
    DefaultSize = 3
INVARIANTS
    NoWrongResult
PROPERTIES
    Ends
