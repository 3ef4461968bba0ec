SPECIFICATION FairSpec
CONSTANTS
    MaxTasks = 4
    MatrixSizes = {2, 4}
    EagerLimits = {0, 20, 1000}
INVARIANTS
    NoTruncation
    ProductComplete
    Drained
    IInv
PROPERTIES
    Termination
    ImplementsProduct
