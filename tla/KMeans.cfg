SPECIFICATION Spec
CONSTANTS
    N = 4
    K = 3
    Dimensions = 1
    Value = {0, 1, 3}
    Scale = 12
    iters = 8
INVARIANTS
    FixedPoint
PROPERTIES
    CostNeverRises
    Converges
    ImplementsLloyd
