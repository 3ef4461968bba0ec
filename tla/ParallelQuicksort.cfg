SPECIFICATION Spec
CONSTANTS
    N = 6
    Value = {1, 2, 3}
INVARIANTS
    NoRace
    IndicesInRange
    SortedAtReturn
PROPERTIES
    Terminates
    ImplementsSegmentSort
