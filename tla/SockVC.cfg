SPECIFICATION Spec
CONSTANTS
    MaxMessages = 2
    Others = {}
CHECK_DEADLOCK FALSE
INVARIANTS
    AssertionsHold
    NormalTermination
    OneConnection
    NothingLost
PROPERTIES
    FinalizeEnds
