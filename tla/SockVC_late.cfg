SPECIFICATION Spec
CONSTANTS
    MaxMessages = 1
    Others = {1}
CHECK_DEADLOCK FALSE
INVARIANTS AssertionsHold
