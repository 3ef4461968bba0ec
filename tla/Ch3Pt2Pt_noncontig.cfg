SPECIFICATION Spec
CONSTANTS
    Proc = {0, 1}
    Tag = {1, 2}
    Sends <- TwoDatatypes
    Handles = 4
    Sender = {0}
    Receiver = {1}
    Wanted <- ExactOrAny
    MaxCalls = 3
    MaxCancels = 1
    MPI_ANY_SOURCE <- AnySource
    MPI_ANY_TAG <- AnyTag
CHECK_DEADLOCK FALSE
INVARIANTS
    NoOtherCancelled
