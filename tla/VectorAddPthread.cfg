SPECIFICATION Spec
CONSTANTS
    Thread = {"allocate_v1", "allocate_v2", "allocate_v3", "randVect1", "randVect2"}
    Size = 3
INVARIANTS
    SafeWhenJoinsWait
    SumRightWhenJoinsWait
PROPERTY
    MainEnds
