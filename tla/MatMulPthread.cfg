SPECIFICATION Spec
CONSTANTS
    Thread = {"allocate_x", "allocate_y", "allocate_z", "randMatX", "randMatY", "m1", "m2"}
    Multiplier = {"m1", "m2"}
    Terms = 3
INVARIANTS
    CopiesAreFresh
    LostUpdatesBounded
