SPECIFICATION Spec
CONSTANTS
    Thread = {t1, t2, t3}
    MAX = 3
    NoRow = NoRow
INVARIANTS
    NoRowSkipped
    SoleOwnerRowsRight
    SharedRowsBounded
