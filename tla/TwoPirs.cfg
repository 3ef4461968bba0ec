SPECIFICATION Spec
CONSTANT
    MaxChanges = 4
INVARIANTS
    ReportsAreCaused
    RisingIsNotMissed
    OppositeByReports
PROPERTY
    LedsSettle
