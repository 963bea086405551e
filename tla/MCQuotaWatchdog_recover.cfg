\* An account runs out of credit, errs, and gets credit again.
CONSTANTS
    Account = {1}
    ErrThreshold = 2
    MaxBalance = 2
    Absent = Absent
    ApplyMethod = "register"
    ApplyEvery = 1
SPECIFICATION FairSpec
INVARIANTS TypeOK
PROPERTIES ExhaustionNoticed RecoveryNoticed BalanceCatchesUp
