\* Two goroutines whose saves of one account meet, fail and cross.
CONSTANTS
    Account = {1}
    ErrThreshold = 1
    MaxBalance = 0
    Absent = Absent
    Saver = {s1, s2}
SPECIFICATION Spec
INVARIANTS TypeOK DecisionHolds
