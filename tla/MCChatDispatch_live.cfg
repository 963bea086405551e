\* Three requests contend for one account: one may panic because another finalizes,
\* and leave its lock to the third.  Ping and the upstream fail at will.
CONSTANTS
    Account = {1}
    ErrThreshold = 1
    MaxBalance = 0
    Absent = Absent
    Request = {r1, r2, r3}
    MaxRotate = 1
    MaxLogins = 0
    PingCanFail = TRUE
    Environment = {}
SPECIFICATION FairSpec
INVARIANTS LockTracksSection OneWatchedAgent
PROPERTIES Answered
