\* One request rotates over two accounts while everybody else acts: the client leaves,
\* the operator and the watchdog change the pool, tokens die and are replaced.
CONSTANTS
    Account = {1, 2}
    ErrThreshold = 1
    MaxBalance = 0
    Absent = Absent
    Request = {r1}
    MaxRotate = 3
    MaxLogins = 1
    PingCanFail = TRUE
    Environment = {"client", "naming", "operator", "watchdog", "login"}
SPECIFICATION Spec
INVARIANTS TypeOK RotationExact RefusalJustified
