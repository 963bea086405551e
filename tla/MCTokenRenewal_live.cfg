\* One account: renewals, a panel login, reloads and restarts.
CONSTANTS
    Account = {a1}
    Renewer = {w1, w2}
    Panel = {p1}
    MaxTokens = 2
    CanReload = TRUE
    CanRestart = TRUE
    Absent = Absent
SPECIFICATION FairSpec
INVARIANTS TypeOK RenewalExclusive DiskNotOlder AlignedAtRest SweepHadReason
PROPERTIES RenewalStarts RenewalEnds
