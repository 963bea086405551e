\* Users that wait for each answer.
CONSTANTS
    Account = {a1, a2}
    User = {u1}
    Request = {r1, r2, r3}
    MaxChats = 3
    MaxConvs = 2
    MaxConvTurns = 3
    MaxSeconds = 1
    ParallelAsks = FALSE
    ReuseCanFail = FALSE
    HistoryShows = "latest"
    CanRestart = TRUE
    None = None
SPECIFICATION Spec
SYMMETRY Symmetry
INVARIANTS TypeOK AbsorbedDelivered
