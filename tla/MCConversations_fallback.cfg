\* A chat that cannot be written to is replaced by a new one.
CONSTANTS
    Account = {a1}
    User = {u1}
    Request = {r1, r2, r3}
    MaxChats = 3
    MaxConvs = 2
    MaxConvTurns = 3
    MaxSeconds = 0
    ParallelAsks = FALSE
    ReuseCanFail = TRUE
    HistoryShows = "latest"
    CanRestart = FALSE
    None = None
SPECIFICATION Spec
SYMMETRY Symmetry
INVARIANTS AbsorbedDelivered
