\* Requests of one user overlap, a chat can fail, and the table holds one conversation.
CONSTANTS
    Account = {a1, a2}
    User = {u1}
    Request = {r1, r2, r3}
    MaxChats = 2
    MaxConvs = 1
    MaxConvTurns = 3
    MaxSeconds = 0
    ParallelAsks = TRUE
    ReuseCanFail = TRUE
    HistoryShows = "latest"
    CanRestart = FALSE
    None = None
SPECIFICATION Spec
SYMMETRY Symmetry
INVARIANTS TableConsistent ChatOwned ReplyOfThisRound
