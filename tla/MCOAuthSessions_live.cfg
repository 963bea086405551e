\* Two sessions of one account polled two at a time, with failing calls and restarts.
CONSTANTS
    Session = {s1, s2}
    Account = {a1}
    Poll = {p1, p2}
    CallsFail = TRUE
    CanRestart = TRUE
    None = None
SPECIFICATION FairSpec
INVARIANTS TypeOK DoneIsInstalled
PROPERTIES OnlyOpenSessions LoginCompletes
