\* One model that the upstream adds and withdraws, one of the fallback list,
\* and two requests whose calls overlap.
CONSTANTS
    Model = {m, f}
    m = m
    f = f
    Fallback = {f}
    Request = {1, 2}
    Life = 2
    Backoff = 1
    CallTime = 1
    Absent = Absent
SPECIFICATION FairSpec
INVARIANTS TypeOK
PROPERTIES RefusalIsRecent ListedIsRecent OfferNoticed
