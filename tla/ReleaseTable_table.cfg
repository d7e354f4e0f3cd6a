SPECIFICATION FairSpec
CONSTANTS
    x = x
    n = n
    m = m
    i = i
    j = j
    None = None
    Names <- MCNames
    Releases <- MCReleases
    Jobs <- TwoJobs
CHECK_DEADLOCK FALSE
INVARIANTS
    TypeOK
    SettledTableIsTrue
PROPERTY
    PendingRowsResolve
