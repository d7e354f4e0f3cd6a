SPECIFICATION Spec
CONSTANTS
    c1 = c1
    c2 = c2
    r1 = r1
    r2 = r2
    Contexts = {c1, c2}
    First = c1
    Releases = {r1, r2}
    None = None
    Installed <- MCInstalled
    Resolved = {r1}
    MaxRev = 2
    MaxCalls = 1
    MaxTurns = 3
INVARIANTS
    TypeOK
    HeaderAgrees
    AimedWell
PROPERTY
    NoForeignClose
CHECK_DEADLOCK FALSE
