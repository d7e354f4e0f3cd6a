SPECIFICATION FairSpec
CONSTANTS
    a = a
    b = b
    p = p
    q = q
    n = n
    Nil = Nil
    NoLabel = NoLabel
    NoPath = NoPath
    Labels <- MCLabels
    Paths <- MCPaths
    Targets <- MCTargets
    Namespaces <- MCNamespaces
    Filters <- MCFilters
    MaxSwitches = 2
CHECK_DEADLOCK FALSE
INVARIANTS
    TypeOK
    ServedAsPublished
    ClearWindow
    QuietAgreesWithHost
PROPERTIES
    BootFinishes
    StreamsDrain
    ImplementsActiveCluster
