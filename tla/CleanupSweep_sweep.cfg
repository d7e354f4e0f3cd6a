SPECIFICATION FairSpec
CONSTANTS
    cr = cr
    svc = svc
    knsvc = knsvc
    job = job
    cm = cm
    pvc = pvc
    pod = pod
    r = r
    s = s
    m = m
    m2 = m2
    NoSpace = NoSpace
    Apis <- MCApis
    KindOf <- MCKindOf
    ClusterScoped <- MCClusterScoped
    Spaces <- MCSpaces
    Names <- MCNames
    Manifests <- MCManifests
    OwnerRels <- MCOwnerRels
    KindMaps <- MCKindMaps
    Labelled <- MCLabelled
    Running <- MCRunning
    Bystanders <- MCBystanders
    Operators = TRUE
    Reinstalls = TRUE
CHECK_DEADLOCK FALSE
INVARIANTS
    TypeOK
    SweepIsExact
PROPERTY SweepReports
