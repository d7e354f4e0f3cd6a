SPECIFICATION HelmSpec
CONSTANTS
    a = a
    b = b
    p = p
    q = q
    n = n
    x = x
    y = y
    z = z
    Nil = Nil
    NoLabel = NoLabel
    NoPath = NoPath
    AllNs = AllNs
    Labels <- MCLabels
    Paths <- OnePath
    Namespaces <- MCNamespaces
    Calls <- MCCalls
SYMMETRY CallSymmetry
INVARIANTS
    CallTypeOK
    NamespaceIsolation
    LabelsAreTrue
    MisfiledOnlyByOverlap
