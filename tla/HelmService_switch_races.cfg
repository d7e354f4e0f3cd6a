SPECIFICATION FairHelmSpec
CONSTANTS
    a = a
    b = b
    p = p
    q = q
    n = n
    x = x
    y = y
    z = z
    Nil = Nil
    NoLabel = NoLabel
    NoPath = NoPath
    AllNs = AllNs
    Labels <- MCLabels
    Paths <- OnePath
    Namespaces <- MCNamespaces
    Calls <- MCCalls
PROPERTY SwitchWaitsForCalls
