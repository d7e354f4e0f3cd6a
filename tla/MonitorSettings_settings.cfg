SPECIFICATION Spec
CONSTANTS
    c1 = c1
    c2 = c2
    low = low
    high = high
    Missing = Missing
    Corrupt = Corrupt
    None = None
    MinInterval = 1
    MaxInterval = 2
    DefaultInterval = 2
    Intervals <- MCIntervals
    Stored <- MCStored
    Thresholds <- MCThresholds
    DefaultThresholds = low
    Calls <- TwoCalls
    MaxCrashes = 1
    MaxTyped = 1
    MaxFetches = 1
SYMMETRY CallSymmetry
CHECK_DEADLOCK FALSE
INVARIANTS
    TypeOK
    SettledSettingsAgree
    KilledKeepsSettings
PROPERTY
    DraftSurvives
