SPECIFICATION ViewsSpec
CONSTANTS
    cpu = cpu
    memory = memory
    diskio = diskio
    Absent = Absent
    Asked = Asked
    SampleIntervals = {1, 2}
    Metrics = {cpu, memory, diskio}
    FirstOrder <- MCFirstOrder
    FirstInterval = 2
    MaxEdits = 2
    MaxLate = 1
    MaxQueue = 1
INVARIANTS
    ViewsTypeOK
PROPERTIES
    DegradedHasReason
    UnavailablePasses
    DropMovesRow
CHECK_DEADLOCK FALSE
