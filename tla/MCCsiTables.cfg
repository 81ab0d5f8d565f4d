SPECIFICATION Spec
CONSTANTS
    NoCSI = NoCSI
    CSIs <- MCCSIs
    SizeClasses <- MCSizeClasses
    HashN = 2
    LazyN = 3
    TableN = 2
    LazyOccur = 2
INVARIANTS LazyBound BagPerSite ExitOnlyWhenFull
