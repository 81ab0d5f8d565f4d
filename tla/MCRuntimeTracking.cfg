SPECIFICATION Spec
CONSTANTS
    Sites <- MCSites
    From <- MCFrom
    To <- MCTo
    Weight <- MCWeight
    TypesOf <- MCTypesOf
    MaxDepth = 3
    MaxSkips = 2
INVARIANTS TrackAccounts LayerAccounts SavedIsCurrent
CHECK_DEADLOCK FALSE
