SPECIFICATION Spec
CONSTANTS
    Values <- MCValues
    PointsTo <- MCPointsTo
    Elements <- MCElements
    Arrays = {"A"}
    Cleaned <- MCCleaned
    TypeOrder <- MCTypeOrder
    Defined = {"f", "g", "h", "k", "m"}
    Taken = {"g", "h", "m", "malloc", "_Znwm"}
    MAX_TYPE_LAYER = 10
    Inputs <- MCInputs
    NULL = "none"
    Caller <- MCCaller
    HMFs = {"malloc", "_Znwm"}
    Pads = {"p1", "p2"}
INVARIANTS ListedOnce AllListed LandsAlone CalledIsListed LookupEnds
