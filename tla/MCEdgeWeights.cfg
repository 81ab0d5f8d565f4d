SPECIFICATION Spec
CONSTANTS
    EdgeN = 4
    Calls <- MCCalls
    Relevant <- MCRelevant
    HMFs <- MCHMFs
    CsiMod = 4
INVARIANTS PathIdsDistinct FailsOnlyOnCycles CalleesFirst
