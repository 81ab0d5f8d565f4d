SPECIFICATION Spec
CONSTANTS
    Calls <- MCCalls
    HMFs <- MCHMFs
INVARIANTS AncestorsMarked ChecksPass FinalAcyclic LoopRelated FirstLoopComplete
