SPECIFICATION FairSpec
CONSTANTS
    o1 = o1
    o2 = o2
    o3 = o3
    r1 = r1
    r2 = r2
    Nil = Nil
    Junk = Junk
    Objects <- MCObjects
    Remotes <- MCRemotes
INVARIANTS TypeOK ListIntact OneHome NoFalseDoubleFree
PROPERTIES HandleTerminates Reclaimed ImplementsAtomic
