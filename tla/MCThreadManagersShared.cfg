SPECIFICATION ThreadsSpec
CONSTANTS
    t1 = t1
    t2 = t2
    t3 = t3
    o1 = o1
    o2 = o2
    o3 = o3
    Threads <- MCThreads
    Objects <- MCObjects
    Nobody = Nobody
    MaxThread = 3
SYMMETRY Symmetric
INVARIANT OneThreadInside
