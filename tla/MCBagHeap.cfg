SPECIFICATION Spec
CONSTANTS
    g = g
    i1 = i1
    i2 = i2
    GlobalBags <- MCGlobalBags
    IndividualBags <- MCIndividualBags
    ObjectSize <- MCObjectSize
    GlobalSize = 7
    ChunkSize = 6
    PoolSize = 12
    PoolN = 2
    PageSize = 4
    HugeSizes = {5}
    MapBases = {8, 20, 32}
INVARIANTS TypeOK ObjectsDisjoint ObjectsMapped FreeListSound
PROPERTY TypeStable
