SPECIFICATION Spec
CONSTANTS
    s2 = s2
    g8 = g8
    i8 = i8
    h = h
    Slots <- MCSlots
    HugeBlocks <- MCHugeBlocks
    BagOf <- MCBagOf
    BagSize <- MCBagSize
    GlobalBags <- MCGlobalBags
    HeaderSize = 1
    PageSize = 4
    Alignment = 2
    Offset <- MCOffset
    SizeBits = 4
    CsiBits = 1
    RhBits = 1
    SiteOf <- MCSiteOf
    Requests <- MCRequests
INVARIANT AllocatedBit
