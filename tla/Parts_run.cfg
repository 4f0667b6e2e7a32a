SPECIFICATION Spec
CONSTANTS
    Blocks = 4
    BlockSize = 4
    Writes = {1, 3}
    Reads = {1, 2, 5}
    Total = 9
    IndexMod = 8
    Pages = 5
    Slot = {s64, s2k}
    s64 = s64
    s2k = s2k
    Chunks <- ChunksOf
    Bitmap <- BitmapOf
    Runs = {1, 2, 3}
    FreePage = FreePage
    Null = Null
    k1 = k1
    k2 = k2
    k3 = k3
    k4 = k4
    Key = {k1, k2, k3, k4}
    Hash <- HashOf
    MinSize = 2
    Bits = 3
    EmptyVisits = 2
    ForceRatio = 1
    NoKey = NoKey
    Link = {l1, l2}
    Request = {q1}
    Parts = 1
INVARIANTS BlocksDisjoint ListsExact ScanComplete IterateOnce FreedLast
PROPERTIES StreamKept PairEnds
CHECK_DEADLOCK FALSE
