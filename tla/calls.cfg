SPECIFICATION MCSpec
CONSTANTS
    NULL = NULL
    s1 = s1
    s2 = s2
    s3 = s3
    s4 = s4
    Steps = 2
    Num = 2
    AllocMin = 4
    MetaSize = 8
    StaticSize = 8
    Word = 256
    Slots = {s1, s2, s3, s4}
    Sizes = {4, 8}
    StaticSizes = {3, 4}
SYMMETRY Blocks
INVARIANTS TypeOK BlockIsLargeEnough InteriorInOnePlace StaticDisjoint ArithmeticRight MemoryRight TextRight
