\* Host writes, trims and reads with on-demand greedy GC; refresh disabled.
CONSTANTS
    NumBlocks = 4
    PagesInBlock = 2
    LPNs = {0, 1, 2}
    Datas = {d1, d2}
    NumStripes = 1
    NumLayer = 1
    NumBF = 1
    InitEraseCount = 0
    FillingMode = 2
    FillNum = 1
    InvalidNum = 2
    RatioDen = 3
    BadBlockThreshold = 100
    GcMode = 0
    GcPolicy = "greedy"
    DChoiceParam = 2
    GcReclaimBlock = 1
    GcReclaimThNum = 1
    GcReclaimThDen = 4
    WrappedCount = 100
    GcThresholdNum = 1
    GcThresholdDen = 2
    RefreshEnabled = FALSE
    RberExceeds <- MCRberExceeds
    BloomFalsePositives = FALSE
    FormatRanges = {}
    MaxRefreshCalls = 4
    MaxAge = 4
    MaxEraseCount = 2
    Unmapped = Unmapped
    NoLevel = NoLevel
    NoLPN = NoLPN
    NoData = NoData
SPECIFICATION Spec
CONSTRAINT WearBound
SYMMETRY DataSymmetry
INVARIANTS
    TypeOK
    NoPanic
    MappingConsistent
    BlockPartition
    FreePoolSorted
    WearStatExact
PROPERTIES
    DiskRefinement
    PoolRefinement
