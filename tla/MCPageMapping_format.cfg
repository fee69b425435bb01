\* format() of LPN 0 or of LPN 1 among host writes and trims;
\* a panic() stops the simulator, so a stopped state is not a deadlock.
CONSTANTS
    NumBlocks = 4
    PagesInBlock = 2
    LPNs = {0, 1}
    Datas = {d1, d2}
    NumStripes = 1
    NumLayer = 1
    NumBF = 1
    InitEraseCount = 0
    FillingMode = 1
    FillNum = 2
    InvalidNum = 1
    RatioDen = 2
    BadBlockThreshold = 2
    GcMode = 0
    GcPolicy = "greedy"
    DChoiceParam = 2
    GcReclaimBlock = 1
    GcReclaimThNum = 1
    GcReclaimThDen = 4
    WrappedCount = 100
    GcThresholdNum = 1
    GcThresholdDen = 4
    RefreshEnabled = FALSE
    RberExceeds <- MCRberExceeds
    BloomFalsePositives = FALSE
    FormatRanges <- MCFormatRanges
    MaxRefreshCalls = 4
    MaxAge = 4
    MaxEraseCount = 2
    Unmapped = Unmapped
    NoLevel = NoLevel
    NoLPN = NoLPN
    NoData = NoData
SPECIFICATION Spec
CONSTRAINT WearBound
SYMMETRY DataSymmetry
INVARIANTS
    MappingConsistent
    BlockPartition
PROPERTIES
    DiskRefinement
    PoolRefinement
    WarmupExact
CHECK_DEADLOCK FALSE
