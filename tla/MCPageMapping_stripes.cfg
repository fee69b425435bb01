\* Two stripes (pageCountToMaxPerf = 2) and three LPNs, GC only: the round-robin
\* write targets and the stripe-aware getFreeBlock.
CONSTANTS
    NumBlocks = 4
    PagesInBlock = 2
    LPNs = {0, 1, 2}
    Datas = {d1, d2}
    NumStripes = 2
    NumLayer = 1
    NumBF = 1
    InitEraseCount = 0
    FillingMode = 0
    FillNum = 1
    InvalidNum = 1
    RatioDen = 3
    BadBlockThreshold = 100
    GcMode = 1
    GcPolicy = "greedy"
    DChoiceParam = 2
    GcReclaimBlock = 1
    GcReclaimThNum = 1
    GcReclaimThDen = 4
    WrappedCount = 100
    GcThresholdNum = 1
    GcThresholdDen = 4
    RefreshEnabled = FALSE
    RberExceeds <- MCRberExceeds
    BloomFalsePositives = FALSE
    FormatRanges = {}
    MaxRefreshCalls = 4
    MaxAge = 4
    MaxEraseCount = 2
    Unmapped = Unmapped
    NoLevel = NoLevel
    NoLPN = NoLPN
    NoData = NoData
SPECIFICATION Spec
CONSTRAINT WearBound
SYMMETRY DataSymmetry
PROPERTIES
    PoolRefinement
