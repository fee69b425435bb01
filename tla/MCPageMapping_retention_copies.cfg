\* Pages the warm-up writes and pages GC and refresh copy are never
\* registered for refresh.
CONSTANTS
    NumBlocks = 3
    PagesInBlock = 2
    LPNs = {0, 1}
    Datas = {d1, d2}
    NumStripes = 1
    NumLayer = 2
    NumBF = 2
    InitEraseCount = 0
    FillingMode = 0
    FillNum = 1
    InvalidNum = 0
    RatioDen = 2
    BadBlockThreshold = 100
    GcMode = 0
    GcPolicy = "greedy"
    DChoiceParam = 2
    GcReclaimBlock = 1
    GcReclaimThNum = 1
    GcReclaimThDen = 4
    WrappedCount = 100
    GcThresholdNum = 1
    GcThresholdDen = 4
    RefreshEnabled = TRUE
    RberExceeds <- MCRberExceeds
    BloomFalsePositives = FALSE
    FormatRanges = {}
    MaxRefreshCalls = 3
    MaxAge = 2
    MaxEraseCount = 1
    Unmapped = Unmapped
    NoLevel = NoLevel
    NoLPN = NoLPN
    NoData = NoData
SPECIFICATION Spec
CONSTRAINT WearBound
SYMMETRY DataSymmetry
INVARIANTS
    RetentionBound
CHECK_DEADLOCK FALSE
