\* Five blocks, two stripes, one LPN, no warm-up, GC at a free-block ratio
\* below 3/5: a write to one stripe whose GC erases the other stripe's full,
\* not yet replaced write target.
CONSTANTS
    NumBlocks = 5
    PagesInBlock = 2
    LPNs = {0}
    Datas = {d1, d2}
    NumStripes = 2
    NumLayer = 1
    NumBF = 1
    InitEraseCount = 0
    FillingMode = 0
    FillNum = 0
    InvalidNum = 0
    RatioDen = 3
    BadBlockThreshold = 100
    GcMode = 1
    GcPolicy = "greedy"
    DChoiceParam = 2
    GcReclaimBlock = 1
    GcReclaimThNum = 3
    GcReclaimThDen = 5
    WrappedCount = 100
    GcThresholdNum = 3
    GcThresholdDen = 5
    RefreshEnabled = FALSE
    RberExceeds <- MCRberExceeds
    BloomFalsePositives = FALSE
    FormatRanges = {}
    MaxRefreshCalls = 4
    MaxAge = 4
    MaxEraseCount = 2
    Unmapped = Unmapped
    NoLevel = NoLevel
    NoLPN = NoLPN
    NoData = NoData
SPECIFICATION Spec
CONSTRAINT WearBound
SYMMETRY DataSymmetry
INVARIANT TargetsInUse
CHECK_DEADLOCK FALSE
