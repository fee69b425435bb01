\* The d-choice victim policy: selectVictimBlock's draw loop asks for
\* dChoiceParam * nBlocks distinct full blocks; every GC it starts must return.
CONSTANTS
    NumBlocks = 4
    PagesInBlock = 2
    LPNs = {0, 1, 2}
    Datas = {d1}
    NumStripes = 1
    NumLayer = 1
    NumBF = 1
    InitEraseCount = 0
    FillingMode = 0
    FillNum = 0
    InvalidNum = 0
    RatioDen = 1
    BadBlockThreshold = 100
    GcMode = 0
    GcPolicy = "dchoice"
    DChoiceParam = 2
    GcReclaimBlock = 1
    GcReclaimThNum = 1
    GcReclaimThDen = 4
    WrappedCount = 100
    GcThresholdNum = 1
    GcThresholdDen = 2
    RefreshEnabled = FALSE
    BloomFalsePositives = FALSE
    FormatRanges = {}
    MaxRefreshCalls = 4
    MaxAge = 4
    MaxEraseCount = 2
    Unmapped = Unmapped
    NoLevel = NoLevel
    NoLPN = NoLPN
    NoData = NoData
    RberExceeds <- MCRberExceeds
SPECIFICATION FairSpec
CONSTRAINT WearBound
PROPERTIES
    OperationsComplete
CHECK_DEADLOCK FALSE
