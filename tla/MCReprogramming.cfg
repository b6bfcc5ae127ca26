SPECIFICATION Spec
CONSTANTS
    Base = 4
    Size = 4
    RowSize = 1
    LargeSector = 2
    SmallSector = 1
    SmallStart = 6
    Image <- MCImage
    Images <- MCImages
    HeaderEnd = 1
    Trailer = 1
    Threshold = 3
    SeqMod = 2
    BlockLen = 2
    Lifecycle = "normal"
    MaxFaults = 1
    MaxRuns = 2
INVARIANTS RunsWholeImage CrashLoopEnds RequestIsKept ToolIsRight
PROPERTIES NoNeedlessStay UndisturbedRunFlashes
CHECK_DEADLOCK FALSE
