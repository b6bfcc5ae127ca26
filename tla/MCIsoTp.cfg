SPECIFICATION IsoSpec
CONSTANTS
    Kinds <- MCKinds
    Length <- MCLength
    AnswerLength <- MCAnswerLength
    Silent = {"reset"}
    Scripts <- MCScripts
    Foreign <- MCForeign
    SingleMax = 62
    FirstLen = 59
    ChunkLen = 63
    MaxPayload = 249
    BlockSize = 2
    SeqMod = 4
    FifoSize = 3
    MaxForeign = 1
    MaxLost = 3
    MaxRuns = 2
CHECK_DEADLOCK FALSE
PROPERTIES
    TakenIsWhole
    ImplementsChannel
    ReceptionEnds
    UndisturbedRunEnds
    UndisturbedRunSucceeds
