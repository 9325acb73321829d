SPECIFICATION PieceSpec
CONSTANTS
    NoValue = NoValue
    TagsSent <- TagsReported
    Patterns <- Bursts
    Xor <- XorTable
    Streams <- MCStreams
    Accepts <- MCAccepts
    Tags = {t1, t2}
    MaxReads = 2
    MaxReports = 3
    NoTag = NoTag
INVARIANTS
    TagArrives
    DamageDetected
    FramesSound
    NoFrameLost
    ChunksDoNotMatter
    DoneMeansStopped
    DoneIsComplete
    StopAsked
PROPERTIES
    FeedReturns
    RunEnds
CHECK_DEADLOCK FALSE
