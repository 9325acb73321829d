CONSTANTS
    NoSession = NoSession
    Sessions = {s1, s2}
    MaxRevision = 3
SPECIFICATION FairSpec
INVARIANTS
    IdleMeansStopped
    AcksHold
    ReadingIsBacked
    FramesBelong
    ClosedNotRead
    OneReaderUser
PROPERTIES
    UnattendedReaderStops
    OperationsEnd
