CONSTANTS
    e1 = e1  s1 = s1  w1 = w1
    NoEvent = NoEvent
    NoSession = NoSession
    Sessions = {s1}
    MaxRevision = 3
    Events = {e1}
    SessionOf <- OneEvent
    Workers = {w1}
    Limit <- OneAttempt
    BatchSize = 1
    MaxFaults = 1
SPECIFICATION BridgeSpec
INVARIANTS
    AckedSessionComplete
PROPERTIES
    ImplementsDelivery
