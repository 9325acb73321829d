CONSTANTS
    e1 = e1  e2 = e2  s1 = s1  s2 = s2  w1 = w1  w2 = w2
    NoEvent = NoEvent
    Events = {e1, e2}
    Sessions = {s1, s2}
    Workers = {w1}
    SessionOf <- MCTwoSessions
    Limit <- MCLimit
    BatchSize = 1
    MaxFaults = 1
SPECIFICATION FairSpec
INVARIANTS
    SentMeansAccepted
    AckedMeansDelivered
    DeadIsJustified
PROPERTIES
    KeepsPromise
    RetryNotEarly
    CancelledNotSent
    EveryEventSettles
