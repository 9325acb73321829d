CONSTANTS
    e1 = e1  e2 = e2  s1 = s1  s2 = s2  w1 = w1  w2 = w2
    NoEvent = NoEvent
    Events = {e1, e2}
    Sessions = {s1}
    Workers = {w1, w2}
    SessionOf <- MCOneSession
    Limit <- MCLimits
    BatchSize = 2
    MaxFaults = 0
SPECIFICATION Spec
SYMMETRY MCEventSymmetry
INVARIANTS
    AttemptLedger
    OneSender
    AttemptsWithinLimit
PROPERTIES
    TerminalIsFinal
