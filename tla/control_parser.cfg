CONSTANTS
    NoSession = NoSession
    Sessions = {s1, s2}
    MaxRevision = 2
SPECIFICATION Spec
INVARIANTS
    CaptureErrorSurvived
