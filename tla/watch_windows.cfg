SPECIFICATION Spec
CONSTANTS
    u1 = u1
    u2 = u2
    Pods = {u1}
    MaxRestarts = 1
    MaxChanges = 1
    MaxRelists = 1
    CleanWindow = 1
    RestartedWindow = 2
    GraceWindow = 1
    PausedWindow = 1
    MaxAge = 3
    Troubles = {"known", "ambiguous"}
    Rejections = {"ambiguous"}
    Faults = {"events", "sources", "gone"}
    GapChanges = FALSE
INVARIANT TypeOK
INVARIANT EvidencePersisted
PROPERTY KeepsPromise
