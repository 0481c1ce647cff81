SPECIFICATION FairSpec
CONSTANTS
    u1 = u1
    u2 = u2
    Pods = {u1}
    MaxRestarts = 0
    MaxChanges = 1
    MaxRelists = 0
    CleanWindow = 0
    RestartedWindow = 0
    GraceWindow = 0
    PausedWindow = 0
    MaxAge = 1
    Troubles = {"known", "ambiguous"}
    Rejections = {}
    Faults = {"api", "events", "timeout"}
    GapChanges = FALSE
PROPERTY TroubleReported
PROPERTY CompletionNoticed
PROPERTY TimeoutEndsWatch
