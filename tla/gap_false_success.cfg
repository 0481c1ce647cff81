SPECIFICATION Spec
CONSTANTS
    u1 = u1
    u2 = u2
    Pods = {}
    MaxRestarts = 0
    MaxChanges = 2
    MaxRelists = 0
    CleanWindow = 0
    RestartedWindow = 0
    GraceWindow = 0
    PausedWindow = 0
    MaxAge = 1
    Troubles = {}
    Rejections = {}
    Faults = {}
    GapChanges = TRUE
INVARIANT SuccessIsCurrent
