SPECIFICATION Spec
CONSTANTS
    u1 = u1
    u2 = u2
    Pods = {u1, u2}
    MaxRestarts = 1
    MaxChanges = 2
    MaxRelists = 1
    CleanWindow = 1
    RestartedWindow = 2
    GraceWindow = 1
    PausedWindow = 1
    MaxAge = 3
    Troubles = {}
    Rejections = {}
    Faults = {"gone", "stream"}
    GapChanges = FALSE
INVARIANT PodCacheReplays
INVARIANT SuccessIsCurrent
INVARIANT QuietAfterRestart
SYMMETRY PodSymmetry
