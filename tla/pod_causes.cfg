SPECIFICATION FairSpec
CONSTANTS
    Apps = {"app"}
    Inits = {"init"}
    Pod = "pod"
    Troubles <- EveryTrouble
    MaxTroubles = 3
    InitPulls = FALSE
    HasDeadline = TRUE
INVARIANT TypeOK
INVARIANT CausesHappened
INVARIANT CrashCauseIsTrue
PROPERTY RecoveredIsSilent
PROPERTY LastingTroubleExplained
CHECK_DEADLOCK FALSE
