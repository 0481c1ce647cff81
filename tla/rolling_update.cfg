SPECIFICATION LiveSpec
CONSTANTS
    Replicas = 2
    Strategies <- MCStrategies
    QuotaLists <- MCQuotaLists
    HpaMaxima = {3}
    PodCpu = 2
    EventsFade = TRUE
    Absent = Absent
CHECK_DEADLOCK FALSE
INVARIANT TypeOK
INVARIANT VerdictsHold
PROPERTY SilentRollsOut
PROPERTY StuckIsExplained
