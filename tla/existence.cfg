\* What the template names, looked for one read at a time
CONSTANTS
    Workloads <- MCWorkloads
    Versions <- MCVersions
    Clusters <- MCClusters
    MaxChanges = 2
    MaxErrors = 1
SPECIFICATION Spec
INVARIANT TypeOK
INVARIANT ResultsWereTrue
INVARIANT ReportIsHonest
CHECK_DEADLOCK FALSE
