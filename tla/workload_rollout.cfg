SPECIFICATION FairSpec
CONSTANTS
    Kinds = {"Deployment", "DaemonSet"}
    Slots = {0, 1, 2}
    Revs = {"r1", "r2"}
    BadRevs = {}
    ReplicaCounts = {1, 2}
    Strategies = {"RollingUpdate", "Recreate"}
    Partitions <- NoPartition
    MaxEdits = 2
    Setbacks = {"starting"}
    MaxLosses = 1
INVARIANT TypeOK
INVARIANT CompleteWasRolledOut
PROPERTY RolloutSettles
CHECK_DEADLOCK FALSE
