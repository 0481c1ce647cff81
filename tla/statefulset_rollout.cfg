SPECIFICATION FairSpec
CONSTANTS
    Kinds = {"StatefulSet"}
    Slots = {0, 1, 2}
    Revs = {"r1", "r2", "bad"}
    BadRevs = {"bad"}
    ReplicaCounts = {3}
    Strategies = {"RollingUpdate", "OnDelete"}
    Partitions <- AnyPartition
    MaxEdits = 2
    Setbacks = {"starting", "lost"}
    MaxLosses = 1
PROPERTY LastingCompletionIsReal
PROPERTY BlockedPartitionIsStuck
PROPERTY RolloutSettles
CHECK_DEADLOCK FALSE
