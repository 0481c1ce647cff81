SPECIFICATION LiveSpec
CONSTANTS
    Nodes <- MCNodes
    Scenarios <- MCScenarios
    MaxOperations = 1
    Unset = Unset
    NoNode = NoNode
CHECK_DEADLOCK FALSE
INVARIANT TypeOK
INVARIANT FindingsHold
PROPERTY AccusedEvictsNothing
PROPERTY SilentRollsOut
PROPERTY SilentDrains
