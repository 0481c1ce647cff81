\* The ways traffic takes, checked while a rollout goes on
SPECIFICATION LiveSpec
CONSTANTS
    Clusters <- MCClusters
    Edits <- MCEdits
    InitialPods <- MCInitialPods
    TargetPorts = {"web"}
    MaxEdits = 1
    MaxErrors = 1
CHECK_DEADLOCK FALSE
INVARIANT TypeOK
INVARIANT AccusedRouteIsDown
INVARIANT ZeroEndpointsHeld
PROPERTY SilentRoutesComeUp
