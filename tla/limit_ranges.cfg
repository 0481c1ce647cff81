SPECIFICATION Spec
CONSTANTS
    LimitRanges = {A, B}
    Containers = {app}
    Amounts = {0, 1, 2}
    Ratios = {1, 2}
    None = None
SYMMETRY Symmetry
INVARIANT TypeOK
INVARIANT HighIsRefused
INVARIANT QuietIsNotRefused
INVARIANT UnreportedIsVerbatim
