SPECIFICATION PlacementSpec
CONSTANTS
    MaxLines = 3
    Sources <- MCSources
INVARIANTS
    TypeOK
    PassesAgree
    LabelsPlaced
    JumpsArrive
    LinesInPlace
    FibAssembles
CHECK_DEADLOCK FALSE
