\* One command, at most one child, at most one fault: the whole state space.
SPECIFICATION FairSpec
INVARIANTS
    TypeOK
    NothingLeftRunning
    ResultTruthful
PROPERTIES
    EndsWithCommand
    StopIsHeeded
    OwnerDeathEndsCommand
CHECK_DEADLOCK FALSE
