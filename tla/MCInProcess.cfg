SPECIFICATION FairSpec
CONSTANTS
    Node = {n1}
    Job = {j1}
    None = None
    MaxRetries = 1
    Capacity = 1
    MaxAttempts = 2
    Process = {p1, p2}
    First = p1
    Nobody = Nobody
    MaxFailures = 1
    AgentDriven = {}
INVARIANTS
    OverlapNeedsFailover
    LateResultWritesNothing
PROPERTIES
    TickGoesOn
    JobSettles
