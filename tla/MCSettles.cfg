\* Every interleaving of statements, under fairness.
SPECIFICATION FairSpec
CONSTANTS
    Node = {n1}
    Job = {j1}
    None = None
    MaxRetries = 1
    Capacity = 2
    MaxAttempts = 2
    Scenarios = {{"cancel", "agentDies"}}
    MaxCrashes = 0
PROPERTIES
    JobSettles
