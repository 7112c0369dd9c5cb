SPECIFICATION Spec
CONSTANTS
    Node = {n1}
    Job = {j1}
    None = None
    MaxRetries = 0
    Capacity = 2
    MaxAttempts = 1
    Scenarios = {{"cancel"}}
    MaxCrashes = 0
PROPERTIES
    OutcomeStands
