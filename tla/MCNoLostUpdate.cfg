\* Every event, one node, one job, every interleaving of statements up to the first lost
\* update: after one, all four properties hold by their premise.  MaxAttempts
\* exceeds MaxRetries + 1, so the cap on leases never hides an attempt that was not
\* paid for.
SPECIFICATION Spec
CONSTANTS
    Node = {n1}
    Job = {j1}
    None = None
    MaxRetries = 1
    Capacity = 2
    MaxAttempts = 3
    Scenarios = {{"cancel", "retry", "agentDies", "crash"}, {"drain", "staleWorker", "agentDies"},
                 {"staleNode", "staleWorker", "agentDies"}, {"heartbeat", "agentDies"}}
    MaxCrashes = 1
CONSTRAINT NothingLost
INVARIANTS
    Ownership
    CapacityExact
    AttemptsPaid
PROPERTIES
    RowFollowsLifecycle
