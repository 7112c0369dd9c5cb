\* Every interleaving of statements; two leases, so that one can be outlived.
SPECIFICATION Spec
CONSTANTS
    Node = {n1}
    Job = {j1}
    None = None
    MaxRetries = 1
    Capacity = 2
    MaxAttempts = 2
    Scenarios = {{"heartbeat", "agentDies"}, {"staleNode", "agentDies"}, {"cancel", "agentDies"},
                 {"retry", "drain"}}
    MaxCrashes = 0
INVARIANTS
    TypeOK
    LateReportWritesNothing
PROPERTIES
    LiveLeaseNotReclaimed
    LeaseNeverRevived
