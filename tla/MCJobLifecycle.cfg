\* Three nodes and four retries: every path back to the queue is taken often
\* enough to exhaust the budget.
SPECIFICATION Spec
CONSTANTS
    Node = {n1, n2, n3}
    None = None
    MaxRetries = 4
INVARIANTS
    TypeOK
    RetryBudget
    AttemptClean
PROPERTIES
    FinalAndPaid
CHECK_DEADLOCK FALSE
