CONSTANTS
    Thread = {t1, t2}
    Key = {k1, k2, k3}
    Tenant = {n1, n2}
    Scope = {manage}
    Manage = manage
    None = None
    Cost = 1
    Full = 1
    MaxTime = 1
    MaxRequests = 3
    WindowStart = 1
    WindowEnd = 1
SYMMETRY Symmetric
SPECIFICATION Spec
INVARIANTS RevokedKeyShutOut TenantWalled WindowBound
PROPERTY RevocationStands
CHECK_DEADLOCK FALSE
