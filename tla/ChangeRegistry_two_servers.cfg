\* Two processes on one row, one request: stale writers, lost answers, restarts.
SPECIFICATION ReportingSpec
CONSTANTS
    Server = {s1, s2}
    Request = {r1}
    Operator = {o1, o2}
    Endpoint = {e1}
    LegacyRequests = {}
    None = None
    Awaiting = Awaiting
    Required <- MCRequired
    RolloutSpecs <- MCSpecs
    DefaultValidity = 2
    LeaseTTL = 1
    MaxTime = 3
    MaxRevision = 6
INVARIANTS
  MemoryNeverAhead
  GrantedLeasesDurable
PROPERTIES
    DurableOnlyGrows
    GrantUnderDurableAuthority
    ImplementsGate
