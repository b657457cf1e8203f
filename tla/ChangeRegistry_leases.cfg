\* One process, several endpoints, two approvals to a quorum, both rollout shapes,
\* and perhaps a row from before the hash contract: what lands between two
\* approvals, lease bounds over time, regeneration, restarts.
SPECIFICATION Spec
CONSTANTS
    Server = {s1}
    Request = {r1, r2}
    Operator = {o1, o2}
    Endpoint = {e1, e2}
    LegacyRequests = {r1}
    None = None
    Awaiting = Awaiting
    Required <- MCRequired
    RolloutSpecs <- MCRolloutSpecs
    DefaultValidity = 3
    LeaseTTL = 2
    MaxTime = 4
    MaxRevision = 6
SYMMETRY Symmetry
INVARIANTS
  StartNeverRefused
  GrantsHaveQuorum
  LimitsInv
