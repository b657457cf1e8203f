\* Two releases of four resources: a subscription with a token and a file, both
\* after a unit, and a network profile under a lease.
SPECIFICATION FairSpec
CONSTANTS
    Address = {1, 2, 3, 4}
    Content = {0, 1, 2, 9}
    NoPayload = NoPayload
    Sensitive = {1}
    MaxBytes = 4
    MaxAttempts = 2
    MaxAge = 2
    SecretAge = 1
    DependsOn <- MCDependsOn
    Protected = {1, 3}
    Acknowledging = {1}
    Deferring = {4}
    Enforced = {4}
    Unenforced = {}
    Activates <- MCActivates
    Desired <- MCDesired
    AsFound = 0
    Broken = 9
    Disturbances <- MCDisturbances
    MaxTime = 2
INVARIANTS
  StoreInv
  BrokenIsRecoverable
  DependenciesAreThere
  DoneMeansApplied
PROPERTIES
    ReleaseGetsKnown
