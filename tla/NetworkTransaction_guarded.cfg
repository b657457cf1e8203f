\* One slow transaction under faults, with and without NetworkManager, or two
\* prompt ones in turn.
SPECIFICATION FairSpec
CONSTANTS
    None = None
    Main = Main
    MaxTx = 2
    Timeout = 1
    Sensitive = FALSE
    Retention = 3
    Scenarios <- MCScenarios
    MaxTime = 4
INVARIANTS
  ProtectedInv
PROPERTIES
    UnconfirmedIsUndone
    AcknowledgedStays
