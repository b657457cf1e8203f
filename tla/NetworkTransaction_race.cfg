\* One transaction that the cycle confirms while its watchdog fires.
SPECIFICATION FairSpec
CONSTANTS
    None = None
    Main = Main
    MaxTx = 1
    Timeout = 1
    Sensitive = FALSE
    Retention = 3
    Scenarios <- MCUndisturbed
    MaxTime = 2
INVARIANTS
    AcknowledgedIsInEffect
