SPECIFICATION FairSpec
CONSTANTS
    WheelSize = 6
    MaxTime = 6
    RunningTimeout = 2
    MaxScan = 12
    Broken = {3}
    Scenarios <- MCScenarios
INVARIANTS
  RunsInv
  TwiceOnlyIfLost
PROPERTIES
    LatestSlotIsDone
    RequestedVersionRuns
    DiagnosticsSettle
