\* A release change, crashes, failed saves, lost Syncs and unasked boots.
SPECIFICATION FairSpec
CONSTANTS
    g1 = g1
    g2 = g2
    Generation = {g1, g2}
    Source = {kernel}
    None = None
    Artifacts <- OneThenAnother
    Timeout = 2
    MaxReleases = 1
    MaxFaults = 2
    MaxBoot = 3
    MaxTime = 6
INVARIANTS
  StatusInv
PROPERTIES
    CompletionIsVerified
    AttemptSettles
