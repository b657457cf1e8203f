\* Two endpoints, or two requests of one that gave up the first, share a cache of one entry.
SPECIFICATION FairSpec
CONSTANTS
    e1 = e1
    e2 = e2
    f1 = f1
    f2 = f2
    Endpoint = {e1, e2}
    Home <- OneEach
    Fleet = {f1, f2}
    Global = Global
    None = None
    MaxEntries = 1
    Interval = 1
    MaxRequests = 2
    MaxMutations = 1
    MaxFaults = 1
    MaxTime = 2
INVARIANTS
  CacheInv
  
PROPERTIES
    AgentsCatchUp
