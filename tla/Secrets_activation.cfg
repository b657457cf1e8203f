SPECIFICATION FairSpec
CONSTANTS
    Admin = {a1, a2}
    Version <- MCVersion
    Release <- MCRelease
    References <- MCReferences
    HighRisk <- MCHighRisk
    MaxEntries = 1
    MaxTime = 1
    Scenarios <- MCScenarios
INVARIANTS
  RegistryInv
  
  RevokedIsWithheld
  MaterialWasAuthorized

    
