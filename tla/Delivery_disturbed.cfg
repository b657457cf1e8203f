SPECIFICATION FairSpec
CONSTANTS
    Handlers = {1, 2}
    Releases <- MCReleases
    Variants <- MCVariants
    DocumentOf <- MCDocumentOf
    Scenarios <- MCDisturbed
INVARIANTS
  RowInv
  EvidenceInv
PROPERTIES
    DocumentsConverge
    TargetConverges
