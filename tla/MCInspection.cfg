CONSTANTS
  Cases <- MCCases
  Unknown <- MCUnknown

SPECIFICATION Spec

INVARIANTS
  SensitiveIsMaskedEverywhere
  RedactIsTheStrictest
  DiffSeesThroughMasks
  UnreportedFiltersMatch
  DiffPartsFromViewOnBytes
  StrictNamesTheMissingField
  StrictIsNotHollow
