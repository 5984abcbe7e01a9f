CONSTANTS
  Cases <- MCCases
  Unknown <- MCUnknown

SPECIFICATION Spec

INVARIANT MissingMeansAbsent
