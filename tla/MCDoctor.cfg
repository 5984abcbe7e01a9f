CONSTANTS
  Presets <- MCPresets
  MaxFields = 128
  Outcomes <- MCOutcomes

SPECIFICATION Spec

INVARIANTS
  RecommendsTheBest
  AmbiguityIsATie
  FailureIsNoFit
  DetectsTheBestReading
