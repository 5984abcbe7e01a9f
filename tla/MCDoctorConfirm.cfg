CONSTANTS
  Presets <- MCPresets
  MaxFields = 128
  Outcomes <- MCOutcomes

SPECIFICATION Spec

INVARIANT ConfirmReadsTheSame
