CONSTANTS
  CommandLines <- MCCommandLines
  Readings <- MCReadings
  Names = {"39", "41", "55.9F02"}
  Texts = {"A", "B"}

SPECIFICATION Spec

INVARIANTS
  NothingSentUnvetted
  DryRunPredictsLive
  SuccessIsEarned
  FailureShowsResponse
