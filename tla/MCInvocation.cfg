CONSTANTS
  Commands <- MCCommands
  ValueFlags <- MCValueFlags
  BoolFlags <- MCBoolFlags
  MaxInputSize <- MCMaxInputSize
  Absolute <- MCAbsolute
  Starts <- MCStarts
SPECIFICATION Spec
INVARIANTS
  LineMeansWhatItSays
  ContextIsOneChoice
  ReadsOneSource
  ResultIsInOnePlace
