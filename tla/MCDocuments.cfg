\* X is no hexadecimal tag; 0 is no data field.
CONSTANTS
  FieldIds = {"4", "48", "52", "55"}
  HexTags = {"8A", "70", "E1", "9F02", "DF8129"}
  Layout <- MCLayout
  Fixed <- MCFixed
  Documents <- MCDocumentSet

SPECIFICATION Spec

INVARIANTS
  AmbiguityIsRefused
  PacksWhatWasWritten
  ConvertedDocumentIsAccepted
  RoundTrip
  CountIsOfTheMessage
