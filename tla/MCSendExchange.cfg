\* A payload of up to 2 bytes makes a frame of up to 6, three times the send
\* buffer; replies carry up to 4 bytes after the header, one more than the cap.
CONSTANTS
  Requests <- MCRequests
  Headers <- MCHeaders
  Rests = {0, 2, 4}
  SendBuffer = 2
  RecvBuffer = 2
  ReadChunk = 2
  MaxUnframed = 3

SPECIFICATION FairSpec

INVARIANTS
  TypeOK
  LimitIsTight
  AcceptedLengthFits
  WholeRequestFirst
  ResponseMatchesWire
  UnframedResponseComplete
  UnframedCapExact
  ErrorNamesItsCause

PROPERTIES
  DeadlineIsFinal
  TimeoutBoundsExchange
  BrokenLinkEndsExchange
  ImplementsContract
