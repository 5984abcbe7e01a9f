\* Frames of up to 9 bytes through buffers of 4; the longest unframed request
\* and reply are one byte over the cap.  Rests holds every difference between a
\* reply frame and a header.
CONSTANTS
  Requests <- MCRequests
  Headers <- MCHeaders
  Rests = {0, 1, 2, 3, 4, 5, 6, 7, 8, 9}
  SendBuffer = 4
  RecvBuffer = 4
  ReadChunk = 4
  MaxUnframed = 4
  RequestStarts <- MCRequestStarts
  ReplyStart <- MCReplyStart
  ReplyLens = {0, 3, 5}

SPECIFICATION MockSpec

INVARIANTS
  MatchedExchangeSucceeds
  OnlyByMisreading

PROPERTIES
  ExchangeEnds
  MockIsAPeer
