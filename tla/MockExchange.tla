---------------------------- MODULE MockExchange ----------------------------
(***************************************************************************)
(* The client of SendExchange against one particular peer: the mock server *)
(* of the end-to-end tests (e2e/mock/main.go), which accepts a connection, *)
(* reads one request with the client's own framing code and writes one     *)
(* fixed reply.  The two may be configured with different framings, and    *)
(* each has a deadline of its own.                                         *)
(*                                                                         *)
(* The mock's Read and Write steps move the counters of SendExchange's     *)
(* peer.  Its start-up (flags, Listen, ready file) is over before a client *)
(* dials and is not represented.  The tests run both ends on the loopback, *)
(* where no connection is lost: NetworkTimesOut is no step here.           *)
(***************************************************************************)
EXTENDS SendExchange

CONSTANTS
  RequestStarts,   \* the first four bytes of a request payload
  ReplyStart,      \* the first four bytes of --reply-hex
  ReplyLens        \* its lengths

ASSUME MockAssumption ==
  /\ RequestStarts \subseteq [1..4 -> Byte]
  /\ ReplyStart \in [1..4 -> Byte]
  /\ ReplyLens \subseteq Nat

VARIABLES
  mockFraming,    \* --framing of the mock, fixed by Init
  noReply,        \* --no-reply, fixed by Init
  replyLen,       \* the length of --reply-hex, fixed by Init
  requestStart,   \* what the client's payload begins with, fixed by Init
  mockPc,         \* the step of main, after Listen
  mockDeadline    \* of the accepted connection: "none", "armed" or "expired"

mockFixed  == <<mockFraming, noReply, replyLen, requestStart>>
mockVars   == <<mockFixed, mockPc, mockDeadline>>
clientVars == <<fixedVars, pc, conn, deadline, written, halfClosed, replyVars,
                returnVars>>
allVars    == <<vars, mockVars>>

\* The first bytes of a frame: enough of them for any length header.
FrameStart(f, len, start) == Header(f, len) \o SubSeq(start, 1, Lesser(len, 4))

\* What the receiver takes for its n header bytes.  Where the frame is shorter
\* the receiver never has them all.
TakenAsHeader(frame, n) == [i \in 1..n |-> IF i <= Len(frame) THEN frame[i] ELSE 0]

ReplyFrameLen == replyLen + headerLen(mockFraming)

MockInit ==
  /\ Init
  /\ mockFraming \in Framings
  /\ noReply \in BOOLEAN
  /\ replyLen \in ReplyLens
  /\ requestStart \in RequestStarts
  /\ header = TakenAsHeader(FrameStart(mockFraming, replyLen, ReplyStart),
                            headerLen(req.framing))
  /\ rest = IF ReplyFrameLen <= headerLen(req.framing) THEN 0
            ELSE ReplyFrameLen - headerLen(req.framing)
  /\ mockPc = "Accept"
  /\ mockDeadline = "none"

-----------------------------------------------------------------------------
(* Reading the request: ReadResponse, on the mock's side *)

AcceptDeadline_Wrong == "none"

AcceptDeadline == "armed"

MockAccept ==
  /\ mockPc = "Accept"
  /\ conn = "open"
  /\ mockDeadline' = AcceptDeadline
  /\ mockPc' = IF mockFraming = "none" THEN "readUntilEOF" ELSE "readHeader"
  /\ UNCHANGED <<clientVars, peerVars, mockFixed>>

MockReading == mockPc \in {"readHeader", "readBody", "readUntilEOF"}

MockDeclared ==
  DeclaredLength(mockFraming,
    TakenAsHeader(FrameStart(req.framing, req.len, requestStart),
                  headerLen(mockFraming)))

MockRead(k) ==
  /\ conn = "open"
  /\ mockDeadline # "expired"
  /\ k <= written - consumed
  /\ consumed' = consumed + k

MockReadHeader ==
  /\ mockPc = "readHeader"
  /\ \E k \in 1..(headerLen(mockFraming) - consumed) :
       /\ MockRead(k)
       /\ \/ /\ consumed + k < headerLen(mockFraming)
             /\ UNCHANGED mockPc
          \/ /\ consumed + k = headerLen(mockFraming)
             /\ mockPc' = IF MockDeclared < 0 THEN "fail"
                          ELSE IF MockDeclared = 0 THEN "reply" ELSE "readBody"
  /\ UNCHANGED <<clientVars, peer, produced, mockFixed, mockDeadline>>

MockReadBody ==
  /\ mockPc = "readBody"
  /\ LET total == headerLen(mockFraming) + MockDeclared IN
     \E k \in 1..Lesser(written - consumed, total - consumed) :
       /\ MockRead(k)
       /\ mockPc' = IF consumed + k = total THEN "reply" ELSE mockPc
  /\ UNCHANGED <<clientVars, peer, produced, mockFixed, mockDeadline>>

MockReadUntilEOF ==
  /\ mockPc = "readUntilEOF"
  /\ \E k \in 1..Lesser(written - consumed, ReadChunk) :
       /\ MockRead(k)
       /\ mockPc' = IF consumed + k > MaxUnframed THEN "fail" ELSE mockPc
  /\ UNCHANGED <<clientVars, peer, produced, mockFixed, mockDeadline>>

\* A body that the client cut short is taken for a whole one.
MockEndsAtEOF_Wrong == mockPc # "readHeader"

MockEndsAtEOF == mockPc = "readUntilEOF"

MockReadEOF ==
  /\ MockReading
  /\ conn = "open" /\ mockDeadline # "expired"
  /\ halfClosed /\ consumed = written
  /\ mockPc' = IF MockEndsAtEOF THEN "reply" ELSE "fail"
  /\ UNCHANGED <<clientVars, peerVars, mockFixed, mockDeadline>>

MockReadTimesOut ==
  /\ MockReading
  /\ mockDeadline = "expired"
  /\ mockPc' = IF mockPc = "readUntilEOF" /\ consumed > 0 THEN "reply" ELSE "fail"
  /\ UNCHANGED <<clientVars, peerVars, mockFixed, mockDeadline>>

-----------------------------------------------------------------------------
(* Replying *)

MockReply ==
  /\ mockPc = "reply"
  /\ mockPc' = IF noReply THEN "sleep"
               ELSE IF Encodable(mockFraming, replyLen) THEN "write" ELSE "fail"
  /\ UNCHANGED <<clientVars, peerVars, mockFixed, mockDeadline>>

\* Twenty seconds without a reply, and main returns.
MockSleep ==
  /\ mockPc = "sleep"
  /\ mockPc' = "return"
  /\ UNCHANGED <<clientVars, peerVars, mockFixed, mockDeadline>>

\* The loop offers the frame from its start each time.
ReplyLeft_Wrong == ReplyFrameLen

ReplyLeft == ReplyFrameLen - produced

\* One Write, short or not, is taken for the whole reply.
ReplyWritten_Wrong == produced > 0

ReplyWritten == produced = ReplyFrameLen

MockWrite ==
  /\ mockPc = "write" /\ ~ReplyWritten
  /\ conn = "open" /\ mockDeadline # "expired"
  /\ \E k \in 1..Lesser(ReplyLeft, RecvBuffer - InFlight) : produced' = produced + k
  /\ UNCHANGED <<clientVars, peer, consumed, mockFixed, mockPc, mockDeadline>>

MockWriteFails ==
  /\ mockPc = "write" /\ ~ReplyWritten
  /\ mockDeadline = "expired"
  /\ mockPc' = "fail"
  /\ UNCHANGED <<clientVars, peerVars, mockFixed, mockDeadline>>

MockCloseWrite ==
  /\ mockPc = "write" /\ ReplyWritten
  /\ conn = "open"
  /\ peer' = "closed"
  /\ mockPc' = "return"
  /\ UNCHANGED <<clientVars, consumed, produced, mockFixed, mockDeadline>>

\* main returns, or fail exits the process.  The kernel then closes the socket,
\* with a reset if the client had sent more than was read.
MockExit ==
  /\ mockPc \in {"return", "fail"}
  /\ conn = "open"
  /\ peer' = IF written = consumed THEN "closed" ELSE "reset"
  /\ mockPc' = "exited"
  /\ UNCHANGED <<clientVars, consumed, produced, mockFixed, mockDeadline>>

\* So does whatever reaches the socket afterwards.
MockRefuses ==
  /\ mockPc = "exited" /\ conn = "open"
  /\ peer = "closed" /\ written > consumed
  /\ peer' = "reset"
  /\ UNCHANGED <<clientVars, consumed, produced, mockVars>>

\* Once the client has closed, nothing the mock does can reach it: its reads end
\* and its writes fail, and after them so does the mock.
MockLosesClient ==
  /\ conn = "closed" /\ mockPc # "exited"
  /\ mockPc' = "exited"
  /\ UNCHANGED <<clientVars, peerVars, mockFixed, mockDeadline>>

MockExpire ==
  /\ conn = "open" /\ mockDeadline = "armed" /\ mockPc # "exited"
  /\ mockDeadline' = "expired"
  /\ UNCHANGED <<clientVars, peerVars, mockFixed, mockPc>>

-----------------------------------------------------------------------------

Mock ==
  \/ MockAccept \/ MockReadHeader \/ MockReadBody \/ MockReadUntilEOF
  \/ MockReadEOF \/ MockReadTimesOut \/ MockReply \/ MockSleep \/ MockWrite
  \/ MockWriteFails \/ MockCloseWrite \/ MockExit \/ MockRefuses
  \/ MockLosesClient

Client == SendMessage /\ UNCHANGED mockVars

ClientExpire == Expire /\ UNCHANGED mockVars

MockReturned == Returned /\ UNCHANGED mockVars

MockNext == Client \/ ClientExpire \/ Mock \/ MockExpire \/ MockReturned

\* Both processes run, and the timer of the mock's 30-second deadline fires.
\* The client may have no deadline at all.
MockSpec ==
  /\ MockInit /\ [][MockNext]_allVars
  /\ WF_allVars(Client) /\ WF_allVars(Mock) /\ WF_allVars(MockExpire)

-----------------------------------------------------------------------------
(* What the two guarantee together *)

Undisturbed == deadline # "expired" /\ mockDeadline # "expired"

\* Every length can be sent with the framing the two share, and read back.
Carried ==
  /\ Encodable(mockFraming, replyLen)
  /\ mockFraming = "none" => req.len <= MaxUnframed /\ replyLen <= MaxUnframed

\* With the same framing on both sides the whole reply comes back, however the
\* reads and writes were cut up: only a deadline, --no-reply or a connection that
\* was never made explains anything else.  In particular the mock never resets
\* the connection under a reply still in flight.
MatchedExchangeSucceeds ==
  /\ pc = "done" /\ conn # "none" /\ Undisturbed
  /\ mockFraming = req.framing /\ ~noReply /\ Carried
  => outcome = "ok" /\ result.response = replyLen

\* A receiver of framing g finds a whole message in the frame of framing f that
\* carries len bytes beginning with start.
FoundIn(f, g, len, start) ==
  LET declared == DeclaredLength(g, TakenAsHeader(FrameStart(f, len, start), headerLen(g)))
  IN  /\ Encodable(f, len)
      /\ ~(declared < 0) /\ headerLen(g) + declared <= headerLen(f) + len

\* Two different framings have a good exchange only by misreading each other: a
\* framed client has found a message of its framing in the mock's reply, and a
\* framed mock that replied has found one in the request.  Both happen: "0100"
\* and the rest of an unframed message of 104 bytes is a 4digit-ascii frame.
\* (An unframed client takes the close of a mock that gave up for an empty
\* response, which no specification decodes.)
OnlyByMisreading ==
  outcome = "ok" /\ mockFraming # req.framing =>
    /\ req.framing # "none" =>
         FoundIn(mockFraming, req.framing, replyLen, ReplyStart)
    /\ mockFraming # "none" /\ result.received > 0 =>
         FoundIn(req.framing, mockFraming, req.len, requestStart)

\* Neither waits for the other for ever, even when each waits for bytes that the
\* other's framing will never send and the client has no timeout: the mock's own
\* deadline breaks the wait.
ExchangeEnds == <>(pc = "done")

\* The mock is one of the peers SendExchange allows, so what is checked and
\* proved there holds here.
MockIsAPeer == Spec
=============================================================================
