---------------------------- MODULE SendExchange ----------------------------
(***************************************************************************)
(* One TCP exchange: SendMessage (internal/service/send.go) against a peer *)
(* that behaves arbitrarily.  The two byte streams are counters, because   *)
(* TCP delivers in order and the client never looks at a byte it does not  *)
(* decode as a length header.  What the peer would write is fixed by Init; *)
(* when it writes, how much of it, and whether it reads, closes or resets  *)
(* is left open.                                                           *)
(*                                                                         *)
(* Not represented: RTT (a clock reading), and io.ErrShortWrite, which     *)
(* writeAll returns for a Write of no bytes and no error, and a failing    *)
(* SetDeadline: an open TCP connection does neither.                       *)
(***************************************************************************)
EXTENDS Framing

CONSTANTS
  Requests,     \* the SendRequests: [address, len, framing, timeout]
  Headers,      \* the header bytes a peer may put at the front of its reply
  Rests,        \* how many bytes may follow them
  SendBuffer,   \* bytes the kernels hold between client and peer
  RecvBuffer,   \* bytes they hold between peer and client
  ReadChunk,    \* len(tmp) in readUntilEOF (4096 in the code)
  MaxUnframed   \* maxUnframedResponseBytes (1 MiB in the code)

\* HOST:PORT, the same with blanks around it, and what ValidateAddress refuses.
Addresses == {"host:port", "padded", "no-port", "empty-host", "empty-port"}

\* A timeout is a number only because its sign is tested.
SendRequest == [address : Addresses, len : Nat, framing : Framings, timeout : Int]

ASSUME ConstantsAssumption ==
  /\ Requests \subseteq SendRequest
  /\ Headers \subseteq Seq(Byte)
  /\ Rests \subseteq Nat
  /\ SendBuffer \in Nat \ {0}
  /\ RecvBuffer \in Nat \ {0}
  /\ ReadChunk \in Nat \ {0}
  /\ MaxUnframed \in Nat

VARIABLES
  req,         \* the request, fixed by Init
  header,      \* the first headerLen bytes of the peer's reply, fixed by Init
  rest,        \* how many bytes come after them, fixed by Init
  pc,          \* the step of SendMessage, named for the function running
  conn,        \* "none", "open" or "closed"
  deadline,    \* of the connection: "none", "armed" or "expired"
  written,     \* bytes of the frame that Write has accepted
  halfClosed,  \* CloseWrite succeeded
  inRead,      \* bytes of the reply that Read has returned
  buf,         \* bytes of the body held for the response
  outcome,     \* "pending", "ok", or which error SendMessage returned
  result,      \* the SendResult
  peer,        \* "open", "closed" (FIN sent), or how the connection broke:
               \* "reset", or "lost" when the kernel gave up on it
  consumed,    \* bytes of the frame that the peer has read
  produced     \* bytes of the reply that the peer has written

fixedVars  == <<req, header, rest>>
peerVars   == <<peer, consumed, produced>>
replyVars  == <<inRead, buf>>
returnVars == <<outcome, result>>
vars == <<fixedVars, pc, conn, deadline, written, halfClosed, replyVars,
          returnVars, peerVars>>

Lesser(a, b) == IF a <= b THEN a ELSE b

\* A reset, or any other failure that is no timeout, against ETIMEDOUT: probes
\* or retransmissions went unanswered.
Broken == peer \in {"reset", "lost"}

FramedLen  == req.len + headerLen(req.framing)
Declared   == DeclaredLength(req.framing, header)
ReplyBytes == headerLen(req.framing) + rest
InFlight   == produced - inRead

NoResult == [response |-> 0, sent |-> 0, received |-> 0]

Init ==
  /\ req \in Requests
  /\ header \in {h \in Headers : Len(h) = headerLen(req.framing)}
  /\ rest \in Rests
  /\ pc = "Encode"
  /\ conn = "none"
  /\ deadline = "none"
  /\ written = 0 /\ halfClosed = FALSE
  /\ inRead = 0 /\ buf = 0
  /\ outcome = "pending" /\ result = NoResult
  /\ peer = "open" /\ consumed = 0 /\ produced = 0

-----------------------------------------------------------------------------
(* Returning from SendMessage *)

\* The deferred Close runs on every return after Dial.
Return(o, res) ==
  /\ pc' = "done"
  /\ outcome' = o
  /\ result' = res
  /\ conn' = IF conn = "open" THEN "closed" ELSE conn

ReturnError(o) == Return(o, NoResult)

ReturnResponse(n) ==
  Return("ok", [response |-> n, sent |-> FramedLen,
                received |-> n + headerLen(req.framing)])

-----------------------------------------------------------------------------
(* Up to the connection *)

(***************************************************************************)
(* A definition whose name ends in _Wrong is no part of the model.  It is  *)
(* the definition of that name with a bug in it, and stands in for it to   *)
(* see that a property notices.                                            *)
(***************************************************************************)

\* ValidateAddress trims before it splits, so blanks around an address pass.
ValidateAddress(a) == a \in {"host:port", "padded"}

\* SendMessage dials the address as it was given, blanks included, and a
\* negative timeout is a deadline in the past.
Dialable(r) == r.address = "host:port" /\ r.timeout >= 0

RejectRequest ==
  /\ pc = "Encode"
  /\ \/ ~ValidateAddress(req.address) /\ ReturnError("address")
     \/ /\ ValidateAddress(req.address)
        /\ ~Encodable(req.framing, req.len)
        /\ ReturnError("encode")
  /\ UNCHANGED <<fixedVars, deadline, written, halfClosed, replyVars, peerVars>>

Encode ==
  /\ pc = "Encode"
  /\ ValidateAddress(req.address)
  /\ Encodable(req.framing, req.len)
  /\ pc' = "Dial"
  /\ UNCHANGED <<fixedVars, conn, deadline, written, halfClosed, replyVars,
                 returnVars, peerVars>>

\* No listener, no route, no such host, or the dialer's timeout.
DialFails ==
  /\ pc = "Dial"
  /\ ReturnError("connect")
  /\ UNCHANGED <<fixedVars, deadline, written, halfClosed, replyVars, peerVars>>

DeadlineOf_Wrong(timeout) == "none"

\* One deadline for the whole exchange, and none at all for a zero timeout.
DeadlineOf(timeout) == IF timeout > 0 THEN "armed" ELSE "none"

Dial ==
  /\ pc = "Dial"
  /\ Dialable(req)
  /\ conn' = "open"
  /\ deadline' = DeadlineOf(req.timeout)
  /\ pc' = "writeAll"
  /\ UNCHANGED <<fixedVars, written, halfClosed, replyVars, returnVars, peerVars>>

-----------------------------------------------------------------------------
(* Writing the request *)

\* The loop offers the frame from its start each time.
Remaining_Wrong == FramedLen

Remaining == FramedLen - written

\* A short Write passes for the whole frame.
FrameWritten_Wrong == written > 0

FrameWritten == written = FramedLen

\* Write hands over what the send buffer takes and blocks on the rest.
WriteSome ==
  /\ pc = "writeAll"
  /\ ~FrameWritten
  /\ deadline # "expired"
  /\ ~Broken
  /\ \E k \in 1..Lesser(Remaining, SendBuffer - (written - consumed)) :
       written' = written + k
  /\ UNCHANGED <<fixedVars, pc, conn, deadline, halfClosed, replyVars,
                 returnVars, peerVars>>

WriteFails ==
  /\ pc = "writeAll"
  /\ ~FrameWritten
  /\ deadline = "expired" \/ Broken
  /\ ReturnError("send")
  /\ UNCHANGED <<fixedVars, deadline, written, halfClosed, replyVars, peerVars>>

RequestWritten ==
  /\ pc = "writeAll"
  /\ FrameWritten
  /\ pc' = IF req.framing = "none" THEN "CloseWrite" ELSE "readHeader"
  /\ UNCHANGED <<fixedVars, conn, deadline, written, halfClosed, replyVars,
                 returnVars, peerVars>>

\* Without a length header only the half-close tells the peer that the request
\* has ended.  The deadline does not apply to it.
CloseWrite ==
  /\ pc = "CloseWrite"
  /\ ~Broken
  /\ halfClosed' = TRUE
  /\ pc' = "readUntilEOF"
  /\ UNCHANGED <<fixedVars, conn, deadline, written, replyVars, returnVars, peerVars>>

\* The failure is taken for a reason to try again.
CloseWriteFails_Wrong ==
  /\ pc = "CloseWrite"
  /\ Broken
  /\ UNCHANGED vars

CloseWriteFails ==
  /\ pc = "CloseWrite"
  /\ Broken
  /\ ReturnError("close_write")
  /\ UNCHANGED <<fixedVars, deadline, written, halfClosed, replyVars, peerVars>>

-----------------------------------------------------------------------------
(* Reading the reply *)

Reading == pc \in {"readHeader", "readBody", "readUntilEOF"}

\* The deadline was set for the write only.
Read_Wrong(k) ==
  /\ k <= InFlight
  /\ inRead' = inRead + k

\* Read returns k of the bytes that have arrived.  Once the deadline has passed
\* it returns none, arrived or not.
Read(k) ==
  /\ deadline # "expired"
  /\ k <= InFlight
  /\ inRead' = inRead + k

\* The test for a negative number is left out.
HeaderRefused_Wrong == FALSE

HeaderRefused == Declared < 0

ReadHeader ==
  /\ pc = "readHeader"
  /\ \E k \in 1..(headerLen(req.framing) - inRead) :
       /\ Read(k)
       /\ \/ /\ inRead + k < headerLen(req.framing)
             /\ UNCHANGED <<pc, conn, returnVars>>
          \/ /\ inRead + k = headerLen(req.framing)
             /\ HeaderRefused
             /\ ReturnError("header")
          \/ /\ inRead + k = headerLen(req.framing)
             /\ ~HeaderRefused /\ Declared = 0
             /\ ReturnResponse(0)
          \/ /\ inRead + k = headerLen(req.framing)
             /\ ~HeaderRefused /\ Declared # 0
             /\ pc' = "readBody"
             /\ UNCHANGED <<conn, returnVars>>
  /\ UNCHANGED <<fixedVars, deadline, written, halfClosed, buf, peerVars>>

ReadBody ==
  /\ pc = "readBody"
  /\ \E k \in 1..Lesser(InFlight, Declared - buf) :
       /\ Read(k)
       /\ buf' = buf + k
       /\ \/ buf + k < Declared /\ UNCHANGED <<pc, conn, returnVars>>
          \/ buf + k = Declared /\ ReturnResponse(buf + k)
  /\ UNCHANGED <<fixedVars, deadline, written, halfClosed, peerVars>>

\* The cap is tested before the chunk is counted.
TooLarge_Wrong(k) == buf > MaxUnframed

TooLarge(k) == buf + k > MaxUnframed

ReadUntilEOF ==
  /\ pc = "readUntilEOF"
  /\ \E k \in 1..Lesser(InFlight, ReadChunk) :
       /\ Read(k)
       /\ \/ /\ TooLarge(k)
             /\ ReturnError("too_large")
             /\ UNCHANGED buf
          \/ /\ ~TooLarge(k)
             /\ buf' = buf + k
             /\ UNCHANGED <<pc, conn, returnVars>>
  /\ UNCHANGED <<fixedVars, deadline, written, halfClosed, peerVars>>

\* Every failing read is reported as a timeout.
ReadError_Wrong(timedOut) == "timeout"

ReadError(timedOut) == IF timedOut THEN "timeout" ELSE "receive"

\* The timeout of an unframed read is never an error.
KeepsPartial_Wrong == pc = "readUntilEOF"

\* readUntilEOF keeps what it has when a timeout cuts it off.
KeepsPartial == pc = "readUntilEOF" /\ buf > 0

\* A net.Error whose Timeout() is true: the deadline's, or the ETIMEDOUT of a
\* connection that the kernel gave up on.  The code cannot tell them apart.
TimeoutError == deadline = "expired" \/ peer = "lost"

ReadTimesOut ==
  /\ Reading
  /\ TimeoutError
  /\ \/ KeepsPartial /\ ReturnResponse(buf)
     \/ ~KeepsPartial /\ ReturnError(ReadError(TRUE))
  /\ UNCHANGED <<fixedVars, deadline, written, halfClosed, replyVars, peerVars>>

\* The body counts as read when the peer closes, complete or not.
EndsAtEOF_Wrong == pc # "readHeader"

EndsAtEOF == pc = "readUntilEOF"

ReadEOF ==
  /\ Reading
  /\ deadline # "expired"
  /\ peer = "closed" /\ InFlight = 0
  /\ \/ EndsAtEOF /\ ReturnResponse(buf)
     \/ ~EndsAtEOF /\ pc = "readHeader" /\ ReturnError("header_eof")
     \/ ~EndsAtEOF /\ pc = "readBody" /\ ReturnError("body_eof")
  /\ UNCHANGED <<fixedVars, deadline, written, halfClosed, replyVars, peerVars>>

\* A reset may overtake bytes that had arrived.
ReadReset ==
  /\ Reading
  /\ deadline # "expired"
  /\ peer = "reset"
  /\ ReturnError(ReadError(FALSE))
  /\ UNCHANGED <<fixedVars, deadline, written, halfClosed, replyVars, peerVars>>

-----------------------------------------------------------------------------
(* The clock and the peer *)

Expire ==
  /\ conn = "open" /\ deadline = "armed"
  /\ deadline' = "expired"
  /\ UNCHANGED <<fixedVars, pc, conn, written, halfClosed, replyVars,
                 returnVars, peerVars>>

PeerRead ==
  /\ conn = "open" /\ ~Broken
  /\ \E k \in 1..(written - consumed) : consumed' = consumed + k
  /\ UNCHANGED <<fixedVars, pc, conn, deadline, written, halfClosed, replyVars,
                 returnVars, peer, produced>>

PeerWrite ==
  /\ conn = "open" /\ peer = "open"
  /\ \E k \in 1..Lesser(ReplyBytes - produced, RecvBuffer - InFlight) :
       produced' = produced + k
  /\ UNCHANGED <<fixedVars, pc, conn, deadline, written, halfClosed, replyVars,
                 returnVars, peer, consumed>>

PeerClose ==
  /\ conn = "open" /\ peer = "open"
  /\ peer' = "closed"
  /\ UNCHANGED <<fixedVars, pc, conn, deadline, written, halfClosed, replyVars,
                 returnVars, consumed, produced>>

\* The peer sends RST.  So does any other failure show itself that is no timeout.
PeerReset ==
  /\ conn = "open" /\ ~Broken
  /\ peer' = "reset"
  /\ UNCHANGED <<fixedVars, pc, conn, deadline, written, halfClosed, replyVars,
                 returnVars, consumed, produced>>

\* The kernel gives up on the connection.  The dialer turns keepalive probes on,
\* so that this needs no deadline, and nothing in flight.
NetworkTimesOut ==
  /\ conn = "open" /\ ~Broken
  /\ peer' = "lost"
  /\ UNCHANGED <<fixedVars, pc, conn, deadline, written, halfClosed, replyVars,
                 returnVars, consumed, produced>>

-----------------------------------------------------------------------------

SendMessage ==
  \/ RejectRequest \/ Encode \/ DialFails \/ Dial
  \/ WriteSome \/ WriteFails \/ RequestWritten \/ CloseWrite \/ CloseWriteFails
  \/ ReadHeader \/ ReadBody \/ ReadUntilEOF
  \/ ReadTimesOut \/ ReadEOF \/ ReadReset

Peer == PeerRead \/ PeerWrite \/ PeerClose \/ PeerReset \/ NetworkTimesOut

Returned == pc = "done" /\ UNCHANGED vars

Next == SendMessage \/ Expire \/ Peer \/ Returned

\* The Go scheduler runs the only goroutine whenever it can run, and the
\* runtime's timer fires.  Nothing is asked of the peer.
Fairness == WF_vars(SendMessage) /\ WF_vars(Expire)

Spec == Init /\ [][Next]_vars

FairSpec == Spec /\ Fairness

-----------------------------------------------------------------------------
(* What the exchange guarantees *)

Steps == {"Encode", "Dial", "writeAll", "CloseWrite", "readHeader", "readBody",
          "readUntilEOF", "done"}

Outcomes == {"pending", "ok", "address", "encode", "connect", "send",
             "close_write", "header", "header_eof", "body_eof", "too_large",
             "timeout", "receive"}

\* The variables stay in their domains.
TypeOK ==
  /\ req \in SendRequest
  /\ header \in Seq(Byte) /\ Len(header) = headerLen(req.framing)
  /\ rest \in Nat
  /\ pc \in Steps
  /\ conn \in {"none", "open", "closed"}
  /\ deadline \in {"none", "armed", "expired"}
  /\ halfClosed \in BOOLEAN
  /\ written \in Nat /\ consumed \in Nat
  /\ inRead \in Nat /\ produced \in Nat /\ buf \in Nat
  /\ consumed <= written /\ written <= FramedLen
  /\ inRead <= produced /\ produced <= ReplyBytes
  /\ outcome \in Outcomes
  /\ result \in [response : Nat, sent : Nat, received : Nat]
  /\ peer \in {"open", "closed", "reset", "lost"}

\* Past Encode, whether the exchange has returned or not.
EncodePassed ==
  \/ pc \notin {"Encode", "done"}
  \/ outcome \notin {"pending", "address", "encode"}

\* Encode refuses a payload exactly when its length does not survive the header:
\* the limits 65535 and 9999 are neither too high, which would put a wrapped
\* length before the payload, nor too low.
LimitIsTight ==
  LET readBack == DeclaredLength(req.framing, Header(req.framing, req.len)) IN
  /\ outcome = "encode" => req.framing # "none" /\ readBack # req.len
  /\ EncodePassed /\ req.framing # "none" => readBack = req.len

\* readBody allocates the length it is given before a byte of the body is there.
\* Whatever header the peer sends, that length is positive and one the framing
\* can carry: "-001" never reaches make.
AcceptedLengthFits == pc = "readBody" => Declared \in 1..MaxDeclared(req.framing)

\* writeAll ships the whole frame before the first byte of a reply is read, and
\* without a header the half-close has told the peer where the request ends: a
\* short Write never passes for a sent request.
WholeRequestFirst ==
  inRead > 0 \/ outcome = "ok" =>
    /\ written = FramedLen
    /\ req.framing = "none" => halfClosed

\* A response that SendMessage returns was really exchanged: the byte counts of
\* the SendResult are those of the wire, and a framed response is exactly as
\* long as its header declared, never a part of it.
ResponseMatchesWire ==
  outcome = "ok" =>
    /\ result.sent = written
    /\ result.received = inRead
    /\ req.framing # "none" => result.response = Declared

\* Without a header, a response is all that the peer wrote up to its close, or
\* what had come, not nothing, when a timeout cut the read off: the deadline, or
\* a connection the kernel gave up on, which the code takes for the deadline.
UnframedResponseComplete ==
  outcome = "ok" /\ req.framing = "none" =>
    \/ peer = "closed" /\ result.response = produced
    \/ (deadline = "expired" \/ peer = "lost") /\ result.response > 0

\* The cap on an unframed response is exact: nothing longer is returned, and
\* only a peer that wrote more than it is turned away.
UnframedCapExact ==
  /\ req.framing = "none" => result.response <= MaxUnframed
  /\ outcome = "too_large" => req.framing = "none" /\ produced > MaxUnframed

\* An error names what happened.  "timed out after T" is reported only past a
\* deadline or on a connection the kernel gave up on (then whatever T is, and
\* also without a deadline), a reset is never reported as a timeout, a close is
\* blamed only on a peer that closed before the bytes it owed, and a failed
\* send did leave the frame incomplete.
ErrorNamesItsCause ==
  /\ outcome = "timeout" =>
       (deadline = "expired" /\ req.timeout > 0) \/ peer = "lost"
  /\ outcome = "header_eof" =>
       peer = "closed" /\ produced < headerLen(req.framing)
  /\ outcome = "body_eof" =>
       /\ peer = "closed"
       /\ produced >= headerLen(req.framing)
       /\ produced < headerLen(req.framing) + Declared
  /\ outcome = "send" => written < FramedLen
  /\ outcome = "receive" => peer = "reset"
  /\ outcome = "close_write" => Broken

\* One deadline covers the write and the read: once it has passed, no byte
\* moves in either direction and it is not armed again.
DeadlineIsFinal ==
  [][deadline = "expired" => UNCHANGED <<deadline, written, inRead>>]_vars

\* Whatever the peer does, an exchange with a timeout comes to an end.
TimeoutBoundsExchange == (req.timeout # 0) ~> (pc = "done")

\* A broken connection ends the exchange even when no timeout was asked for.
BrokenLinkEndsExchange == Broken ~> (pc = "done")

\* Why these hold.  Where SendMessage is in its code fixes what has been written
\* and read so far; nothing but the outcome changes after it returns.
Inv ==
  /\ pc \in {"Encode", "Dial"} => conn = "none" /\ deadline = "none" /\ written = 0
  /\ pc \notin {"Encode", "Dial", "done"} => conn = "open"
  /\ pc = "done" <=> outcome # "pending"
  /\ pc = "done" => conn # "open"
  /\ deadline # "none" => req.timeout > 0
  /\ pc \in {"Encode", "Dial", "writeAll", "CloseWrite"} => inRead = 0 /\ buf = 0
  /\ pc \in {"CloseWrite", "readUntilEOF"} => req.framing = "none"
  /\ pc = "CloseWrite" \/ Reading => written = FramedLen
  /\ pc = "readHeader" =>
       req.framing # "none" /\ buf = 0 /\ inRead < headerLen(req.framing)
  /\ pc = "readBody" =>
       /\ req.framing # "none"
       /\ inRead = headerLen(req.framing) + buf
       /\ buf < Declared
  /\ pc = "readUntilEOF" => halfClosed /\ inRead = buf /\ buf <= MaxUnframed
  /\ outcome = "ok" => conn # "none"
  /\ outcome = "ok" => result.received = result.response + headerLen(req.framing)
  /\ outcome # "ok" => result = NoResult

\* What Encode has decided about the payload, from then on.
EncodeInv ==
  /\ EncodePassed => Encodable(req.framing, req.len)
  /\ outcome = "encode" => ~Encodable(req.framing, req.len)

IInv ==
  /\ TypeOK
  /\ Inv
  /\ WholeRequestFirst
  /\ ResponseMatchesWire
  /\ UnframedResponseComplete
  /\ UnframedCapExact
  /\ ErrorNamesItsCause

\* The response lengths that the peer's reply entitles the client to.
Answers ==
  IF req.framing = "none"
  THEN 0..Lesser(rest, MaxUnframed)
  ELSE {n \in {Declared} : 0 <= n /\ n <= rest}

RequestSent == IF conn # "none" /\ written = FramedLen THEN "sent" ELSE "unsent"

Verdict ==
  IF pc # "done" THEN "pending" ELSE IF outcome = "ok" THEN "response" ELSE "error"

Contract == INSTANCE ExchangeContract WITH
  answers <- Answers, request <- RequestSent, verdict <- Verdict,
  response <- result.response

\* SendMessage keeps the contract.
ImplementsContract == Contract!ContractSpec
=============================================================================
