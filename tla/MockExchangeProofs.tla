------------------------- MODULE MockExchangeProofs -------------------------
(***************************************************************************)
(* Proofs about the mock server and its client, for every pair of          *)
(* framings, every length and every size of the buffers: the mock is one   *)
(* of the peers SendExchange allows, the exchange of two ends of one       *)
(* framing succeeds (MatchInv), and that of two framings succeeds only by  *)
(* a misreading (RepliesInv).                                              *)
(***************************************************************************)
EXTENDS MockExchange, SendExchangeProofs, SequenceTheorems

-----------------------------------------------------------------------------
(* The mock is a peer *)

\* Init fixes the reply: its frame is no longer than what SendExchange allows.
FixedInv ==
  /\ req \in SendRequest /\ replyLen \in Nat /\ mockFraming \in Framings
  /\ rest \in Nat /\ ReplyFrameLen <= ReplyBytes

\* Until it returns the mock has the connection open.
PeerInv ==
  /\ mockPc \notin {"return", "exited"} => peer = "open"
  /\ mockPc = "return" => peer \in {"open", "closed"}

MockInv == FixedInv /\ PeerInv

LEMMA InitMockInv == MockInit => MockInv
<1> SUFFICES ASSUME MockInit PROVE MockInv
  OBVIOUS
<1>1. req \in SendRequest /\ replyLen \in Nat /\ mockFraming \in Framings
  BY ConstantsAssumption, MockAssumption DEF MockInit, Init
<1>2. headerLen(req.framing) \in Nat /\ headerLen(mockFraming) \in Nat
  BY <1>1, HeaderLenFacts DEF SendRequest
<1>3. \A f, h \in Nat : f <= h + (IF f <= h THEN 0 ELSE f - h)
                        /\ (IF f <= h THEN 0 ELSE f - h) \in Nat
  OBVIOUS
<1>4. ReplyFrameLen \in Nat
  BY <1>1, <1>2 DEF ReplyFrameLen
<1>5. rest = IF ReplyFrameLen <= headerLen(req.framing) THEN 0
             ELSE ReplyFrameLen - headerLen(req.framing)
  BY DEF MockInit
<1>6. rest \in Nat /\ ReplyFrameLen <= ReplyBytes
  BY <1>2, <1>3, <1>4, <1>5 DEF ReplyBytes
<1>7. PeerInv
  BY DEF MockInit, Init, PeerInv
<1> QED BY <1>1, <1>6, <1>7 DEF MockInv, FixedInv

\* The client changes nothing of the mock's.
LEMMA ClientFrame ==
  ASSUME SendMessage \/ Expire
  PROVE  UNCHANGED <<fixedVars, peerVars>>
BY DEF SendMessage, Expire, RejectRequest, Encode, DialFails, Dial, WriteSome, WriteFails,
       RequestWritten, CloseWrite, CloseWriteFails, ReadHeader, ReadBody, ReadUntilEOF,
       ReadTimesOut, ReadEOF, ReadReset

\* Whatever the mock does looks to the client like a step of some peer.
LEMMA MockSteps ==
  ASSUME TypeOK, MockInv, Mock
  PROVE  [Peer]_vars /\ PeerInv' /\ UNCHANGED <<fixedVars, mockFixed>>
<1>1. CASE MockAccept
  BY <1>1 DEF MockAccept, MockInv, PeerInv, clientVars, vars, peerVars
<1>2. CASE MockReadHeader \/ MockReadBody \/ MockReadUntilEOF
  <2>1. PICK k \in Int : k >= 1 /\ MockRead(k)
    BY <1>2 DEF MockReadHeader, MockReadBody, MockReadUntilEOF
  <2>2. /\ UNCHANGED <<clientVars, peer, produced, mockFixed>>
        /\ mockPc \in {"readHeader", "readBody", "readUntilEOF"}
        /\ mockPc' \in {"readHeader", "readBody", "readUntilEOF", "reply", "fail"}
    BY <1>2 DEF MockReadHeader, MockReadBody, MockReadUntilEOF
  <2>3. k \in 1..(written - consumed) /\ consumed' = consumed + k /\ conn = "open"
    BY <2>1 DEF MockRead, TypeOK
  <2>4. peer = "open"
    BY <2>2 DEF MockInv, PeerInv
  <2>5. PeerRead
    BY <2>2, <2>3, <2>4 DEF PeerRead, Broken, clientVars
  <2> QED BY <2>2, <2>4, <2>5 DEF Peer, PeerInv, clientVars
<1>3. CASE MockReadEOF \/ MockReadTimesOut \/ MockReply \/ MockSleep \/ MockWriteFails
           \/ MockLosesClient
  BY <1>3 DEF MockReadEOF, MockReadTimesOut, MockReply, MockSleep, MockWriteFails,
              MockLosesClient, MockReading, MockInv, PeerInv, clientVars, vars, peerVars
<1>4. CASE MockWrite
  <2>1. PICK k \in 1..Lesser(ReplyLeft, RecvBuffer - InFlight) : produced' = produced + k
    BY <1>4 DEF MockWrite
  <2>2. /\ UNCHANGED <<clientVars, peer, consumed, mockFixed, mockPc>>
        /\ mockPc = "write" /\ conn = "open"
    BY <1>4 DEF MockWrite
  <2>3. peer = "open"
    BY <2>2 DEF MockInv, PeerInv
  <2>4. k \in 1..Lesser(ReplyBytes - produced, RecvBuffer - InFlight)
    <3>1. /\ ReplyFrameLen \in Int /\ ReplyBytes \in Int /\ produced \in Int
          /\ RecvBuffer - InFlight \in Int /\ ReplyFrameLen <= ReplyBytes
      <4>1. headerLen(mockFraming) \in Nat
        BY HeaderLenFacts DEF MockInv, FixedInv
      <4> QED BY <4>1, LengthFacts, ConstantsAssumption
              DEF MockInv, FixedInv, ReplyFrameLen, TypeOK, InFlight
    <3>2. \A f, b, p, r \in Int : \A x \in 1..(IF f - p <= r THEN f - p ELSE r) :
            f <= b => x \in 1..(IF b - p <= r THEN b - p ELSE r)
      OBVIOUS
    <3> QED BY <2>1, <3>1, <3>2 DEF Lesser, ReplyLeft
  <2>5. PeerWrite
    BY <2>1, <2>2, <2>3, <2>4 DEF PeerWrite, clientVars
  <2> QED BY <2>2, <2>3, <2>5 DEF Peer, PeerInv, clientVars
<1>5. CASE MockCloseWrite
  BY <1>5 DEF MockCloseWrite, MockInv, PeerInv, Peer, PeerClose, clientVars
<1>6. CASE MockExit \/ MockRefuses
  BY <1>6 DEF MockExit, MockRefuses, MockInv, PeerInv, Peer, PeerClose, PeerReset,
              Broken, clientVars, vars, peerVars, mockVars
<1> QED BY <1>1, <1>2, <1>3, <1>4, <1>5, <1>6 DEF Mock

LEMMA StepMock ==
  ASSUME TypeOK, MockInv, [MockNext]_allVars
  PROVE  [Next]_vars /\ MockInv'
<1>1. CASE Mock
  <2>1. [Peer]_vars /\ PeerInv' /\ UNCHANGED <<fixedVars, mockFixed>>
    BY <1>1, MockSteps
  <2>2. FixedInv'
    BY <2>1 DEF MockInv, FixedInv, fixedVars, mockFixed, ReplyFrameLen, ReplyBytes
  <2> QED BY <2>1, <2>2 DEF MockInv, Next
<1>2. CASE Client \/ ClientExpire
  <2>1. UNCHANGED <<fixedVars, peerVars, mockVars>> /\ (SendMessage \/ Expire)
    BY <1>2, ClientFrame DEF Client, ClientExpire
  <2>2. MockInv'
    BY <2>1 DEF MockInv, FixedInv, PeerInv, fixedVars, peerVars, mockVars, mockFixed,
                ReplyFrameLen, ReplyBytes
  <2> QED BY <2>1, <2>2 DEF Next
<1>3. CASE MockExpire
  BY <1>3 DEF MockExpire, MockInv, FixedInv, PeerInv, clientVars, peerVars, fixedVars, mockFixed,
              vars, ReplyFrameLen, ReplyBytes
<1>4. CASE MockReturned \/ UNCHANGED allVars
  <2>1. UNCHANGED allVars
    BY <1>4 DEF MockReturned, Returned, allVars
  <2> QED BY <2>1 DEF allVars, vars, mockVars, mockFixed, fixedVars, peerVars, MockInv, FixedInv,
                      PeerInv, ReplyFrameLen, ReplyBytes
<1> QED BY <1>1, <1>2, <1>3, <1>4 DEF MockNext

\* What is proved of SendExchange for any peer holds of the mock's client.
LEMMA MockInvariance == MockSpec => []MockInv /\ []IInv
<1>1. MockInit => MockInv /\ IInv
  BY InitMockInv, InitInv DEF MockInit
<1>2. MockInv /\ IInv /\ [MockNext]_allVars => MockInv' /\ IInv'
  <2>1. IInv => TypeOK
    BY DEF IInv
  <2> QED BY <2>1, StepMock, StepInv
<1> QED BY <1>1, <1>2, PTL DEF MockSpec

\* The mock server of the end-to-end tests (e2e/mock/main.go) is one of the peers
\* that SendExchange allows: every behaviour of the two is one of SendExchange.
THEOREM MockIsAPeerHolds == MockSpec => MockIsAPeer
<1>1. MockInit => Init
  BY DEF MockInit
<1>2. MockInv /\ IInv /\ [MockNext]_allVars => [Next]_vars
  <2>1. IInv => TypeOK
    BY DEF IInv
  <2> QED BY <2>1, StepMock
<1> QED BY <1>1, <1>2, MockInvariance, PTL DEF MockSpec, MockIsAPeer, Spec

\* Against the mock the client keeps the contract of one exchange: one request, and
\* then an answer that the mock's reply entitles to, or an error.
THEOREM MockKeepsContract == MockSpec => ImplementsContract
BY MockIsAPeerHolds, Refinement, PTL DEF MockIsAPeer

-----------------------------------------------------------------------------
(* With the same framing on both sides *)

Matched == mockFraming = req.framing /\ ~noReply /\ Carried

\* The reply of the client's peer is the one that the mock was given.
StartInv ==
  /\ requestStart \in [1..4 -> Byte]
  /\ header = TakenAsHeader(FrameStart(mockFraming, replyLen, ReplyStart),
                            headerLen(req.framing))
  /\ rest = IF ReplyFrameLen <= headerLen(req.framing) THEN 0
            ELSE ReplyFrameLen - headerLen(req.framing)

\* The client half-closes after a whole unframed request, and sends nothing that
\* Encode refuses.
ClientInv ==
  /\ halfClosed => req.framing = "none" /\ written = FramedLen
  /\ pc \notin {"Encode", "done"} \/ conn # "none" => Encodable(req.framing, req.len)

\* The deadline of a connection is set when it is accepted.
AcceptInv == mockPc = "Accept" => mockDeadline = "none"

\* Where the mock is in main fixes what it has read and written.
Lockstep ==
  /\ conn = "none" => mockPc = "Accept"
  /\ mockPc \notin {"sleep", "fail"}
  /\ peer \in {"open", "closed"} /\ (peer = "closed" => produced = ReplyFrameLen)
  /\ mockPc = "Accept" => consumed = 0
  /\ mockPc = "readHeader" => req.framing # "none" /\ consumed < headerLen(req.framing)
  /\ mockPc = "readBody" =>
       /\ req.framing # "none"
       /\ headerLen(req.framing) <= consumed /\ consumed < FramedLen
  /\ mockPc = "readUntilEOF" => req.framing = "none"
  /\ mockPc \notin {"Accept", "readHeader", "readBody", "readUntilEOF"} =>
       consumed = FramedLen
  /\ mockPc \in {"return", "exited"} => peer = "closed"

\* While the connection lasts the two are in step, and then the client has the
\* reply.
MatchInv ==
  Matched /\ Undisturbed =>
    /\ conn # "closed" => Lockstep
    /\ conn = "closed" => pc = "done" /\ outcome = "ok" /\ result.response = replyLen

JointInv == StartInv /\ ClientInv /\ AcceptInv /\ MatchInv

\* A header is as long as the framing says, and it comes first in a frame.
LEMMA FrameStartsWithHeader ==
  ASSUME NEW f \in Framings, NEW n \in Nat, NEW start \in [1..4 -> Byte]
  PROVE  f # "none" =>
           DeclaredLength(f, TakenAsHeader(FrameStart(f, n, start), headerLen(f)))
             = DeclaredLength(f, Header(f, n))
<1> DEFINE h == Header(f, n)
           s == SubSeq(start, 1, Lesser(n, 4))
           t == TakenAsHeader(FrameStart(f, n, start), headerLen(f))
<1> SUFFICES ASSUME f # "none" PROVE DeclaredLength(f, t) = DeclaredLength(f, h)
  OBVIOUS
<1>1. s \in Seq(Byte)
  <2>1. Lesser(n, 4) \in Int /\ \A i \in 1..Lesser(n, 4) : start[i] \in Byte
    BY DEF Lesser
  <2> QED BY <2>1, SubSeqProperties
<1>2. h \in Seq(Int) /\ Len(h) = headerLen(f) /\ headerLen(f) \in {2, 4}
  <2>1. CASE f = "2byte-binary"
    BY <2>1 DEF Header, BinaryHeader, headerLen
  <2>2. CASE f = "4digit-ascii"
    BY <2>2 DEF Header, AsciiHeader, headerLen, Zero
  <2> QED BY <2>1, <2>2 DEF Framings
<1>3. \A i \in 1..headerLen(f) : t[i] = h[i]
  <2> HIDE DEF h, s
  <2>1. s \in Seq(Int)
    <3>1. Byte \subseteq Int
      BY DEF Byte
    <3>2. ASSUME NEW S, NEW T, S \subseteq T, NEW q \in Seq(S) PROVE q \in Seq(T)
      BY <3>2
    <3> QED BY <1>1, <3>1, <3>2
  <2>2. Len(h \o s) >= headerLen(f) /\ \A i \in 1..headerLen(f) : (h \o s)[i] = h[i]
    BY <1>2, <2>1
  <2>3. t = [i \in 1..headerLen(f) |-> IF i <= Len(h \o s) THEN (h \o s)[i] ELSE 0]
    BY DEF t, TakenAsHeader, FrameStart, h, s
  <2> QED BY <1>2, <2>2, <2>3
<1> HIDE DEF h, s, t
<1>4. CASE f = "2byte-binary"
  <2>1. t[1] = h[1] /\ t[2] = h[2]
    BY <1>3, <1>4 DEF headerLen
  <2> QED BY <1>4, <2>1 DEF DeclaredLength, BinaryLength
<1>5. CASE f = "4digit-ascii"
  <2>1. t[1] = h[1] /\ t[2] = h[2] /\ t[3] = h[3] /\ t[4] = h[4]
    BY <1>3, <1>5 DEF headerLen
  <2> QED BY <1>5, <2>1 DEF DeclaredLength, Atoi, LastThreeDigits
<1> QED BY <1>4, <1>5 DEF Framings

\* Each side takes the other's frame for what it is.
LEMMA MatchedFacts ==
  ASSUME IInv, MockInv, StartInv, Matched
  PROVE  /\ req.framing # "none" => Declared = replyLen
         /\ req.framing # "none" /\ Encodable(req.framing, req.len) => MockDeclared = req.len
         /\ ReplyFrameLen = headerLen(req.framing) + replyLen
         /\ ReplyBytes = ReplyFrameLen /\ rest = replyLen
         /\ req.framing = "none" => req.len <= MaxUnframed /\ replyLen <= MaxUnframed
<1>1. /\ mockFraming = req.framing /\ req.framing \in Framings /\ req.len \in Nat
      /\ replyLen \in Nat /\ headerLen(req.framing) \in Nat
  BY HeaderLenFacts DEF MockInv, FixedInv, SendRequest, Matched
<1>2. ReplyFrameLen = headerLen(req.framing) + replyLen
  BY <1>1 DEF ReplyFrameLen
<1>3. rest = replyLen
  BY <1>1, <1>2 DEF StartInv
<1>4. req.framing # "none" => Declared = replyLen
  BY <1>1, FrameStartsWithHeader, LimitIsTightEverywhere, MockAssumption
     DEF StartInv, Declared, Matched, Carried
<1>5. req.framing # "none" /\ Encodable(req.framing, req.len) => MockDeclared = req.len
  BY <1>1, FrameStartsWithHeader, LimitIsTightEverywhere DEF StartInv, MockDeclared
<1> QED BY <1>1, <1>2, <1>3, <1>4, <1>5 DEF ReplyBytes, Matched, Carried

LEMMA InitJoint == MockInit => JointInv
<1> SUFFICES ASSUME MockInit PROVE JointInv
  OBVIOUS
<1>1. StartInv
  BY MockAssumption DEF MockInit, StartInv
<1>2. ClientInv
  BY DEF MockInit, Init, ClientInv
<1>3. Lockstep /\ conn = "none" /\ AcceptInv
  BY DEF MockInit, Init, Lockstep, AcceptInv
<1> QED BY <1>1, <1>2, <1>3 DEF JointInv, MatchInv

\* What Init has fixed stays fixed.
LEMMA FixedJoint ==
  ASSUME JointInv, UNCHANGED <<fixedVars, mockFixed>>
  PROVE  /\ StartInv' /\ (Matched' <=> Matched)
         /\ FramedLen' = FramedLen /\ ReplyFrameLen' = ReplyFrameLen
         /\ req' = req /\ replyLen' = replyLen
BY DEF JointInv, StartInv, Matched, Carried, fixedVars, mockFixed, FramedLen, ReplyFrameLen

LEMMA ClientFactsKept ==
  ASSUME IInv, JointInv, SendMessage
  PROVE  ClientInv' /\ (deadline' # "expired" => deadline # "expired")
<1>1. TypeOK /\ Inv /\ ClientInv /\ req' = req /\ FramedLen' = FramedLen
  BY ClientFrame, FixedFacts DEF IInv, JointInv
<1>2. CASE RejectRequest \/ Encode \/ DialFails
  BY <1>1, <1>2 DEF RejectRequest, Encode, DialFails, ReturnError, Return, ClientInv, Inv
<1>3. CASE Dial
  BY <1>1, <1>3 DEF Dial, ClientInv, Inv
<1>4. CASE WriteSome
  <2>1. written # FramedLen /\ pc = "writeAll"
    BY <1>4 DEF WriteSome, FrameWritten
  <2> QED BY <1>1, <1>4, <2>1 DEF WriteSome, ClientInv
<1>5. CASE WriteFails \/ RequestWritten \/ CloseWriteFails
  BY <1>1, <1>5 DEF WriteFails, RequestWritten, CloseWriteFails, ReturnError, Return, ClientInv
<1>6. CASE CloseWrite
  BY <1>1, <1>6 DEF CloseWrite, ClientInv, Inv
<1>7. CASE ReadHeader \/ ReadBody \/ ReadUntilEOF \/ ReadTimesOut \/ ReadEOF \/ ReadReset
  <2>1. UNCHANGED <<deadline, written, halfClosed>>
    BY <1>7 DEF ReadHeader, ReadBody, ReadUntilEOF, ReadTimesOut, ReadEOF, ReadReset
  <2>2. pc \notin {"Encode", "done"}
    BY <1>7 DEF ReadHeader, ReadBody, ReadUntilEOF, ReadTimesOut, ReadEOF, ReadReset, Reading
  <2> QED BY <1>1, <2>1, <2>2 DEF ClientInv
<1> QED BY <1>2, <1>3, <1>4, <1>5, <1>6, <1>7 DEF SendMessage

\* In step with the mock, the client returns nothing but the reply.
LEMMA ClientReturns ==
  ASSUME IInv, MockInv, JointInv, SendMessage, Matched, Undisturbed, conn # "closed"
  PROVE  /\ conn' = "none" => conn = "none"
         /\ conn' = "closed" => pc' = "done" /\ outcome' = "ok" /\ result'.response = replyLen
<1>1. TypeOK /\ Inv /\ Lockstep /\ deadline # "expired" /\ ~Broken
  BY DEF IInv, JointInv, MatchInv, Lockstep, Undisturbed, Broken
<1>2. /\ req.framing # "none" => Declared = replyLen
      /\ ReplyBytes = headerLen(req.framing) + replyLen /\ ReplyFrameLen = ReplyBytes
      /\ req.framing = "none" => replyLen <= MaxUnframed
  BY MatchedFacts DEF JointInv
<1>3. replyLen \in Nat /\ headerLen(req.framing) \in Nat
      /\ (req.framing = "none" <=> headerLen(req.framing) = 0)
  BY <1>1, LengthFacts DEF MockInv, FixedInv
<1>4. inRead \in Nat /\ produced \in Nat /\ buf \in Nat /\ inRead <= produced
      /\ produced <= ReplyBytes
  BY <1>1 DEF TypeOK
<1>5. CASE RejectRequest \/ Encode \/ DialFails \/ Dial
  BY <1>1, <1>5 DEF RejectRequest, Encode, DialFails, Dial, ReturnError, Return, Inv
<1>6. CASE WriteSome \/ RequestWritten \/ CloseWrite
  BY <1>6 DEF WriteSome, RequestWritten, CloseWrite
<1>7. CASE WriteFails \/ CloseWriteFails \/ ReadTimesOut \/ ReadReset
  BY <1>1, <1>7 DEF WriteFails, CloseWriteFails, ReadTimesOut, TimeoutError, ReadReset, Broken
<1>8. CASE ReadHeader
  <2>1. pc = "readHeader" /\ req.framing # "none"
    BY <1>1, <1>8 DEF ReadHeader, Inv
  <2>2. \/ UNCHANGED <<pc, conn, returnVars>>
        \/ Declared < 0
        \/ Declared = 0 /\ ReturnResponse(0)
        \/ pc' = "readBody" /\ UNCHANGED <<conn, returnVars>>
    BY <1>8 DEF ReadHeader, HeaderRefused
  <2>3. ~(Declared < 0)
    BY <1>2, <1>3, <2>1
  <2> QED BY <1>2, <1>3, <2>1, <2>2, <2>3 DEF ReturnResponse, Return
<1>9. CASE ReadBody
  <2>1. pc = "readBody" /\ req.framing # "none"
    BY <1>1, <1>9 DEF ReadBody, Inv
  <2>2. \/ UNCHANGED <<pc, conn, returnVars>>
        \/ ReturnResponse(Declared)
    BY <1>9 DEF ReadBody
  <2> QED BY <1>2, <2>1, <2>2 DEF ReturnResponse, Return
<1>10. CASE ReadUntilEOF
  <2>1. inRead = buf /\ req.framing = "none"
    BY <1>1, <1>10 DEF ReadUntilEOF, Inv
  <2>2. PICK k \in Int :
          /\ k <= InFlight
          /\ TooLarge(k) \/ UNCHANGED <<pc, conn, returnVars>>
    BY <1>10 DEF ReadUntilEOF, Read
  <2>3. ~TooLarge(k)
    BY <1>2, <1>3, <1>4, <2>1, <2>2, ConstantsAssumption DEF TooLarge, InFlight
  <2> QED BY <2>2, <2>3
<1>11. CASE ReadEOF
  <2>1. inRead = ReplyBytes /\ Reading
    BY <1>1, <1>2, <1>4, <1>11 DEF ReadEOF, InFlight, Lockstep
  <2>2. pc # "readHeader"
    BY <1>1, <1>2, <1>3, <2>1 DEF Inv
  <2>3. pc # "readBody"
    BY <1>1, <1>2, <1>3, <1>4, <2>1 DEF Inv
  <2>4. pc = "readUntilEOF" /\ buf = replyLen
    BY <1>1, <1>2, <1>3, <2>1, <2>2, <2>3 DEF Reading, Inv
  <2>5. ReturnResponse(buf)
    BY <1>11, <2>4 DEF ReadEOF, EndsAtEOF
  <2> QED BY <2>4, <2>5 DEF ReturnResponse, Return
<1> QED BY <1>5, <1>6, <1>7, <1>8, <1>9, <1>10, <1>11 DEF SendMessage

LEMMA ClientKeepsJoint ==
  ASSUME IInv, MockInv, JointInv, SendMessage, UNCHANGED mockVars
  PROVE  JointInv'
<1>1. UNCHANGED <<fixedVars, peerVars, mockFixed, mockPc, mockDeadline>>
  BY ClientFrame DEF mockVars
<1>2. /\ StartInv' /\ (Matched' <=> Matched)
      /\ FramedLen' = FramedLen /\ ReplyFrameLen' = ReplyFrameLen
      /\ req' = req /\ replyLen' = replyLen
  BY <1>1, FixedJoint
<1>3. ClientInv' /\ AcceptInv' /\ (Undisturbed' => Undisturbed)
  BY <1>1, ClientFactsKept DEF Undisturbed, JointInv, AcceptInv
<1>4. ASSUME Matched, Undisturbed
      PROVE  /\ conn' # "closed" => Lockstep'
             /\ conn' = "closed" =>
                  pc' = "done" /\ outcome' = "ok" /\ result'.response = replyLen
  <2>1. conn # "closed" /\ Lockstep
    <3>1. pc # "done"
      BY DEF SendMessage, RejectRequest, Encode, DialFails, Dial, WriteSome, WriteFails,
             RequestWritten, CloseWrite, CloseWriteFails, ReadHeader, ReadBody, ReadUntilEOF,
             ReadTimesOut, ReadEOF, ReadReset, Reading
    <3> QED BY <1>4, <3>1 DEF JointInv, MatchInv
  <2>2. /\ conn' = "none" => conn = "none"
        /\ conn' = "closed" => pc' = "done" /\ outcome' = "ok" /\ result'.response = replyLen
    BY <1>4, <2>1, ClientReturns
  <2>3. Lockstep'
    BY <1>1, <1>2, <2>1, <2>2 DEF Lockstep, peerVars
  <2> QED BY <2>2, <2>3
<1> QED BY <1>2, <1>3, <1>4 DEF JointInv, MatchInv

\* The mock goes through main without failing.
LEMMA MockKeepsLockstep ==
  ASSUME IInv, MockInv, JointInv, Mock, Matched, Undisturbed, Lockstep, conn # "closed",
         FramedLen' = FramedLen, ReplyFrameLen' = ReplyFrameLen, req' = req, conn' = conn
  PROVE  Lockstep'
<1>1. TypeOK /\ Inv /\ mockDeadline # "expired" /\ mockFraming = req.framing /\ ~noReply
  BY DEF IInv, Undisturbed, Matched
<1>2. /\ headerLen(req.framing) \in Nat /\ req.len \in Nat /\ consumed \in Nat
      /\ written \in Nat /\ consumed <= written /\ written <= FramedLen
      /\ FramedLen = req.len + headerLen(req.framing)
      /\ (req.framing = "none" <=> headerLen(req.framing) = 0)
  BY <1>1, LengthFacts DEF TypeOK, SendRequest, FramedLen
<1>3. /\ conn = "open" /\ req.framing # "none" => MockDeclared = req.len
      /\ req.framing = "none" => req.len <= MaxUnframed
      /\ Encodable(mockFraming, replyLen)
  BY MatchedFacts DEF JointInv, ClientInv, Matched, Carried
<1>4. CASE MockAccept
  BY <1>1, <1>2, <1>4 DEF MockAccept, Lockstep, clientVars, peerVars
<1>5. CASE MockReadHeader
  <2>1. PICK k \in 1..(headerLen(req.framing) - consumed) :
          /\ MockRead(k)
          /\ \/ consumed + k < headerLen(req.framing) /\ UNCHANGED mockPc
             \/ /\ consumed + k = headerLen(req.framing)
                /\ mockPc' = IF MockDeclared < 0 THEN "fail"
                             ELSE IF MockDeclared = 0 THEN "reply" ELSE "readBody"
    BY <1>1, <1>5 DEF MockReadHeader
  <2>2. consumed' = consumed + k /\ conn = "open" /\ req.framing # "none"
    BY <1>5, <2>1 DEF MockRead, MockReadHeader, Lockstep
  <2>3. mockPc = "readHeader" /\ UNCHANGED <<peer, produced>>
    BY <1>5 DEF MockReadHeader
  <2>4. CASE consumed + k < headerLen(req.framing) /\ UNCHANGED mockPc
    BY <1>2, <2>2, <2>3, <2>4 DEF Lockstep
  <2>5. CASE /\ consumed + k = headerLen(req.framing)
             /\ mockPc' = IF req.len = 0 THEN "reply" ELSE "readBody"
    BY <1>2, <2>2, <2>3, <2>5 DEF Lockstep
  <2>6. ~(MockDeclared < 0) /\ (MockDeclared = 0 <=> req.len = 0)
    BY <1>2, <1>3, <2>2
  <2> QED BY <2>1, <2>4, <2>5, <2>6
<1>6. CASE MockReadBody
  <2>1. mockPc = "readBody" /\ req.framing # "none" /\ UNCHANGED <<peer, produced>>
    BY <1>6 DEF MockReadBody, Lockstep
  <2>2. conn = "open"
    BY <1>6 DEF MockReadBody, MockRead
  <2>3. headerLen(mockFraming) + MockDeclared = FramedLen
    BY <1>1, <1>2, <1>3, <2>1, <2>2
  <2>4. PICK k \in 1..Lesser(written - consumed, FramedLen - consumed) :
          /\ MockRead(k)
          /\ mockPc' = IF consumed + k = FramedLen THEN "reply" ELSE mockPc
    BY <1>6, <2>3 DEF MockReadBody
  <2>5. consumed' = consumed + k
    BY <2>4 DEF MockRead
  <2>6. \A a, b \in Int : \A x \in 1..(IF a <= b THEN a ELSE b) : x \in Int /\ x >= 1 /\ x <= b
    OBVIOUS
  <2>7. k \in Int /\ k >= 1 /\ k <= FramedLen - consumed
    BY <1>2, <2>4, <2>6 DEF Lesser
  <2> QED BY <1>2, <2>1, <2>4, <2>5, <2>7 DEF Lockstep
<1>7. CASE MockReadUntilEOF
  <2>1. mockPc = "readUntilEOF" /\ req.framing = "none" /\ UNCHANGED <<peer, produced>>
    BY <1>7 DEF MockReadUntilEOF, Lockstep
  <2>2. PICK k \in Int :
          /\ MockRead(k)
          /\ mockPc' = IF consumed + k > MaxUnframed THEN "fail" ELSE mockPc
    BY <1>7 DEF MockReadUntilEOF
  <2>3. consumed' = consumed + k /\ k <= written - consumed
    BY <2>2 DEF MockRead
  <2>4. ~(consumed + k > MaxUnframed)
    BY <1>2, <1>3, <2>1, <2>3, ConstantsAssumption
  <2> QED BY <2>1, <2>2, <2>4 DEF Lockstep
<1>8. CASE MockReadEOF
  <2>1. halfClosed /\ consumed = written /\ MockReading /\ UNCHANGED peerVars
    BY <1>8 DEF MockReadEOF
  <2>2. req.framing = "none" /\ consumed = FramedLen
    BY <2>1 DEF JointInv, ClientInv
  <2>3. mockPc = "readUntilEOF"
    BY <2>1, <2>2 DEF Lockstep, MockReading
  <2>4. mockPc' = "reply"
    BY <1>8, <2>3 DEF MockReadEOF, MockEndsAtEOF
  <2> QED BY <2>1, <2>2, <2>3, <2>4 DEF Lockstep, peerVars
<1>9. CASE MockReadTimesOut \/ MockWriteFails \/ MockSleep \/ MockLosesClient
  BY <1>1, <1>9 DEF MockReadTimesOut, MockWriteFails, MockSleep, MockLosesClient, Lockstep
<1>10. CASE MockReply
  BY <1>1, <1>3, <1>10 DEF MockReply, Lockstep, peerVars
<1>11. CASE MockWrite
  <2>1. peer = "open"
    BY <1>11 DEF MockWrite, MockInv, PeerInv
  <2> QED BY <1>11, <2>1 DEF MockWrite, Lockstep
<1>12. CASE MockCloseWrite
  BY <1>12 DEF MockCloseWrite, ReplyWritten, Lockstep
<1>13. CASE MockExit
  <2>1. mockPc = "return" /\ consumed = FramedLen
    BY <1>13 DEF MockExit, Lockstep
  <2>2. written = consumed
    BY <1>2, <2>1
  <2> QED BY <1>13, <2>1, <2>2 DEF MockExit, Lockstep
<1>14. CASE MockRefuses
  BY <1>2, <1>14 DEF MockRefuses, Lockstep
<1> QED BY <1>4, <1>5, <1>6, <1>7, <1>8, <1>9, <1>10, <1>11, <1>12, <1>13, <1>14 DEF Mock

LEMMA MockFrame ==
  ASSUME AcceptInv, Mock
  PROVE  /\ UNCHANGED <<clientVars, mockFixed>> /\ AcceptInv'
         /\ mockDeadline' # "expired" => mockDeadline # "expired"
<1>1. UNCHANGED <<clientVars, mockFixed>>
  BY DEF Mock, MockAccept, MockReadHeader, MockReadBody, MockReadUntilEOF, MockReadEOF,
         MockReadTimesOut, MockReply, MockSleep, MockWrite, MockWriteFails, MockCloseWrite,
         MockExit, MockRefuses, MockLosesClient, mockVars
<1>2. CASE MockAccept
  BY <1>1, <1>2 DEF MockAccept, AcceptInv
<1>3. ASSUME ~MockAccept
      PROVE  UNCHANGED mockDeadline /\ (mockPc' = "Accept" => mockPc = "Accept")
  BY <1>3 DEF Mock, MockReadHeader, MockReadBody, MockReadUntilEOF, MockReadEOF,
         MockReadTimesOut, MockReply, MockSleep, MockWrite, MockWriteFails, MockCloseWrite,
         MockExit, MockRefuses, MockLosesClient, mockVars
<1> QED BY <1>1, <1>2, <1>3 DEF AcceptInv

LEMMA MockKeepsJoint ==
  ASSUME IInv, MockInv, JointInv, Mock
  PROVE  JointInv'
<1>1. /\ UNCHANGED <<clientVars, mockFixed, fixedVars>> /\ AcceptInv'
      /\ mockDeadline' # "expired" => mockDeadline # "expired"
  BY MockFrame DEF JointInv, clientVars
<1>2. /\ StartInv' /\ (Matched' <=> Matched)
      /\ FramedLen' = FramedLen /\ ReplyFrameLen' = ReplyFrameLen
      /\ req' = req /\ replyLen' = replyLen
  BY <1>1, FixedJoint
<1>3. ClientInv' /\ (Undisturbed' => Undisturbed)
  BY <1>1, <1>2 DEF JointInv, ClientInv, Undisturbed, clientVars
<1>4. ASSUME Matched, Undisturbed, conn # "closed"
      PROVE  Lockstep'
  <2>1. Lockstep /\ conn' = conn
    BY <1>1, <1>4 DEF JointInv, MatchInv, clientVars
  <2> QED BY <1>2, <1>4, <2>1, MockKeepsLockstep
<1>5. MatchInv'
  BY <1>1, <1>2, <1>3, <1>4 DEF JointInv, MatchInv, clientVars, returnVars
<1> QED BY <1>1, <1>2, <1>3, <1>5 DEF JointInv

LEMMA StepJoint ==
  ASSUME IInv, MockInv, JointInv, [MockNext]_allVars
  PROVE  JointInv'
<1>1. CASE Client
  BY <1>1, ClientKeepsJoint DEF Client
<1>2. CASE Mock
  BY <1>2, MockKeepsJoint
<1>3. CASE ClientExpire \/ MockExpire
  <2>1. /\ UNCHANGED <<fixedVars, mockFixed, pc, conn, written, halfClosed, mockPc>>
        /\ ~Undisturbed' /\ (mockPc = "Accept" => mockDeadline' = mockDeadline \/ conn = "open")
    BY <1>3 DEF ClientExpire, MockExpire, Expire, clientVars, mockVars, Undisturbed
  <2>2. StartInv' /\ ClientInv'
    BY <2>1, FixedJoint DEF JointInv, ClientInv
  <2>3. AcceptInv'
    BY <1>3 DEF JointInv, AcceptInv, ClientExpire, MockExpire, mockVars
  <2> QED BY <2>1, <2>2, <2>3 DEF JointInv, MatchInv
<1>4. CASE MockReturned \/ UNCHANGED allVars
  <2>1. UNCHANGED <<fixedVars, mockFixed, pc, conn, deadline, written, halfClosed, peer, consumed,
                    produced, outcome, result, mockPc, mockDeadline>>
    BY <1>4 DEF MockReturned, Returned, allVars, vars, mockVars, peerVars, returnVars
  <2>2. StartInv' /\ (Matched' <=> Matched) /\ FramedLen' = FramedLen
        /\ ReplyFrameLen' = ReplyFrameLen /\ req' = req /\ replyLen' = replyLen
    BY <2>1, FixedJoint
  <2>3. ClientInv' /\ AcceptInv' /\ (Undisturbed' <=> Undisturbed) /\ (Lockstep' <=> Lockstep)
    BY <2>1, <2>2 DEF JointInv, ClientInv, AcceptInv, Undisturbed, Lockstep
  <2> QED BY <2>1, <2>2, <2>3 DEF JointInv, MatchInv
<1> QED BY <1>1, <1>2, <1>3, <1>4 DEF MockNext

\* With the same framing on both sides the whole reply comes back, for every
\* length and however reads and writes are cut up (SendMessage in send.go against
\* main in e2e/mock/main.go).
THEOREM MatchedExchangeSucceedsHolds == MockSpec => []MatchedExchangeSucceeds
<1>1. MockInit => JointInv
  BY InitJoint
<1>2. IInv /\ MockInv /\ JointInv /\ [MockNext]_allVars => JointInv'
  BY StepJoint
<1>3. IInv /\ JointInv => MatchedExchangeSucceeds
  BY DEF IInv, TypeOK, Inv, JointInv, MatchInv, Matched, MatchedExchangeSucceeds
<1> QED BY <1>1, <1>2, <1>3, MockInvariance, PTL DEF MockSpec

-----------------------------------------------------------------------------
(* With different framings *)

\* The mock took what it had read for a whole request.
Replying == mockPc \in {"reply", "sleep", "write", "return"} \/ produced > 0

\* The mock replies only to a message that it found in the client's frame, and
\* with no more than the one frame of its reply.
RepliesInv ==
  /\ req \in Requests /\ replyLen \in ReplyLens /\ requestStart \in RequestStarts
  /\ produced <= ReplyFrameLen
  /\ mockPc = "write" \/ produced > 0 => Encodable(mockFraming, replyLen)
  /\ mockFraming # "none" =>
       /\ mockPc # "readUntilEOF"
       /\ mockPc = "readBody" => ~(MockDeclared < 0)
       /\ Replying => FoundIn(req.framing, mockFraming, req.len, requestStart)

LEMMA InitReplies == MockInit => RepliesInv
<1> SUFFICES ASSUME MockInit PROVE RepliesInv
  OBVIOUS
<1>1. req \in Requests /\ replyLen \in ReplyLens /\ requestStart \in RequestStarts
  BY DEF MockInit, Init
<1>2. ReplyFrameLen \in Nat
  BY <1>1, InitMockInv, HeaderLenFacts DEF MockInv, FixedInv, ReplyFrameLen
<1>3. produced = 0 /\ mockPc = "Accept"
  BY DEF MockInit, Init
<1> QED BY <1>1, <1>2, <1>3 DEF RepliesInv, Replying

\* A message that the mock has read in full is one that the frame contains.
LEMMA FoundByMock ==
  ASSUME IInv, MockInv, Encodable(req.framing, req.len), ~(MockDeclared < 0),
         NEW n \in Int, n = headerLen(mockFraming) + MockDeclared, n <= written
  PROVE  FoundIn(req.framing, mockFraming, req.len, requestStart)
<1>1. /\ req.len \in Int /\ headerLen(req.framing) \in Int /\ written \in Int
      /\ written <= FramedLen /\ FramedLen = req.len + headerLen(req.framing)
  BY LengthFacts DEF IInv, TypeOK, SendRequest, FramedLen
<1>2. headerLen(mockFraming) + MockDeclared <= headerLen(req.framing) + req.len
  BY <1>1
<1> QED BY <1>2 DEF FoundIn, MockDeclared

LEMMA MockKeepsReplies ==
  ASSUME IInv, MockInv, JointInv, RepliesInv, Mock,
         UNCHANGED <<fixedVars, mockFixed>>
  PROVE  RepliesInv'
<1> DEFINE found == FoundIn(req.framing, mockFraming, req.len, requestStart)
<1>1. /\ UNCHANGED <<req, replyLen, requestStart, mockFraming, noReply>>
      /\ ReplyFrameLen' = ReplyFrameLen /\ MockDeclared' = MockDeclared /\ found' = found
  BY DEF fixedVars, mockFixed, ReplyFrameLen, MockDeclared
<1>2. /\ produced \in Nat /\ consumed \in Nat /\ written \in Nat
      /\ headerLen(mockFraming) \in Nat /\ ReplyFrameLen \in Nat
      /\ (mockFraming = "none" <=> headerLen(mockFraming) = 0)
  BY HeaderLenFacts DEF IInv, TypeOK, MockInv, FixedInv, ReplyFrameLen
<1>3. SUFFICES /\ produced' <= ReplyFrameLen
               /\ mockPc' = "write" \/ produced' > 0 => Encodable(mockFraming, replyLen)
               /\ mockFraming # "none" =>
                    /\ mockPc' # "readUntilEOF"
                    /\ mockPc' = "readBody" => ~(MockDeclared < 0)
                    /\ Replying' => found
  BY <1>1 DEF RepliesInv
<1> HIDE DEF found
<1>4. /\ produced <= ReplyFrameLen
      /\ mockPc = "write" \/ produced > 0 => Encodable(mockFraming, replyLen)
      /\ mockFraming # "none" =>
           /\ mockPc # "readUntilEOF"
           /\ mockPc = "readBody" => ~(MockDeclared < 0)
           /\ Replying => found
  BY DEF RepliesInv, found
<1>5. conn = "open" => Encodable(req.framing, req.len)
  BY DEF JointInv, ClientInv
<1>6. CASE MockAccept
  BY <1>4, <1>6 DEF MockAccept, Replying, peerVars
<1>7. CASE MockReadHeader
  <2>1. PICK k \in 1..(headerLen(mockFraming) - consumed) :
          /\ MockRead(k)
          /\ \/ consumed + k < headerLen(mockFraming) /\ UNCHANGED mockPc
             \/ /\ consumed + k = headerLen(mockFraming)
                /\ mockPc' = IF MockDeclared < 0 THEN "fail"
                             ELSE IF MockDeclared = 0 THEN "reply" ELSE "readBody"
    BY <1>7 DEF MockReadHeader
  <2>2. mockPc = "readHeader" /\ UNCHANGED produced /\ conn = "open"
        /\ consumed + k \in Int /\ consumed + k <= written
    BY <1>2, <1>7, <2>1 DEF MockReadHeader, MockRead
  <2>3. CASE UNCHANGED mockPc
    BY <1>4, <2>2, <2>3 DEF Replying
  <2>4. CASE MockDeclared < 0 /\ mockPc' = "fail"
    BY <1>4, <2>2, <2>4 DEF Replying
  <2>5. CASE ~(MockDeclared < 0) /\ MockDeclared = 0 /\ mockPc' = "reply"
             /\ consumed + k = headerLen(mockFraming)
    <3>1. consumed + k = headerLen(mockFraming) + MockDeclared
      BY <1>2, <2>2, <2>5
    <3>2. found
      BY <1>5, <2>2, <2>5, <3>1, FoundByMock DEF found
    <3> QED BY <1>4, <2>2, <2>5, <3>2
  <2>6. CASE ~(MockDeclared < 0) /\ mockPc' = "readBody"
    BY <1>4, <2>2, <2>6 DEF Replying
  <2> QED BY <2>1, <2>3, <2>4, <2>5, <2>6
<1>8. CASE MockReadBody
  <2>1. PICK k \in Int : /\ MockRead(k)
                         /\ mockPc' = IF consumed + k = headerLen(mockFraming) + MockDeclared
                                      THEN "reply" ELSE mockPc
    BY <1>8 DEF MockReadBody
  <2>2. mockPc = "readBody" /\ UNCHANGED produced /\ conn = "open"
        /\ consumed + k \in Int /\ consumed + k <= written
    BY <1>2, <1>8, <2>1 DEF MockReadBody, MockRead
  <2>3. CASE mockPc' = mockPc
    BY <1>4, <2>2, <2>3 DEF Replying
  <2>4. CASE consumed + k = headerLen(mockFraming) + MockDeclared /\ mockPc' = "reply"
    <3>1. mockFraming # "none" => found
      BY <1>4, <1>5, <2>2, <2>4, FoundByMock DEF found
    <3> QED BY <1>4, <2>2, <2>4, <3>1
  <2> QED BY <2>1, <2>3, <2>4
<1>9. CASE MockReadUntilEOF \/ MockReadEOF \/ MockReadTimesOut
  <2>1. UNCHANGED produced /\ MockReading
        /\ mockPc' \in {mockPc, "reply", "fail"}
        /\ (mockPc' = "reply" => mockPc = "readUntilEOF")
    BY <1>9 DEF MockReadUntilEOF, MockReadEOF, MockReadTimesOut, MockReading, MockEndsAtEOF,
                peerVars
  <2> QED BY <1>4, <2>1 DEF Replying, MockReading
<1>10. CASE MockReply \/ MockSleep \/ MockWriteFails
  <2>1. UNCHANGED produced /\ mockPc \in {"reply", "sleep", "write"}
        /\ mockPc' \in {"sleep", "write", "fail", "return"}
        /\ (mockPc' = "write" => Encodable(mockFraming, replyLen))
    BY <1>10 DEF MockReply, MockSleep, MockWriteFails, peerVars
  <2> QED BY <1>4, <2>1 DEF Replying
<1>11. CASE MockWrite
  <2>1. PICK k \in 1..Lesser(ReplyLeft, RecvBuffer - InFlight) : produced' = produced + k
    BY <1>11 DEF MockWrite
  <2>2. RecvBuffer - InFlight \in Int /\ ReplyLeft \in Int /\ ReplyLeft = ReplyFrameLen - produced
    BY <1>2, ConstantsAssumption DEF IInv, TypeOK, InFlight, ReplyLeft
  <2>3. \A a, b \in Int : \A x \in 1..(IF a <= b THEN a ELSE b) : x \in Int /\ x >= 1 /\ x <= a
    OBVIOUS
  <2>4. k \in Int /\ k >= 1 /\ k <= ReplyFrameLen - produced
    BY <2>1, <2>2, <2>3 DEF Lesser
  <2>5. produced' <= ReplyFrameLen
    BY <1>2, <2>1, <2>4
  <2>6. mockPc = "write" /\ mockPc' = "write"
    BY <1>11 DEF MockWrite
  <2> QED BY <1>4, <2>5, <2>6 DEF Replying
<1>12. CASE MockCloseWrite
  BY <1>4, <1>12 DEF MockCloseWrite, Replying
<1>13. CASE MockExit \/ MockRefuses \/ MockLosesClient
  <2>1. UNCHANGED produced /\ (mockPc' = "exited" \/ mockPc' = mockPc)
    BY <1>13 DEF MockExit, MockRefuses, MockLosesClient, peerVars, mockVars
  <2> QED BY <1>4, <2>1 DEF Replying
<1> QED BY <1>6, <1>7, <1>8, <1>9, <1>10, <1>11, <1>12, <1>13 DEF Mock

LEMMA StepReplies ==
  ASSUME IInv, MockInv, JointInv, RepliesInv, [MockNext]_allVars
  PROVE  RepliesInv'
<1>1. CASE Mock
  <2>1. UNCHANGED <<fixedVars, mockFixed>>
    BY <1>1, MockSteps DEF IInv
  <2> QED BY <1>1, <2>1, MockKeepsReplies
<1>2. CASE Client \/ ClientExpire \/ MockExpire \/ MockReturned \/ UNCHANGED allVars
  <2>1. UNCHANGED <<fixedVars, peerVars, mockFixed, mockPc>>
    <3>1. CASE Client \/ ClientExpire
      BY <3>1, ClientFrame DEF Client, ClientExpire, mockVars
    <3>2. CASE MockExpire
      BY <3>2 DEF MockExpire, clientVars
    <3>3. CASE MockReturned \/ UNCHANGED allVars
      BY <3>3 DEF MockReturned, Returned, allVars, vars, mockVars
    <3> QED BY <1>2, <3>1, <3>2, <3>3
  <2> QED BY <2>1 DEF RepliesInv, Replying, fixedVars, peerVars, mockFixed, ReplyFrameLen,
                      MockDeclared
<1> QED BY <1>1, <1>2 DEF MockNext

\* What each end took for a message, it found in a frame of the other's.
LEMMA MisreadingExplains ==
  ASSUME IInv, MockInv, StartInv, RepliesInv
  PROVE  OnlyByMisreading
<1> SUFFICES ASSUME outcome = "ok", mockFraming # req.framing
             PROVE  /\ req.framing # "none" =>
                         FoundIn(mockFraming, req.framing, replyLen, ReplyStart)
                    /\ mockFraming # "none" /\ result.received > 0 =>
                         FoundIn(req.framing, mockFraming, req.len, requestStart)
  BY DEF OnlyByMisreading
<1>1. /\ result.response \in Nat /\ produced \in Nat /\ inRead \in Nat /\ inRead <= produced
      /\ inRead = result.response + headerLen(req.framing) /\ result.received = inRead
      /\ (req.framing # "none" => result.response = Declared)
  BY DEF IInv, TypeOK, Inv, ResponseMatchesWire
<1>2. /\ headerLen(req.framing) \in Nat /\ (req.framing = "none" <=> headerLen(req.framing) = 0)
  BY LengthFacts DEF IInv
<1>3. ASSUME mockFraming # "none", result.received > 0
      PROVE  FoundIn(req.framing, mockFraming, req.len, requestStart)
  <2>1. produced > 0
    BY <1>1, <1>3
  <2> QED BY <1>3, <2>1 DEF RepliesInv, Replying
<1>4. ASSUME req.framing # "none"
      PROVE  FoundIn(mockFraming, req.framing, replyLen, ReplyStart)
  <2>1. produced > 0 /\ ~(Declared < 0) /\ headerLen(req.framing) + Declared <= produced
    BY <1>1, <1>2, <1>4
  <2>2. Encodable(mockFraming, replyLen)
    BY <2>1 DEF RepliesInv
  <2>3. headerLen(mockFraming) \in Nat /\ replyLen \in Nat
    BY HeaderLenFacts DEF MockInv, FixedInv
  <2>4. produced <= headerLen(mockFraming) + replyLen
    BY <2>3 DEF RepliesInv, ReplyFrameLen
  <2>5. headerLen(req.framing) + Declared <= headerLen(mockFraming) + replyLen
    BY <1>1, <1>2, <1>4, <2>1, <2>3, <2>4
  <2>6. Declared = DeclaredLength(req.framing,
                     TakenAsHeader(FrameStart(mockFraming, replyLen, ReplyStart),
                                   headerLen(req.framing)))
    BY DEF Declared, StartInv
  <2> QED BY <2>1, <2>2, <2>5, <2>6 DEF FoundIn
<1> QED BY <1>3, <1>4

LEMMA RepliesInvariance == MockSpec => [](IInv /\ MockInv /\ JointInv /\ RepliesInv)
<1>1. MockInit => JointInv /\ RepliesInv
  BY InitJoint, InitReplies
<1>2. IInv /\ MockInv /\ JointInv /\ RepliesInv /\ [MockNext]_allVars => JointInv' /\ RepliesInv'
  BY StepJoint, StepReplies
<1> QED BY <1>1, <1>2, MockInvariance, PTL DEF MockSpec

\* Two ends of different framings have a good exchange only where each finds a
\* message of its own framing in the other's bytes (Encode and ReadResponse in
\* send.go, main in e2e/mock/main.go), for every request and reply.
THEOREM OnlyByMisreadingHolds == MockSpec => []OnlyByMisreading
<1>1. IInv /\ MockInv /\ JointInv /\ RepliesInv => OnlyByMisreading
  BY MisreadingExplains DEF JointInv
<1> QED BY <1>1, RepliesInvariance, PTL

-----------------------------------------------------------------------------
(* Two headers apart *)

\* A receiver of either length framing takes its first two header bytes from the
\* header of the sender's.
LEMMA FirstTwoBytes ==
  ASSUME NEW f \in Framings \ {"none"}, NEW g \in Framings \ {"none"},
         NEW n \in Nat, NEW start \in [1..4 -> Byte]
  PROVE  LET t == TakenAsHeader(FrameStart(f, n, start), headerLen(g)) IN
           t[1] = Header(f, n)[1] /\ t[2] = Header(f, n)[2]
<1> DEFINE h == Header(f, n)
           s == SubSeq(start, 1, Lesser(n, 4))
           t == TakenAsHeader(FrameStart(f, n, start), headerLen(g))
<1>1. s \in Seq(Int)
  <2>1. Lesser(n, 4) \in Int /\ \A i \in 1..Lesser(n, 4) : start[i] \in Int
    BY DEF Lesser, Byte
  <2> QED BY <2>1, SubSeqProperties
<1>2. h \in Seq(Int) /\ Len(h) >= 2
  <2>1. CASE f = "2byte-binary"
    BY <2>1 DEF Header, BinaryHeader
  <2>2. CASE f = "4digit-ascii"
    BY <2>2 DEF Header, AsciiHeader, Zero
  <2> QED BY <2>1, <2>2 DEF Framings
<1>3. headerLen(g) \in Nat /\ headerLen(g) >= 2
  BY DEF Framings, headerLen
<1>4. t = [i \in 1..headerLen(g) |-> IF i <= Len(h \o s) THEN (h \o s)[i] ELSE 0]
  BY DEF TakenAsHeader, FrameStart
<1> HIDE DEF h, s, t
<1>5. Len(h \o s) >= 2 /\ (h \o s)[1] = h[1] /\ (h \o s)[2] = h[2]
  BY <1>1, <1>2
<1>6. t[1] = h[1] /\ t[2] = h[2]
  BY <1>3, <1>4, <1>5
<1> QED BY <1>6 DEF h, t

\* A binary header of a payload below 11056 bytes (0x2B30, "+0") is no four
\* digits, and an ASCII header read as a binary one declares more than any
\* payload that has an ASCII header.
THEOREM HeadersApart ==
  ASSUME NEW n \in Nat, NEW start \in [1..4 -> Byte]
  PROVE  /\ n < 11056 => ~FoundIn("2byte-binary", "4digit-ascii", n, start)
         /\ ~FoundIn("4digit-ascii", "2byte-binary", n, start)
<1>1. ASSUME n < 11056 PROVE ~FoundIn("2byte-binary", "4digit-ascii", n, start)
  <2> DEFINE t == TakenAsHeader(FrameStart("2byte-binary", n, start), headerLen("4digit-ascii"))
             q == n \div 256
             r == n % 256
  <2>1. t[1] = q % 256 /\ t[2] = r
    <3>1. t[1] = Header("2byte-binary", n)[1] /\ t[2] = Header("2byte-binary", n)[2]
      BY FirstTwoBytes DEF Framings
    <3> QED BY <3>1 DEF Header, BinaryHeader
  <2>2. q \in Nat /\ r \in 0..255 /\ n = 256 * q + r
    BY DivMod
  <2> HIDE DEF t, q, r
  <2>3. q < 43 \/ (q = 43 /\ r < 48)
    BY <1>1, <2>2
  <2>4. q % 256 = q
    BY <2>2, <2>3
  <2>5. Atoi(t) = -1
    <3>1. CASE q < 43
      <4>1. ~Digit(t[1]) /\ t[1] # Plus /\ t[1] # Minus
        BY <2>1, <2>2, <2>4, <3>1 DEF Digit, Zero, Plus, Minus
      <4> QED BY <4>1 DEF Atoi
    <3>2. CASE r < 48
      <4>1. ~Digit(t[2])
        BY <2>1, <2>2, <3>2 DEF Digit, Zero
      <4> QED BY <4>1 DEF Atoi
    <3> QED BY <2>3, <3>1, <3>2
  <2>6. DeclaredLength("4digit-ascii", t) < 0
    BY <2>5 DEF DeclaredLength
  <2> QED BY <2>6 DEF FoundIn, t
<1>2. ~FoundIn("4digit-ascii", "2byte-binary", n, start)
  <2> SUFFICES ASSUME FoundIn("4digit-ascii", "2byte-binary", n, start) PROVE FALSE
    OBVIOUS
  <2> DEFINE t == TakenAsHeader(FrameStart("4digit-ascii", n, start), headerLen("2byte-binary"))
             a == n \div 1000
             b == (n \div 100) % 10
  <2>1. t[1] = 48 + a /\ t[2] = 48 + b
    <3>1. t[1] = Header("4digit-ascii", n)[1] /\ t[2] = Header("4digit-ascii", n)[2]
      BY FirstTwoBytes DEF Framings
    <3> QED BY <3>1 DEF Header, AsciiHeader, Zero
  <2>2. n <= 9999 /\ 2 + DeclaredLength("2byte-binary", t) <= 4 + n
    BY DEF FoundIn, Encodable, MaxDeclared, headerLen
  <2>3. a \in Nat /\ b \in Nat
    OBVIOUS
  <2>4. DeclaredLength("2byte-binary", t) = 256 * t[1] + t[2]
    BY DEF DeclaredLength, BinaryLength
  <2> HIDE DEF t, a, b
  <2> QED BY <2>1, <2>2, <2>3, <2>4
<1> QED BY <1>1, <1>2

\* Two ends with the two length framings never have a good exchange, whatever the
\* payloads begin with, as long as no reply has 11056 bytes or more.
FramedMismatchFails ==
  mockFraming # "none" /\ req.framing # "none" /\ mockFraming # req.framing =>
    outcome # "ok"

\* A framed client always gets an error from a framed mock of the other framing
\* (ReadResponse in send.go), without a word about the payloads' bytes.
THEOREM FramedMismatchFailsHolds ==
  ASSUME \A n \in ReplyLens : n < 11056
  PROVE  MockSpec => []FramedMismatchFails
<1>1. IInv /\ MockInv /\ JointInv /\ RepliesInv => FramedMismatchFails
  <2> SUFFICES ASSUME IInv, MockInv, JointInv, RepliesInv, outcome = "ok",
                      mockFraming # "none", req.framing # "none", mockFraming # req.framing
               PROVE  FALSE
    BY DEF FramedMismatchFails
  <2>1. FoundIn(mockFraming, req.framing, replyLen, ReplyStart)
    BY MisreadingExplains DEF JointInv, OnlyByMisreading
  <2>2. /\ mockFraming \in Framings /\ req.framing \in Framings
        /\ replyLen \in Nat /\ replyLen < 11056
    BY DEF MockInv, FixedInv, SendRequest, RepliesInv
  <2>3. \/ mockFraming = "2byte-binary" /\ req.framing = "4digit-ascii"
        \/ mockFraming = "4digit-ascii" /\ req.framing = "2byte-binary"
    BY <2>2 DEF Framings
  <2> QED BY <2>1, <2>2, <2>3, HeadersApart, MockAssumption
<1> QED BY <1>1, RepliesInvariance, PTL

=============================================================================
