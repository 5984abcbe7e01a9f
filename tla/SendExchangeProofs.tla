------------------------- MODULE SendExchangeProofs -------------------------
(***************************************************************************)
(* Proofs of the safety properties of SendExchange and of its refinement   *)
(* of ExchangeContract, for any requests, headers, buffers and caps.  The  *)
(* inductive invariant is IInv: the step that SendMessage is at fixes what *)
(* has been written and read, and the properties follow from it.           *)
(***************************************************************************)
EXTENDS SendExchange, TLAPS

-----------------------------------------------------------------------------
(* The header codec *)

\* A length and its bytes.
LEMMA DivMod ==
  \A n \in Nat : /\ n \div 256 \in Nat /\ n % 256 \in 0..255
                 /\ n = 256 * (n \div 256) + (n % 256)
OBVIOUS

\* The two halves of a length that fits in 16 bits.
LEMMA Halves ==
  \A n \in Nat : /\ n \div 256 \in Nat /\ n % 256 \in 0..255
                 /\ n = 256 * (n \div 256) + (n % 256)
                 /\ (n \div 256) % 256 \in 0..255
                 /\ n <= 65535 <=> n \div 256 <= 255
                 /\ n \div 256 <= 255 => (n \div 256) % 256 = n \div 256
<1> TAKE n \in Nat
<1>1. n \div 256 \in Nat /\ n % 256 \in 0..255 /\ n = 256 * (n \div 256) + (n % 256)
  BY DivMod
<1>2. \A m \in Nat : m % 256 \in 0..255 /\ (m <= 255 => m % 256 = m)
  OBVIOUS
<1>3. \A m \in Nat, l \in 0..255 : 256 * m + l <= 65535 <=> m <= 255
  OBVIOUS
<1> QED BY <1>1, <1>2, <1>3

\* A header of two bytes gives the length back exactly up to 65535.
LEMMA BinaryRoundTrip ==
  ASSUME NEW n \in Nat
  PROVE  BinaryLength(BinaryHeader(n)) = n <=> n <= 65535
<1>1. BinaryLength(BinaryHeader(n)) = 256 * ((n \div 256) % 256) + (n % 256)
  BY DEF BinaryLength, BinaryHeader
<1>2. \A h, l \in 0..255 : 256 * h + l <= 65535
  OBVIOUS
<1> QED BY <1>1, <1>2, Halves

\* The digits of a length below ten thousand.
LEMMA Digits ==
  \A n \in Nat :
    /\ n \div 1000 \in Nat /\ (n <= 9999 <=> n \div 1000 <= 9)
    /\ (n \div 100) % 10 \in 0..9 /\ (n \div 10) % 10 \in 0..9 /\ n % 10 \in 0..9
    /\ n = 1000 * (n \div 1000) + 100 * ((n \div 100) % 10) + 10 * ((n \div 10) % 10) + (n % 10)
<1> TAKE n \in Nat
<1>1. n \div 1000 \in Nat /\ (n <= 9999 <=> n \div 1000 <= 9)
  OBVIOUS
<1>2. (n \div 100) % 10 \in 0..9 /\ (n \div 10) % 10 \in 0..9 /\ n % 10 \in 0..9
  OBVIOUS
<1>3. n = 1000 * (n \div 1000) + 100 * ((n \div 100) % 10) + 10 * ((n \div 10) % 10) + (n % 10)
  OBVIOUS
<1> QED BY <1>1, <1>2, <1>3

\* Four digits give it back exactly up to 9999; the first byte of a longer one is
\* neither a digit nor a sign.
LEMMA AsciiRoundTrip ==
  ASSUME NEW n \in Nat
  PROVE  Atoi(AsciiHeader(n)) = n <=> n <= 9999
<1> DEFINE h == AsciiHeader(n)
<1>1. /\ h[1] = 48 + (n \div 1000) /\ h[2] = 48 + ((n \div 100) % 10)
      /\ h[3] = 48 + ((n \div 10) % 10) /\ h[4] = 48 + (n % 10)
  BY DEF AsciiHeader, Zero
<1> HIDE DEF h
<1>2. Digit(h[2]) /\ Digit(h[3]) /\ Digit(h[4])
  BY <1>1, Digits DEF Digit, Zero
<1>3. CASE n <= 9999
  <2>1. Digit(h[1])
    BY <1>1, <1>3, Digits DEF Digit, Zero
  <2>2. Atoi(h) = 1000 * (h[1] - 48) + 100 * (h[2] - 48) + 10 * (h[3] - 48) + (h[4] - 48)
    BY <1>1, <1>2, <2>1, Digits DEF Atoi, LastThreeDigits, Zero
  <2>3. Atoi(h) = n
    BY <1>1, <2>2, Digits
  <2> QED BY <1>3, <2>3 DEF h
<1>4. CASE ~(n <= 9999)
  <2>1. h[1] > 57
    BY <1>1, <1>4, Digits
  <2>2. ~Digit(h[1]) /\ h[1] # Plus /\ h[1] # Minus
    BY <1>1, <2>1, Digits DEF Digit, Zero, Plus, Minus
  <2>3. Atoi(h) = -1
    BY <1>2, <2>2 DEF Atoi
  <2> QED BY <1>4, <2>3 DEF h
<1> QED BY <1>3, <1>4

\* Encode takes a payload of any length exactly if its header is read back as
\* that length.
LEMMA LimitIsTightEverywhere ==
  ASSUME NEW f \in Framings \ {"none"}, NEW n \in Nat
  PROVE  Encodable(f, n) <=> DeclaredLength(f, Header(f, n)) = n
<1>1. CASE f = "2byte-binary"
  <2>1. DeclaredLength(f, Header(f, n)) = BinaryLength(BinaryHeader(n))
    BY <1>1 DEF DeclaredLength, Header
  <2>2. Encodable(f, n) <=> n <= 65535
    BY <1>1 DEF Encodable, Framings, MaxDeclared
  <2> QED BY <2>1, <2>2, BinaryRoundTrip
<1>2. CASE f = "4digit-ascii"
  <2>1. DeclaredLength(f, Header(f, n)) = Atoi(AsciiHeader(n))
    BY <1>2 DEF DeclaredLength, Header
  <2>2. Encodable(f, n) <=> n <= 9999
    BY <1>2 DEF Encodable, Framings, MaxDeclared
  <2> QED BY <2>1, <2>2, AsciiRoundTrip
<1> QED BY <1>1, <1>2 DEF Framings

\* Whatever bytes arrive as a header, the length that ReadResponse takes from
\* them is one that the framing can carry.
LEMMA AcceptedLengthFitsEverywhere ==
  ASSUME NEW f \in Framings \ {"none"}, NEW h, \A i \in 1..headerLen(f) : h[i] \in Byte
  PROVE  DeclaredLength(f, h) <= MaxDeclared(f) /\ DeclaredLength(f, h) \in Int
<1>1. CASE f = "2byte-binary"
  <2>1. h[1] \in 0..255 /\ h[2] \in 0..255
    BY <1>1 DEF headerLen, Byte
  <2>2. DeclaredLength(f, h) = 256 * h[1] + h[2] /\ MaxDeclared(f) = 65535
    BY <1>1 DEF DeclaredLength, BinaryLength, MaxDeclared
  <2>3. \A a, b \in 0..255 : 256 * a + b <= 65535 /\ 256 * a + b \in Int
    OBVIOUS
  <2> DEFINE a == h[1]
             b == h[2]
  <2>4. a \in 0..255 /\ b \in 0..255 /\ DeclaredLength(f, h) = 256 * a + b
    BY <2>1, <2>2
  <2> HIDE DEF a, b
  <2> QED BY <2>2, <2>3, <2>4
<1>2. CASE f = "4digit-ascii"
  <2>1. h[1] \in 0..255 /\ h[2] \in 0..255 /\ h[3] \in 0..255 /\ h[4] \in 0..255
    <3>1. headerLen(f) = 4
      BY <1>2 DEF headerLen
    <3> QED BY <3>1 DEF Byte
  <2>2. DeclaredLength(f, h) = Atoi(h) /\ MaxDeclared(f) = 9999
    BY <1>2 DEF DeclaredLength, MaxDeclared
  <2>3. Atoi(h) \in Int /\ Atoi(h) <= 9999
    <3>1. \A a, b, c, d \in 0..9 : /\ 1000 * a + (100 * b + 10 * c + d) <= 9999
                                   /\ 1000 * a + (100 * b + 10 * c + d) \in Int
                                   /\ 100 * b + 10 * c + d \in 0..999
      OBVIOUS
    <3>2. ASSUME NEW b \in 0..255, Digit(b) PROVE b - Zero \in 0..9
      BY <3>2 DEF Digit, Zero
    <3>3. CASE ~(Digit(h[2]) /\ Digit(h[3]) /\ Digit(h[4]))
      BY <3>3 DEF Atoi
    <3>4. CASE Digit(h[2]) /\ Digit(h[3]) /\ Digit(h[4])
      <4>1. LastThreeDigits(h) \in 0..999
        <5>1. h[2] - Zero \in 0..9 /\ h[3] - Zero \in 0..9 /\ h[4] - Zero \in 0..9
          BY <2>1, <3>2, <3>4
        <5> DEFINE x == h[2] - Zero
                   y == h[3] - Zero
                   z == h[4] - Zero
        <5>2. LastThreeDigits(h) = 100 * x + 10 * y + z
          BY DEF LastThreeDigits
        <5> HIDE DEF x, y, z
        <5>3. x \in 0..9 /\ y \in 0..9 /\ z \in 0..9
          BY <5>1 DEF x, y, z
        <5>4. \A b, c, d \in 0..9 : 100 * b + 10 * c + d \in 0..999
          OBVIOUS
        <5> QED BY <5>2, <5>3, <5>4
      <4>2. CASE Digit(h[1])
        <5>1. Atoi(h) = 1000 * (h[1] - Zero) + LastThreeDigits(h)
          BY <3>4, <4>2 DEF Atoi
        <5>2. h[1] - Zero \in 0..9
          BY <2>1, <3>2, <4>2
        <5>3. \A a \in 0..9, t \in 0..999 : 1000 * a + t <= 9999 /\ 1000 * a + t \in Int
          OBVIOUS
        <5> DEFINE a == h[1] - Zero
                   t == LastThreeDigits(h)
        <5>4. a \in 0..9 /\ t \in 0..999 /\ Atoi(h) = 1000 * a + t
          BY <4>1, <5>1, <5>2
        <5> HIDE DEF a, t
        <5> QED BY <5>3, <5>4
      <4>3. CASE ~Digit(h[1])
        <5>1. Atoi(h) \in {LastThreeDigits(h), -LastThreeDigits(h), -1}
          BY <3>4, <4>3 DEF Atoi
        <5> QED BY <4>1, <5>1, SMTT(20)
      <4> QED BY <4>2, <4>3
    <3> QED BY <3>3, <3>4
  <2> QED BY <2>2, <2>3
<1> QED BY <1>1, <1>2 DEF Framings

-----------------------------------------------------------------------------
(* Lengths *)

\* Only "none" has no header.
LEMMA HeaderLenFacts ==
  ASSUME NEW f \in Framings
  PROVE  /\ headerLen(f) \in Nat
         /\ f = "none" <=> headerLen(f) = 0
BY DEF Framings, headerLen

\* What a framed reply declares is an integer, negative for a refused header.
LEMMA DeclaredFacts ==
  ASSUME TypeOK, req.framing # "none"
  PROVE  Declared \in Int
<1>1. header \in Seq(Byte) /\ Len(header) = headerLen(req.framing)
  BY DEF TypeOK
<1>2. \A i \in 1..Len(header) : header[i] \in Int
  <2>1. Byte \subseteq Int
    BY DEF Byte
  <2>2. \A i \in 1..Len(header) : header[i] \in Byte
    BY <1>1
  <2> QED
    BY <2>1, <2>2
<1>3. CASE req.framing = "2byte-binary"
  <2>1. headerLen("2byte-binary") = 2
    BY DEF headerLen
  <2>2. header[1] \in Int /\ header[2] \in Int
    BY <1>1, <1>2, <1>3, <2>1
  <2> QED
    BY <1>3, <2>2 DEF Declared, DeclaredLength, BinaryLength
<1>4. CASE req.framing = "4digit-ascii"
  <2>1. headerLen("4digit-ascii") = 4
    BY DEF headerLen
  <2>2. header[1] \in Int /\ header[2] \in Int /\ header[3] \in Int /\ header[4] \in Int
    BY <1>1, <1>2, <1>4, <2>1
  <2> QED
    BY <1>4, <2>2 DEF Declared, DeclaredLength, Atoi, LastThreeDigits, Zero
<1> QED
  BY <1>3, <1>4 DEF TypeOK, SendRequest, Framings

\* SendMessage starts with nothing written, read or returned.
LEMMA InitInv == Init => IInv
<1> SUFFICES ASSUME Init PROVE IInv
  OBVIOUS
<1>1. /\ req \in SendRequest /\ rest \in Nat
      /\ header \in Seq(Byte) /\ Len(header) = headerLen(req.framing)
  BY ConstantsAssumption DEF Init
<1>2. req.len \in Nat /\ headerLen(req.framing) \in Nat
  BY <1>1, HeaderLenFacts DEF SendRequest
<1>3. TypeOK
  <2>1. pc \in Steps /\ outcome \in Outcomes
    BY DEF Init, Steps, Outcomes
  <2>2. result \in [response : Nat, sent : Nat, received : Nat]
    BY DEF Init, NoResult
  <2>3. 0 <= FramedLen /\ 0 <= ReplyBytes
    BY <1>1, <1>2 DEF FramedLen, ReplyBytes
  <2>4. /\ conn \in {"none", "open", "closed"}
        /\ deadline \in {"none", "armed", "expired"}
        /\ peer \in {"open", "closed", "reset", "lost"}
        /\ halfClosed \in BOOLEAN
    BY DEF Init
  <2>5. /\ written \in Nat /\ consumed \in Nat
        /\ inRead \in Nat /\ produced \in Nat /\ buf \in Nat
        /\ consumed <= written /\ written <= FramedLen
        /\ inRead <= produced /\ produced <= ReplyBytes
    BY <2>3 DEF Init
  <2> QED
    BY <1>1, <2>1, <2>2, <2>4, <2>5 DEF TypeOK
<1>4. Inv
  BY DEF Init, Inv, Reading
<1>5. UnframedCapExact
  BY ConstantsAssumption DEF Init, UnframedCapExact, NoResult
<1>6. WholeRequestFirst
  BY DEF Init, WholeRequestFirst
<1>7. ResponseMatchesWire /\ UnframedResponseComplete
  BY DEF Init, ResponseMatchesWire, UnframedResponseComplete
<1>8. ErrorNamesItsCause
  BY DEF Init, ErrorNamesItsCause
<1> QED
  BY <1>3, <1>4, <1>5, <1>6, <1>7, <1>8 DEF IInv

-----------------------------------------------------------------------------
(* What a step needs to show, by the way it ends *)

\* What Init fixed, and every length derived from it, stays.
LEMMA FixedFacts ==
  ASSUME UNCHANGED fixedVars
  PROVE  /\ req' = req /\ header' = header /\ rest' = rest
         /\ FramedLen' = FramedLen /\ Declared' = Declared
         /\ ReplyBytes' = ReplyBytes
BY DEF fixedVars, FramedLen, Declared, ReplyBytes

\* The lengths of a frame and of a reply are natural numbers.
LEMMA LengthFacts ==
  ASSUME TypeOK
  PROVE  /\ headerLen(req.framing) \in Nat
         /\ req.framing = "none" <=> headerLen(req.framing) = 0
         /\ FramedLen \in Nat /\ ReplyBytes \in Nat
<1>1. req.framing \in Framings /\ req.len \in Nat /\ rest \in Nat
  BY DEF TypeOK, SendRequest
<1> QED
  BY <1>1, HeaderLenFacts DEF FramedLen, ReplyBytes

\* While the exchange is pending, only the position in the code and in the two
\* streams matters.
LEMMA PendingStep ==
  ASSUME IInv, outcome = "pending", UNCHANGED returnVars,
         TypeOK', Inv', WholeRequestFirst'
  PROVE  IInv'
<1>1. outcome' = "pending" /\ result' = NoResult
  BY DEF IInv, Inv, returnVars
<1>2. ResponseMatchesWire' /\ UnframedResponseComplete'
  BY <1>1 DEF ResponseMatchesWire, UnframedResponseComplete
<1>3. UnframedCapExact'
  BY <1>1, ConstantsAssumption DEF UnframedCapExact, NoResult
<1>4. ErrorNamesItsCause'
  BY <1>1 DEF ErrorNamesItsCause
<1> QED
  BY <1>2, <1>3, <1>4 DEF IInv

\* An error leaves the SendResult empty: what remains is that it is the right
\* error, and that no byte was read too early.
LEMMA ErrorStep ==
  ASSUME IInv, pc # "done", NEW o \in Outcomes \ {"pending", "ok"},
         ReturnError(o),
         UNCHANGED <<fixedVars, deadline, written, halfClosed, peerVars>>,
         inRead' \in Nat, inRead' <= produced, buf' = buf,
         WholeRequestFirst', ErrorNamesItsCause',
         o = "too_large" => req.framing = "none" /\ produced > MaxUnframed
  PROVE  IInv'
<1>1. /\ pc' = "done" /\ outcome' = o /\ result' = NoResult
      /\ conn' = IF conn = "open" THEN "closed" ELSE conn
  BY DEF ReturnError, Return
<1>2. /\ req' = req /\ header' = header /\ rest' = rest
      /\ FramedLen' = FramedLen /\ ReplyBytes' = ReplyBytes
  BY FixedFacts
<1>3. /\ deadline' = deadline /\ written' = written /\ halfClosed' = halfClosed
      /\ peer' = peer /\ consumed' = consumed /\ produced' = produced
  BY DEF peerVars
<1>4. TypeOK'
  <2>1. pc' \in Steps /\ outcome' \in Outcomes
    BY <1>1 DEF Steps
  <2>2. result' \in [response : Nat, sent : Nat, received : Nat]
    BY <1>1 DEF NoResult
  <2>3. conn' \in {"none", "open", "closed"}
    BY <1>1 DEF IInv, TypeOK
  <2> QED
    BY <1>2, <1>3, <2>1, <2>2, <2>3 DEF IInv, TypeOK
<1>5. Inv'
  BY <1>1, <1>2, <1>3 DEF IInv, Inv, TypeOK, Reading
<1>6. UnframedCapExact'
  BY <1>1, <1>2, <1>3, ConstantsAssumption DEF UnframedCapExact, NoResult
<1>7. ResponseMatchesWire' /\ UnframedResponseComplete'
  BY <1>1 DEF ResponseMatchesWire, UnframedResponseComplete
<1> QED
  BY <1>4, <1>5, <1>6, <1>7 DEF IInv

\* A response is returned with the connection open.
LEMMA ResponseStep ==
  ASSUME IInv, conn = "open", NEW n \in Nat, ReturnResponse(n),
         UNCHANGED <<fixedVars, deadline, written, halfClosed, peerVars>>,
         inRead' \in Nat, inRead' <= produced, buf' \in Nat,
         written = FramedLen, req.framing = "none" => halfClosed,
         n + headerLen(req.framing) = inRead',
         req.framing # "none" => n = Declared,
         req.framing = "none" =>
           /\ n <= MaxUnframed
           /\ \/ peer = "closed" /\ n = produced
              \/ (deadline = "expired" \/ peer = "lost") /\ n > 0
  PROVE  IInv'
<1>1. /\ pc' = "done" /\ outcome' = "ok" /\ conn' = "closed"
      /\ result' = [response |-> n, sent |-> FramedLen,
                    received |-> n + headerLen(req.framing)]
  BY DEF ReturnResponse, Return
<1>2. /\ req' = req /\ header' = header /\ rest' = rest
      /\ FramedLen' = FramedLen /\ ReplyBytes' = ReplyBytes /\ Declared' = Declared
  BY FixedFacts
<1>3. /\ deadline' = deadline /\ written' = written /\ halfClosed' = halfClosed
      /\ peer' = peer /\ consumed' = consumed /\ produced' = produced
  BY DEF peerVars
<1>4. TypeOK'
  <2>1. pc' \in Steps /\ outcome' \in Outcomes
    BY <1>1 DEF Steps, Outcomes
  <2>2. result' \in [response : Nat, sent : Nat, received : Nat]
    BY <1>1, LengthFacts DEF IInv
  <2> QED
    BY <1>1, <1>2, <1>3, <2>1, <2>2 DEF IInv, TypeOK
<1>5. Inv'
  BY <1>1, <1>2, <1>3 DEF IInv, Inv, TypeOK, Reading
<1>6. WholeRequestFirst'
  BY <1>2, <1>3 DEF WholeRequestFirst
<1>7. ResponseMatchesWire'
  BY <1>1, <1>2, <1>3 DEF ResponseMatchesWire
<1>8. UnframedResponseComplete'
  BY <1>1, <1>2, <1>3 DEF UnframedResponseComplete
<1>9. UnframedCapExact'
  BY <1>1, <1>2 DEF UnframedCapExact
<1>10. ErrorNamesItsCause'
  BY <1>1 DEF ErrorNamesItsCause
<1> QED
  BY <1>4, <1>5, <1>6, <1>7, <1>8, <1>9, <1>10 DEF IInv

-----------------------------------------------------------------------------
(* Every step keeps the invariant *)

\* The steps that leave the exchange pending and read nothing: one of the
\* positions moves on, and none moves back.
LEMMA ConnectSteps ==
  ASSUME IInv, RejectRequest \/ Encode \/ DialFails \/ Dial
  PROVE  IInv'
<1> USE DEF IInv
<1>1. CASE RejectRequest
  <2>1. PICK o \in {"address", "encode"} : ReturnError(o)
    BY <1>1 DEF RejectRequest
  <2>2. o \in Outcomes \ {"pending", "ok"} /\ outcome' = o
    BY <2>1 DEF Outcomes, ReturnError, Return
  <2>3. WholeRequestFirst' /\ ErrorNamesItsCause'
    BY <1>1, <2>1, <2>2, FixedFacts
       DEF RejectRequest, Inv, WholeRequestFirst, ErrorNamesItsCause, replyVars
  <2> QED
    BY <1>1, <2>1, <2>2, <2>3, ErrorStep DEF RejectRequest, replyVars, TypeOK
<1>2. CASE DialFails
  <2>1. outcome' = "connect" /\ "connect" \in Outcomes \ {"pending", "ok"}
    BY <1>2 DEF DialFails, Outcomes, ReturnError, Return
  <2>2. WholeRequestFirst' /\ ErrorNamesItsCause'
    BY <1>2, <2>1, FixedFacts
       DEF DialFails, Inv, WholeRequestFirst, ErrorNamesItsCause, replyVars
  <2> QED
    BY <1>2, <2>1, <2>2, ErrorStep DEF DialFails, replyVars, TypeOK
<1>3. CASE Encode
  <2>1. outcome = "pending" /\ UNCHANGED returnVars
    BY <1>3 DEF Encode, Inv
  <2>2. TypeOK'
    BY <1>3, FixedFacts DEF Encode, TypeOK, Steps, replyVars, returnVars, peerVars
  <2>3. Inv'
    BY <1>3, FixedFacts DEF Encode, Inv, replyVars, returnVars, Reading
  <2>4. WholeRequestFirst'
    BY <1>3, FixedFacts DEF Encode, WholeRequestFirst, replyVars, returnVars
  <2> QED
    BY <2>1, <2>2, <2>3, <2>4, PendingStep
<1>4. CASE Dial
  <2>1. outcome = "pending" /\ UNCHANGED returnVars
    BY <1>4 DEF Dial, Inv
  <2>2. TypeOK'
    BY <1>4, FixedFacts
       DEF Dial, DeadlineOf, TypeOK, Steps, replyVars, returnVars, peerVars
  <2>3. Inv'
    BY <1>4, FixedFacts DEF Dial, DeadlineOf, Inv, replyVars, returnVars, Reading
  <2>4. WholeRequestFirst'
    BY <1>4, FixedFacts DEF Dial, WholeRequestFirst, replyVars, returnVars
  <2> QED
    BY <2>1, <2>2, <2>3, <2>4, PendingStep
<1> QED
  BY <1>1, <1>2, <1>3, <1>4

\* So do the steps of writeAll and CloseWrite.
LEMMA WriteSteps ==
  ASSUME IInv,
         WriteSome \/ WriteFails \/ RequestWritten \/ CloseWrite \/ CloseWriteFails
  PROVE  IInv'
<1> USE DEF IInv
<1>1. CASE WriteSome
  <2>1. PICK k \in 1..Lesser(Remaining, SendBuffer - (written - consumed)) :
          written' = written + k
    BY <1>1 DEF WriteSome
  <2>2. k \in Nat /\ written' <= FramedLen
    BY <2>1, LengthFacts, ConstantsAssumption DEF Lesser, Remaining, TypeOK
  <2>3. outcome = "pending" /\ UNCHANGED returnVars
    BY <1>1 DEF WriteSome, Inv
  <2>4. TypeOK'
    BY <1>1, <2>1, <2>2, FixedFacts DEF WriteSome, TypeOK, replyVars, returnVars, peerVars
  <2>5. Inv'
    BY <1>1, <2>1, FixedFacts DEF WriteSome, Inv, replyVars, returnVars, Reading
  <2>6. WholeRequestFirst'
    BY <1>1, <2>3, FixedFacts DEF WriteSome, Inv, WholeRequestFirst, replyVars, returnVars
  <2> QED
    BY <2>3, <2>4, <2>5, <2>6, PendingStep
<1>2. CASE WriteFails
  <2>1. outcome' = "send" /\ "send" \in Outcomes \ {"pending", "ok"}
    BY <1>2 DEF WriteFails, Outcomes, ReturnError, Return
  <2>2. written' < FramedLen'
    BY <1>2, FixedFacts, LengthFacts DEF WriteFails, FrameWritten, TypeOK
  <2>3. WholeRequestFirst' /\ ErrorNamesItsCause'
    BY <1>2, <2>1, <2>2, FixedFacts
       DEF WriteFails, Inv, WholeRequestFirst, ErrorNamesItsCause, replyVars
  <2> QED
    BY <1>2, <2>1, <2>3, ErrorStep DEF WriteFails, replyVars, TypeOK
<1>3. CASE RequestWritten
  <2>1. outcome = "pending" /\ UNCHANGED returnVars
    BY <1>3 DEF RequestWritten, Inv
  <2>2. TypeOK'
    BY <1>3, FixedFacts DEF RequestWritten, TypeOK, Steps, replyVars, returnVars, peerVars
  <2>3. Inv'
    BY <1>3, FixedFacts, LengthFacts
       DEF RequestWritten, FrameWritten, Inv, replyVars, returnVars, Reading
  <2>4. WholeRequestFirst'
    BY <1>3, <2>1, FixedFacts DEF RequestWritten, Inv, WholeRequestFirst, replyVars, returnVars
  <2> QED
    BY <2>1, <2>2, <2>3, <2>4, PendingStep
<1>4. CASE CloseWrite
  <2>1. outcome = "pending" /\ UNCHANGED returnVars
    BY <1>4 DEF CloseWrite, Inv
  <2>2. TypeOK'
    BY <1>4, FixedFacts DEF CloseWrite, TypeOK, Steps, replyVars, returnVars, peerVars
  <2>3. Inv'
    BY <1>4, FixedFacts, ConstantsAssumption
       DEF CloseWrite, Inv, replyVars, returnVars, Reading
  <2>4. WholeRequestFirst'
    BY <1>4, <2>1, FixedFacts DEF CloseWrite, Inv, WholeRequestFirst, replyVars, returnVars
  <2> QED
    BY <2>1, <2>2, <2>3, <2>4, PendingStep
<1>5. CASE CloseWriteFails
  <2>1. outcome' = "close_write" /\ "close_write" \in Outcomes \ {"pending", "ok"}
    BY <1>5 DEF CloseWriteFails, Outcomes, ReturnError, Return
  <2>2. WholeRequestFirst' /\ ErrorNamesItsCause'
    BY <1>5, <2>1, FixedFacts
       DEF CloseWriteFails, Broken, Inv, WholeRequestFirst, ErrorNamesItsCause, replyVars, peerVars
  <2> QED
    BY <1>5, <2>1, <2>2, ErrorStep DEF CloseWriteFails, replyVars, TypeOK
<1> QED
  BY <1>1, <1>2, <1>3, <1>4, <1>5

\* The peer and the timer only move the peer's counters, or end its side.
LEMMA EnvironmentSteps ==
  ASSUME IInv, Expire \/ Peer
  PROVE  IInv'
<1> USE DEF IInv
<1>1. /\ conn = "open" /\ outcome = "pending"
      /\ UNCHANGED <<fixedVars, pc, conn, written, halfClosed, replyVars, returnVars>>
  BY DEF Expire, Peer, PeerRead, PeerWrite, PeerClose, PeerReset, NetworkTimesOut, Inv
<1>2. /\ deadline' \in {"none", "armed", "expired"}
      /\ deadline' # "none" => req.timeout > 0
  BY DEF Expire, Peer, PeerRead, PeerWrite, PeerClose, PeerReset, NetworkTimesOut, peerVars, TypeOK, Inv
<1>3. /\ peer' \in {"open", "closed", "reset", "lost"}
      /\ consumed' \in Nat /\ produced' \in Nat
      /\ consumed' <= written /\ inRead <= produced' /\ produced' <= ReplyBytes
  <2>1. CASE Expire \/ PeerClose \/ PeerReset \/ NetworkTimesOut
    BY <2>1 DEF Expire, PeerClose, PeerReset, NetworkTimesOut, peerVars, TypeOK
  <2>2. CASE PeerRead
    BY <2>2 DEF PeerRead, TypeOK
  <2>3. CASE PeerWrite
    <3>1. PICK k \in 1..Lesser(ReplyBytes - produced, RecvBuffer - InFlight) :
            produced' = produced + k
      BY <2>3 DEF PeerWrite
    <3> QED
      BY <2>3, <3>1, LengthFacts, ConstantsAssumption
         DEF PeerWrite, Lesser, InFlight, TypeOK
  <2> QED
    BY <2>1, <2>2, <2>3 DEF Peer
<1>4. TypeOK'
  BY <1>1, <1>2, <1>3, FixedFacts DEF TypeOK, replyVars, returnVars
<1>5. Inv'
  BY <1>1, <1>2, FixedFacts DEF Inv, replyVars, returnVars, Reading
<1>6. WholeRequestFirst'
  BY <1>1, FixedFacts DEF WholeRequestFirst, replyVars, returnVars
<1> QED
  BY <1>1, <1>4, <1>5, <1>6, PendingStep

\* Reading a header ends in its error, an empty body, or before a body.
LEMMA ReadHeaderStep ==
  ASSUME IInv, ReadHeader
  PROVE  IInv'
<1> USE DEF IInv
<1>1. PICK k \in 1..(headerLen(req.framing) - inRead) :
        /\ Read(k)
        /\ \/ /\ inRead + k < headerLen(req.framing)
              /\ UNCHANGED <<pc, conn, returnVars>>
           \/ /\ inRead + k = headerLen(req.framing)
              /\ Declared < 0
              /\ ReturnError("header")
           \/ /\ inRead + k = headerLen(req.framing)
              /\ Declared = 0
              /\ ReturnResponse(0)
           \/ /\ inRead + k = headerLen(req.framing)
              /\ Declared > 0
              /\ pc' = "readBody"
              /\ UNCHANGED <<conn, returnVars>>
  <2>1. Declared \in Int
    BY DeclaredFacts DEF ReadHeader, Inv
  <2> QED
    BY <2>1 DEF ReadHeader, HeaderRefused
<1>2. /\ pc = "readHeader" /\ conn = "open" /\ outcome = "pending"
      /\ written = FramedLen /\ req.framing # "none" /\ buf = 0
      /\ UNCHANGED <<fixedVars, deadline, written, halfClosed, buf, peerVars>>
  BY DEF ReadHeader, Inv, Reading
<1>3. k \in Nat /\ inRead' = inRead + k /\ inRead' <= produced /\ inRead' \in Nat
  BY <1>1, LengthFacts DEF Read, InFlight, TypeOK
<1>4. WholeRequestFirst'
  BY <1>2, FixedFacts DEF WholeRequestFirst
<1>5. CASE inRead + k < headerLen(req.framing) /\ UNCHANGED <<pc, conn, returnVars>>
  <2>1. TypeOK'
    BY <1>2, <1>3, <1>5, FixedFacts DEF TypeOK, returnVars, peerVars
  <2>2. Inv'
    BY <1>2, <1>3, <1>5, FixedFacts DEF Inv, returnVars, Reading
  <2> QED
    BY <1>2, <1>4, <1>5, <2>1, <2>2, PendingStep
<1>6. CASE ReturnError("header")
  <2>1. outcome' = "header" /\ "header" \in Outcomes \ {"pending", "ok"}
    BY <1>6 DEF Outcomes, ReturnError, Return
  <2>2. ErrorNamesItsCause'
    BY <2>1 DEF ErrorNamesItsCause
  <2> QED
    BY <1>2, <1>3, <1>4, <1>6, <2>1, <2>2, ErrorStep
<1>7. CASE /\ inRead + k = headerLen(req.framing)
           /\ Declared = 0
           /\ ReturnResponse(0)
  BY <1>2, <1>3, <1>7, ResponseStep
<1>8. CASE /\ inRead + k = headerLen(req.framing)
           /\ Declared > 0
           /\ pc' = "readBody"
           /\ UNCHANGED <<conn, returnVars>>
  <2>1. TypeOK'
    BY <1>2, <1>3, <1>8, FixedFacts DEF TypeOK, Steps, returnVars, peerVars
  <2>2. Inv'
    BY <1>2, <1>3, <1>8, FixedFacts DEF Inv, returnVars, Reading
  <2> QED
    BY <1>2, <1>4, <1>8, <2>1, <2>2, PendingStep
<1> QED
  BY <1>1, <1>5, <1>6, <1>7, <1>8

\* Reading a body ends exactly at its declared length.
LEMMA ReadBodyStep ==
  ASSUME IInv, ReadBody
  PROVE  IInv'
<1> USE DEF IInv
<1>1. PICK k \in 1..Lesser(InFlight, Declared - buf) :
        /\ Read(k)
        /\ buf' = buf + k
        /\ \/ buf + k < Declared /\ UNCHANGED <<pc, conn, returnVars>>
           \/ buf + k = Declared /\ ReturnResponse(buf + k)
  BY DEF ReadBody
<1>2. /\ pc = "readBody" /\ conn = "open" /\ outcome = "pending"
      /\ written = FramedLen /\ req.framing # "none"
      /\ inRead = headerLen(req.framing) + buf
      /\ UNCHANGED <<fixedVars, deadline, written, halfClosed, peerVars>>
  BY DEF ReadBody, Inv, Reading
<1>3. Declared \in Int
  BY <1>2, DeclaredFacts
<1>4. /\ k \in Nat /\ buf' = buf + k /\ inRead' = inRead + k
      /\ inRead' <= produced /\ inRead' \in Nat /\ buf' \in Nat
  BY <1>1, <1>3 DEF Read, InFlight, Lesser, TypeOK
<1>5. CASE buf + k < Declared /\ UNCHANGED <<pc, conn, returnVars>>
  <2>1. TypeOK'
    BY <1>2, <1>4, <1>5, FixedFacts DEF TypeOK, returnVars, peerVars
  <2>2. Inv'
    <3>1. inRead' = headerLen(req.framing) + buf' /\ buf' < Declared'
      BY <1>2, <1>4, <1>5, FixedFacts, LengthFacts, SMTT(20) DEF TypeOK
    <3>2. /\ pc' = "readBody" /\ conn' = "open" /\ outcome' = "pending"
          /\ deadline' = deadline /\ written' = FramedLen'
          /\ req' = req /\ result' = result
      BY <1>2, <1>5, FixedFacts DEF returnVars
    <3> QED
      BY <1>2, <1>5, <3>1, <3>2 DEF Inv, Reading
  <2>3. WholeRequestFirst'
    BY <1>2, FixedFacts DEF WholeRequestFirst
  <2> QED
    BY <1>2, <1>5, <2>1, <2>2, <2>3, PendingStep
<1>6. CASE buf + k = Declared /\ ReturnResponse(buf + k)
  <2>1. buf + k \in Nat /\ (buf + k) + headerLen(req.framing) = inRead'
    BY <1>2, <1>4, LengthFacts, SMTT(20) DEF TypeOK
  <2> QED
    BY <1>2, <1>4, <1>6, <2>1, ResponseStep
<1> QED
  BY <1>1, <1>5, <1>6

\* Reading a reply without a header goes on up to the cap.
LEMMA ReadUntilEOFStep ==
  ASSUME IInv, ReadUntilEOF
  PROVE  IInv'
<1> USE DEF IInv
<1>1. PICK k \in 1..Lesser(InFlight, ReadChunk) :
        /\ Read(k)
        /\ \/ TooLarge(k) /\ ReturnError("too_large") /\ UNCHANGED buf
           \/ ~TooLarge(k) /\ buf' = buf + k /\ UNCHANGED <<pc, conn, returnVars>>
  BY DEF ReadUntilEOF
<1>2. /\ pc = "readUntilEOF" /\ conn = "open" /\ outcome = "pending"
      /\ written = FramedLen /\ halfClosed /\ req.framing = "none" /\ inRead = buf
      /\ UNCHANGED <<fixedVars, deadline, written, halfClosed, peerVars>>
  BY DEF ReadUntilEOF, Inv, Reading
<1>3. k \in Nat /\ inRead' = inRead + k /\ inRead' <= produced /\ inRead' \in Nat
  BY <1>1, ConstantsAssumption DEF Read, InFlight, Lesser, TypeOK
<1>4. WholeRequestFirst'
  BY <1>2, FixedFacts DEF WholeRequestFirst
<1>5. CASE TooLarge(k) /\ ReturnError("too_large") /\ UNCHANGED buf
  <2>1. outcome' = "too_large" /\ "too_large" \in Outcomes \ {"pending", "ok"}
    BY <1>5 DEF Outcomes, ReturnError, Return
  <2>2. ErrorNamesItsCause'
    BY <2>1 DEF ErrorNamesItsCause
  <2>3. produced > MaxUnframed
    BY <1>2, <1>3, <1>5, ConstantsAssumption DEF TooLarge, TypeOK
  <2> QED
    BY <1>2, <1>3, <1>4, <1>5, <2>1, <2>2, <2>3, ErrorStep
<1>6. CASE ~TooLarge(k) /\ buf' = buf + k /\ UNCHANGED <<pc, conn, returnVars>>
  <2>1. TypeOK'
    BY <1>2, <1>3, <1>6, FixedFacts DEF TypeOK, returnVars, peerVars
  <2>2. Inv'
    <3>1. buf + k <= MaxUnframed /\ inRead' = buf'
      BY <1>2, <1>3, <1>6, ConstantsAssumption DEF TooLarge, TypeOK
    <3>2. /\ pc' = "readUntilEOF" /\ conn' = "open" /\ outcome' = "pending"
          /\ deadline' = deadline /\ written' = FramedLen' /\ halfClosed'
          /\ req' = req /\ result' = result
      BY <1>2, <1>6, FixedFacts DEF returnVars
    <3> QED
      BY <1>2, <1>6, <3>1, <3>2 DEF Inv, Reading
  <2> QED
    BY <1>2, <1>4, <1>6, <2>1, <2>2, PendingStep
<1> QED
  BY <1>1, <1>5, <1>6 DEF TooLarge

\* The three ways in which Read returns without bytes.
LEMMA ReadEndSteps ==
  ASSUME IInv, ReadTimesOut \/ ReadEOF \/ ReadReset
  PROVE  IInv'
<1> USE DEF IInv
<1>1. /\ Reading /\ conn = "open" /\ outcome = "pending" /\ pc # "done"
      /\ inRead \in Nat /\ inRead <= produced /\ buf \in Nat
      /\ UNCHANGED <<fixedVars, deadline, written, halfClosed, replyVars, peerVars>>
  BY DEF ReadTimesOut, ReadEOF, ReadReset, Reading, Inv, TypeOK
<1>2. written = FramedLen /\ (req.framing = "none" => halfClosed)
  BY DEF ReadTimesOut, ReadEOF, ReadReset, Reading, Inv
<1>3. WholeRequestFirst'
  BY <1>1, <1>2, FixedFacts DEF WholeRequestFirst
<1>4. ASSUME pc = "readUntilEOF", ReturnResponse(buf),
             \/ peer = "closed" /\ produced = inRead
             \/ (deadline = "expired" \/ peer = "lost") /\ buf > 0
      PROVE  IInv'
  <2>1. req.framing = "none" /\ inRead = buf /\ buf <= MaxUnframed
    BY <1>4 DEF Inv
  <2> QED
    BY <1>1, <1>2, <1>4, <2>1, LengthFacts, ResponseStep DEF replyVars
<1>5. ASSUME NEW o \in {"timeout", "receive", "header_eof", "body_eof"},
             ReturnError(o), ErrorNamesItsCause'
      PROVE  IInv'
  <2>1. o \in Outcomes \ {"pending", "ok"} /\ o # "too_large"
    BY DEF Outcomes
  <2> QED
    BY <1>1, <1>3, <1>5, <2>1, ErrorStep DEF replyVars
<1>6. CASE ReadTimesOut
  <2>1. CASE KeepsPartial /\ ReturnResponse(buf)
    BY <1>4, <1>6, <2>1 DEF ReadTimesOut, TimeoutError, KeepsPartial
  <2>2. CASE ReturnError(ReadError(TRUE))
    <3>1. ReturnError("timeout") /\ outcome' = "timeout"
      BY <2>2 DEF ReadError, ReturnError, Return
    <3>2. ErrorNamesItsCause'
      BY <1>1, <1>6, <3>1, FixedFacts
         DEF ReadTimesOut, TimeoutError, ErrorNamesItsCause, Inv, peerVars
    <3> QED
      BY <1>5, <3>1, <3>2
  <2> QED
    BY <1>6, <2>1, <2>2 DEF ReadTimesOut
<1>7. CASE ReadEOF
  <2>1. peer = "closed" /\ produced = inRead
    BY <1>7 DEF ReadEOF, InFlight, TypeOK
  <2>2. CASE EndsAtEOF /\ ReturnResponse(buf)
    BY <1>4, <2>1, <2>2 DEF EndsAtEOF
  <2>3. CASE pc = "readHeader" /\ ReturnError("header_eof")
    <3>1. outcome' = "header_eof" /\ inRead < headerLen(req.framing)
      BY <2>3 DEF ReturnError, Return, Inv
    <3>2. ErrorNamesItsCause'
      BY <1>1, <2>1, <3>1, FixedFacts DEF ErrorNamesItsCause, peerVars
    <3> QED
      BY <1>5, <2>3, <3>2
  <2>4. CASE pc = "readBody" /\ ReturnError("body_eof")
    <3>1. /\ outcome' = "body_eof"
          /\ req.framing # "none" /\ inRead = headerLen(req.framing) + buf
          /\ buf < Declared
      BY <2>4 DEF ReturnError, Return, Inv
    <3>2. Declared \in Int
      BY <3>1, DeclaredFacts
    <3>3. /\ produced >= headerLen(req.framing)
          /\ produced < headerLen(req.framing) + Declared
      BY <1>1, <2>1, <3>1, <3>2, LengthFacts
    <3>4. ErrorNamesItsCause'
      BY <1>1, <2>1, <3>1, <3>3, FixedFacts DEF ErrorNamesItsCause, peerVars
    <3> QED
      BY <1>5, <2>4, <3>4
  <2> QED
    BY <1>7, <2>2, <2>3, <2>4 DEF ReadEOF
<1>8. CASE ReadReset
  <2>1. ReturnError("receive") /\ outcome' = "receive" /\ peer = "reset"
    BY <1>8 DEF ReadReset, ReadError, ReturnError, Return
  <2>2. ErrorNamesItsCause'
    BY <1>1, <2>1, FixedFacts DEF ErrorNamesItsCause, peerVars
  <2> QED
    BY <1>5, <2>1, <2>2
<1> QED
  BY <1>6, <1>7, <1>8

\* Every step keeps IInv.
LEMMA StepInv == IInv /\ [Next]_vars => IInv'
<1> SUFFICES ASSUME IInv, [Next]_vars PROVE IInv'
  OBVIOUS
<1>1. CASE RejectRequest \/ Encode \/ DialFails \/ Dial
  BY <1>1, ConnectSteps
<1>2. CASE WriteSome \/ WriteFails \/ RequestWritten \/ CloseWrite \/ CloseWriteFails
  BY <1>2, WriteSteps
<1>3. CASE ReadHeader
  BY <1>3, ReadHeaderStep
<1>4. CASE ReadBody
  BY <1>4, ReadBodyStep
<1>5. CASE ReadUntilEOF
  BY <1>5, ReadUntilEOFStep
<1>6. CASE ReadTimesOut \/ ReadEOF \/ ReadReset
  BY <1>6, ReadEndSteps
<1>7. CASE Expire \/ Peer
  BY <1>7, EnvironmentSteps
<1>8. CASE UNCHANGED vars
  <2>1. TypeOK'
    BY <1>8, FixedFacts DEF IInv, TypeOK, vars, replyVars, returnVars, peerVars
  <2>2. Inv'
    BY <1>8, FixedFacts DEF IInv, Inv, Reading, vars, replyVars, returnVars, peerVars
  <2>3. WholeRequestFirst' /\ ResponseMatchesWire' /\ UnframedResponseComplete'
    BY <1>8, FixedFacts DEF IInv, WholeRequestFirst, ResponseMatchesWire,
       UnframedResponseComplete, vars, replyVars, returnVars, peerVars
  <2>4. UnframedCapExact'
    BY <1>8, FixedFacts DEF IInv, UnframedCapExact, vars, returnVars, peerVars
  <2>5. ErrorNamesItsCause'
    <3>1. /\ outcome' = outcome /\ deadline' = deadline /\ peer' = peer
          /\ req' = req /\ produced' = produced /\ written' = written
          /\ Declared' = Declared /\ FramedLen' = FramedLen
      BY <1>8, FixedFacts DEF vars, returnVars, peerVars
    <3> QED
      BY <3>1 DEF IInv, ErrorNamesItsCause, Broken
  <2> QED
    BY <2>1, <2>2, <2>3, <2>4, <2>5 DEF IInv
<1> QED
  BY <1>1, <1>2, <1>3, <1>4, <1>5, <1>6, <1>7, <1>8
     DEF Next, SendMessage, Returned

\* So IInv always holds.
LEMMA Invariance == Spec => []IInv
  BY InitInv, StepInv, PTL DEF Spec

\* The payload is judged once, by Encode.
LEMMA EncodeInvariance == Spec => []EncodeInv
<1>1. Init => EncodeInv
  BY DEF Init, EncodeInv, EncodePassed
<1>2. IInv /\ EncodeInv /\ [Next]_vars => EncodeInv'
  <2> SUFFICES ASSUME IInv, EncodeInv, [Next]_vars PROVE EncodeInv'
    OBVIOUS
  <2>1. ASSUME UNCHANGED req,
               EncodePassed' => EncodePassed \/ Encodable(req.framing, req.len),
               outcome' = "encode" =>
                 outcome = "encode" \/ ~Encodable(req.framing, req.len)
        PROVE  EncodeInv'
    BY <2>1 DEF EncodeInv
  <2>2. pc = "done" <=> outcome # "pending"
    BY DEF IInv, Inv
  <2>3. CASE RejectRequest \/ Encode
    BY <2>1, <2>2, <2>3
       DEF RejectRequest, Encode, EncodePassed, ReturnError, Return, returnVars, fixedVars
  <2>4. CASE DialFails \/ Dial
    BY <2>1, <2>2, <2>4
       DEF DialFails, Dial, EncodePassed, ReturnError, Return, returnVars, fixedVars
  <2>5. CASE WriteSome \/ WriteFails \/ RequestWritten \/ CloseWrite \/ CloseWriteFails
    BY <2>1, <2>2, <2>5 DEF WriteSome, WriteFails, RequestWritten, CloseWrite,
       CloseWriteFails, EncodePassed, ReturnError, Return, returnVars, fixedVars
  <2>6. CASE ReadHeader \/ ReadBody \/ ReadUntilEOF
    BY <2>1, <2>2, <2>6 DEF ReadHeader, ReadBody, ReadUntilEOF,
       EncodePassed, ReturnError, ReturnResponse, Return, returnVars, fixedVars
  <2>7. CASE ReadTimesOut \/ ReadEOF \/ ReadReset
    <3>1. UNCHANGED req /\ EncodePassed /\ outcome' # "encode"
      BY <2>7 DEF ReadTimesOut, ReadEOF, ReadReset, Reading, ReadError,
         EncodePassed, ReturnError, ReturnResponse, Return, fixedVars
    <3> QED
      BY <2>1, <3>1
  <2>8. CASE Expire \/ Peer \/ Returned \/ UNCHANGED vars
    BY <2>1, <2>8 DEF Expire, Peer, PeerRead, PeerWrite, PeerClose, PeerReset,
       NetworkTimesOut, Returned, EncodePassed, vars, returnVars, fixedVars
  <2> QED
    BY <2>3, <2>4, <2>5, <2>6, <2>7, <2>8 DEF Next, SendMessage
<1> QED
  BY <1>1, <1>2, Invariance, PTL DEF Spec

-----------------------------------------------------------------------------
(* The theorems *)

\* The variables stay in their domains, for requests of any length and buffers
\* of any size.
THEOREM TypeCorrect == Spec => []TypeOK
  BY Invariance, PTL DEF IInv

\* The whole frame has been written, and an unframed request ended by the
\* half-close, before any byte of a reply is read: a short write cannot pass
\* for a sent request.
THEOREM WholeRequestFirstHolds == Spec => []WholeRequestFirst
  BY Invariance, PTL DEF IInv

\* Encode refuses exactly the payloads whose length its header would not give
\* back (Framing.Encode in send.go), whatever their length.
THEOREM LimitIsTightHolds == Spec => []LimitIsTight
<1>1. TypeOK /\ EncodeInv => LimitIsTight
  <2> SUFFICES ASSUME TypeOK, EncodeInv PROVE LimitIsTight
    OBVIOUS
  <2>1. req.framing \in Framings /\ req.len \in Nat
    BY DEF TypeOK, SendRequest
  <2>2. outcome = "encode" => req.framing # "none"
    BY <2>1 DEF EncodeInv, Encodable
  <2>3. req.framing # "none" =>
          (Encodable(req.framing, req.len) <=>
             DeclaredLength(req.framing, Header(req.framing, req.len)) = req.len)
    BY <2>1, LimitIsTightEverywhere
  <2> QED BY <2>2, <2>3 DEF LimitIsTight, EncodeInv
<1> QED BY <1>1, Invariance, EncodeInvariance, PTL DEF IInv

\* Whatever header a peer sends, the length that readBody allocates is positive
\* and one the framing can carry (Framing.ReadResponse in send.go).
THEOREM AcceptedLengthFitsHolds == Spec => []AcceptedLengthFits
<1>1. IInv => AcceptedLengthFits
  <2> SUFFICES ASSUME IInv, pc = "readBody"
               PROVE  Declared \in 1..MaxDeclared(req.framing)
    BY DEF AcceptedLengthFits
  <2>1. /\ req.framing \in Framings \ {"none"} /\ buf \in Nat /\ buf < Declared
        /\ header \in Seq(Byte) /\ Len(header) = headerLen(req.framing)
    BY DEF IInv, TypeOK, Inv, SendRequest
  <2>2. \A i \in 1..headerLen(req.framing) : header[i] \in Byte
    BY <2>1
  <2>3. Declared <= MaxDeclared(req.framing) /\ Declared \in Int
    BY <2>1, <2>2, AcceptedLengthFitsEverywhere DEF Declared
  <2>4. MaxDeclared(req.framing) \in Int
    BY DEF MaxDeclared
  <2> QED BY <2>1, <2>3, <2>4
<1> QED BY <1>1, Invariance, PTL

\* What SendMessage returns is what crossed the wire, and a framed response is
\* never cut short.
THEOREM ResponseMatchesWireHolds == Spec => []ResponseMatchesWire
  BY Invariance, PTL DEF IInv

\* An unframed response is complete unless a timeout cut it off: the deadline's,
\* or the one of a connection that the kernel gave up on.
THEOREM UnframedResponseCompleteHolds == Spec => []UnframedResponseComplete
  BY Invariance, PTL DEF IInv

\* The cap on an unframed response turns away what is longer and nothing else,
\* for every cap and every size of read.
THEOREM UnframedCapExactHolds == Spec => []UnframedCapExact
  BY Invariance, PTL DEF IInv

\* The error that SendMessage returns is the one that happened, as far as a
\* timeout of the connection and one of the deadline can be told apart.
THEOREM ErrorNamesItsCauseHolds == Spec => []ErrorNamesItsCause
  BY Invariance, PTL DEF IInv

\* Past the deadline no byte moves, and the deadline is not armed again.
THEOREM DeadlineIsFinalHolds == Spec => DeadlineIsFinal
<1>1. IInv /\ [Next]_vars =>
        [deadline = "expired" => UNCHANGED <<deadline, written, inRead>>]_vars
  <2> SUFFICES ASSUME IInv, Next, deadline = "expired"
               PROVE  UNCHANGED <<deadline, written, inRead>>
    OBVIOUS
  <2>1. CASE RejectRequest \/ Encode \/ DialFails \/ Dial
    BY <2>1 DEF IInv, Inv, RejectRequest, Encode, DialFails, Dial, replyVars
  <2>2. CASE WriteSome \/ WriteFails \/ RequestWritten \/ CloseWrite \/ CloseWriteFails
    BY <2>2 DEF WriteSome, WriteFails, RequestWritten, CloseWrite,
       CloseWriteFails, replyVars
  <2>3. CASE ReadHeader \/ ReadBody \/ ReadUntilEOF
    BY <2>3 DEF ReadHeader, ReadBody, ReadUntilEOF, Read
  <2>4. CASE ReadTimesOut \/ ReadEOF \/ ReadReset
    BY <2>4 DEF ReadTimesOut, ReadEOF, ReadReset, replyVars
  <2>5. CASE Expire \/ Peer
    BY <2>5 DEF Expire, Peer, PeerRead, PeerWrite, PeerClose, PeerReset, NetworkTimesOut, replyVars
  <2>6. CASE Returned
    BY <2>6 DEF Returned, vars, replyVars
  <2> QED
    BY <2>1, <2>2, <2>3, <2>4, <2>5, <2>6 DEF Next, SendMessage
<1> QED
  BY <1>1, Invariance, PTL DEF Spec, DeadlineIsFinal


\* A response is one of those that the peer's reply entitles to.
LEMMA ResponseIsAnAnswer == IInv /\ outcome = "ok" => result.response \in Answers
<1> SUFFICES ASSUME IInv, outcome = "ok"
             PROVE  result.response \in Answers
  OBVIOUS
<1> USE DEF IInv
<1>1. /\ rest \in Nat /\ inRead <= produced /\ produced <= ReplyBytes
      /\ inRead \in Nat /\ produced \in Nat
  BY DEF TypeOK
<1>2. /\ headerLen(req.framing) \in Nat
      /\ req.framing = "none" <=> headerLen(req.framing) = 0
  BY LengthFacts
<1>3. result.response \in Nat /\ inRead = result.response + headerLen(req.framing)
  BY DEF TypeOK, Inv, ResponseMatchesWire
<1>4. result.response <= rest
  BY <1>1, <1>2, <1>3 DEF ReplyBytes
<1>5. CASE req.framing = "none"
  <2>1. result.response <= MaxUnframed
    BY <1>5 DEF UnframedCapExact
  <2>2. result.response \in 0..Lesser(rest, MaxUnframed)
    BY <1>1, <1>3, <1>4, <2>1, ConstantsAssumption DEF Lesser
  <2> QED
    BY <1>5, <2>2 DEF Answers
<1>6. CASE req.framing # "none"
  BY <1>3, <1>4, <1>6 DEF Answers, ResponseMatchesWire
<1> QED
  BY <1>5, <1>6

\* A step that leaves the exchange pending is a step of Transmit or stutters.
LEMMA PendingRefines ==
  ASSUME IInv, IInv', pc # "done", pc' # "done",
         UNCHANGED <<fixedVars, returnVars>>,
         RequestSent = "sent" => RequestSent' = "sent"
  PROVE  [Contract!ContractNext]_(Contract!contractVars)
<1>1. Answers' = Answers /\ (result.response)' = result.response
  BY FixedFacts DEF Answers, returnVars, fixedVars
<1>2. Verdict = "pending" /\ Verdict' = "pending"
  BY DEF Verdict
<1>3. \/ RequestSent' = RequestSent
      \/ RequestSent = "unsent" /\ RequestSent' = "sent"
  BY DEF RequestSent
<1> QED
  BY <1>1, <1>2, <1>3 DEF Contract!ContractNext, Contract!Transmit,
     Contract!contractVars

\* A step that returns is Answer or GiveUp.
LEMMA ReturnRefines ==
  ASSUME IInv, IInv', pc # "done", pc' = "done", UNCHANGED fixedVars,
         written' = written, conn' = "none" <=> conn = "none",
         outcome' = "ok" => written = FramedLen /\ conn # "none"
  PROVE  Contract!ContractNext
<1>1. Answers' = Answers /\ FramedLen' = FramedLen
  BY FixedFacts DEF Answers, fixedVars
<1>2. Verdict = "pending" /\ RequestSent' = RequestSent
  BY <1>1 DEF Verdict, RequestSent
<1>3. CASE outcome' = "ok"
  <2>1. Verdict' = "response" /\ RequestSent = "sent"
    BY <1>3 DEF Verdict, RequestSent
  <2>2. (IInv /\ outcome = "ok" => result.response \in Answers)'
    BY ResponseIsAnAnswer, PTL
  <2>3. (result.response)' \in Answers
    BY <1>1, <1>3, <2>2
  <2> QED
    BY <1>1, <1>2, <2>1, <2>3 DEF Contract!ContractNext, Contract!Answer
<1>4. CASE outcome' # "ok"
  <2>1. Verdict' = "error"
    BY <1>4 DEF Verdict
  <2>2. result' = NoResult /\ result = NoResult
    BY <1>4 DEF IInv, Inv
  <2> QED
    BY <1>1, <1>2, <2>1, <2>2 DEF Contract!ContractNext, Contract!GiveUp
<1> QED
  BY <1>3, <1>4

\* The exchange starts where its contract does.
LEMMA ContractStart == Init => Contract!ContractInit
<1> SUFFICES ASSUME Init PROVE Contract!ContractInit
  OBVIOUS
<1>1. IInv
  BY InitInv
<1>2. rest \in Nat /\ Answers \subseteq Nat
  <2>1. req.framing # "none" => Declared \in Int
    BY <1>1, DeclaredFacts DEF IInv
  <2>2. rest \in Nat
    BY <1>1 DEF IInv, TypeOK
  <2> QED
    BY <2>1, <2>2, ConstantsAssumption DEF Answers, Lesser
<1> QED
  BY <1>2 DEF Contract!ContractInit, Init, RequestSent, Verdict, NoResult

\* Once the frame is written it stays written, so a client that goes on without
\* returning never takes the request back.
LEMMA SentStaysSent ==
  ASSUME TypeOK, TypeOK', UNCHANGED fixedVars,
         written <= written', conn # "none" => conn' # "none",
         RequestSent = "sent"
  PROVE  RequestSent' = "sent"
<1>1. FramedLen' = FramedLen /\ FramedLen \in Nat
  BY FixedFacts, LengthFacts
<1>2. written = FramedLen /\ written' <= FramedLen' /\ written' \in Nat
  BY DEF RequestSent, TypeOK
<1>3. written' = FramedLen'
  BY <1>1, <1>2
<1> QED
  BY <1>3 DEF RequestSent

\* Every step of SendExchange is a step of the contract or leaves it alone.
LEMMA ContractStep ==
  IInv /\ IInv' /\ [Next]_vars => [Contract!ContractNext]_(Contract!contractVars)
<1> SUFFICES ASSUME IInv, IInv', [Next]_vars
             PROVE  [Contract!ContractNext]_(Contract!contractVars)
  OBVIOUS
<1> DEFINE Quiet == /\ pc # "done" /\ pc' # "done"
                    /\ UNCHANGED <<fixedVars, returnVars>>
                    /\ written <= written'
                    /\ conn # "none" => conn' # "none"
           Final == /\ pc # "done" /\ pc' = "done"
                    /\ UNCHANGED <<fixedVars, written>>
                    /\ conn' = "none" <=> conn = "none"
                    /\ outcome' = "ok" => written = FramedLen /\ conn # "none"
           Still == UNCHANGED <<fixedVars, pc, conn, written, returnVars>>
<1>1. CASE Quiet
  BY <1>1, SentStaysSent, PendingRefines DEF IInv
<1>2. CASE Final
  BY <1>2, ReturnRefines
<1>3. CASE Still
  <2>1. /\ Answers' = Answers /\ FramedLen' = FramedLen
    BY <1>3, FixedFacts DEF Answers, fixedVars
  <2>2. /\ RequestSent' = RequestSent /\ Verdict' = Verdict
        /\ (result.response)' = result.response
    BY <1>3, <2>1 DEF RequestSent, Verdict, returnVars
  <2> QED
    BY <2>1, <2>2 DEF Contract!contractVars
<1>4. written \in Nat /\ written' \in Nat
  BY DEF IInv, TypeOK
<1>5. /\ pc \in {"CloseWrite", "readHeader", "readBody", "readUntilEOF"} =>
           written = FramedLen
      /\ pc \notin {"Encode", "Dial", "done"} => conn = "open"
  BY DEF IInv, Inv, Reading
<1>6. ASSUME Encode \/ Dial \/ WriteSome \/ RequestWritten \/ CloseWrite
      PROVE  Quiet
  <2>1. CASE Encode
    BY <1>4, <2>1 DEF Encode
  <2>2. CASE Dial
    BY <1>4, <2>2 DEF Dial
  <2>3. CASE WriteSome
    BY <1>4, <2>3 DEF WriteSome
  <2>4. CASE RequestWritten
    BY <1>4, <2>4 DEF RequestWritten
  <2>5. CASE CloseWrite
    BY <1>4, <2>5 DEF CloseWrite
  <2> QED
    BY <1>6, <2>1, <2>2, <2>3, <2>4, <2>5
<1>7. ASSUME RejectRequest \/ DialFails \/ WriteFails \/ CloseWriteFails
      PROVE  Final
  <2>1. CASE RejectRequest
    BY <1>5, <2>1 DEF RejectRequest, ReturnError, Return
  <2>2. CASE DialFails
    BY <1>5, <2>2 DEF DialFails, ReturnError, Return
  <2>3. CASE WriteFails
    BY <1>5, <2>3 DEF WriteFails, ReturnError, Return
  <2>4. CASE CloseWriteFails
    BY <1>5, <2>4 DEF CloseWriteFails, ReturnError, Return
  <2> QED
    BY <1>7, <2>1, <2>2, <2>3, <2>4
<1>8. ASSUME ReadHeader \/ ReadBody \/ ReadUntilEOF
      PROVE  Quiet \/ Final
  <2>1. CASE ReadHeader
    BY <1>4, <1>5, <2>1 DEF ReadHeader, ReturnResponse, ReturnError, Return
  <2>2. CASE ReadBody
    BY <1>4, <1>5, <2>2 DEF ReadBody, ReturnResponse, Return
  <2>3. CASE ReadUntilEOF
    BY <1>4, <1>5, <2>3 DEF ReadUntilEOF, ReturnError, Return
  <2> QED
    BY <1>8, <2>1, <2>2, <2>3
<1>9. ASSUME ReadTimesOut \/ ReadEOF \/ ReadReset
      PROVE  Final
  <2>1. pc # "done" /\ pc \notin {"Encode", "Dial"} /\ written = FramedLen
    BY <1>5, <1>9 DEF ReadTimesOut, ReadEOF, ReadReset, Reading
  <2>2. CASE ReadTimesOut
    BY <1>5, <2>1, <2>2 DEF ReadTimesOut, ReturnResponse, ReturnError, Return
  <2>3. CASE ReadEOF
    BY <1>5, <2>1, <2>3 DEF ReadEOF, ReturnResponse, ReturnError, Return
  <2>4. CASE ReadReset
    BY <1>5, <2>1, <2>4 DEF ReadReset, ReturnError, Return
  <2> QED
    BY <1>9, <2>2, <2>3, <2>4
<1>10. ASSUME Expire \/ Peer \/ Returned \/ UNCHANGED vars
       PROVE  Still
  BY <1>10 DEF Expire, Peer, PeerRead, PeerWrite, PeerClose, PeerReset, NetworkTimesOut,
     Returned, vars
<1> HIDE DEF Quiet, Final, Still
<1> QED
  BY <1>1, <1>2, <1>3, <1>6, <1>7, <1>8, <1>9, <1>10 DEF Next, SendMessage

\* Whatever the peer does, SendMessage keeps the contract of one exchange: one
\* request, sent whole before an answer is taken, and an answer that the peer's
\* reply entitles the caller to, or an error.
THEOREM Refinement == Spec => ImplementsContract
<1>1. Init => Contract!ContractInit
  BY ContractStart
<1>2. IInv /\ IInv' /\ [Next]_vars => [Contract!ContractNext]_(Contract!contractVars)
  BY ContractStep
<1> QED
  BY <1>1, <1>2, Invariance, PTL DEF Spec, ImplementsContract, Contract!ContractSpec
=============================================================================
