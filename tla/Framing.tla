------------------------------- MODULE Framing -------------------------------
(***************************************************************************)
(* The length framings of `send` (internal/service/send.go): how a payload *)
(* is prefixed on the wire and how the prefix of a reply is understood.    *)
(* A byte is a number in 0..255.  A payload is its length: framing never   *)
(* looks at the bytes it carries.  A length that is refused while a header *)
(* is parsed is a negative number, as strconv.Atoi and the `n < 0` test    *)
(* leave it.                                                               *)
(***************************************************************************)
EXTENDS Integers, Sequences

Framings == {"2byte-binary", "4digit-ascii", "none"}

Byte == 0..255

headerLen(f) ==
  IF f = "2byte-binary" THEN 2 ELSE IF f = "4digit-ascii" THEN 4 ELSE 0

\* The longest payload whose length the header of f can carry.
MaxDeclared(f) == IF f = "2byte-binary" THEN 65535 ELSE 9999

\* Off by one at the limit.
Encodable_Wrong(f, len) == f = "none" \/ len <= MaxDeclared(f) + 1

\* Encode refuses what its header cannot count; "none" carries any payload.
Encodable(f, len) == f \in Framings /\ (f = "none" \/ len <= MaxDeclared(f))

-----------------------------------------------------------------------------
(* Headers, as the bytes on the wire *)

Zero == 48
Plus == 43
Minus == 45

Digit(b) == b \in Zero..(Zero + 9)

\* PutUint16 of uint16(len), big endian.
BinaryHeader(len) == <<(len \div 256) % 256, len % 256>>

\* The "%04d" verb for 0..9999.
AsciiHeader(len) ==
  << Zero + (len \div 1000),
     Zero + ((len \div 100) % 10),
     Zero + ((len \div 10) % 10),
     Zero + (len % 10) >>

\* The bytes Encode puts before a payload of len bytes.
Header(f, len) ==
  CASE f = "2byte-binary" -> BinaryHeader(len)
    [] f = "4digit-ascii" -> AsciiHeader(len)
    [] OTHER              -> << >>

BinaryLength(h) == 256 * h[1] + h[2]

LastThreeDigits(h) == 100 * (h[2] - Zero) + 10 * (h[3] - Zero) + (h[4] - Zero)

\* The digits are converted without being checked, and the sign is ignored.
Atoi_Wrong(h) ==
  IF h[1] \in {Plus, Minus} THEN 1000 + LastThreeDigits(h)
  ELSE 1000 * (h[1] - Zero) + LastThreeDigits(h)

Atoi(h) ==
  IF ~(Digit(h[2]) /\ Digit(h[3]) /\ Digit(h[4])) THEN -1
  ELSE IF Digit(h[1])  THEN 1000 * (h[1] - Zero) + LastThreeDigits(h)
  ELSE IF h[1] = Plus  THEN LastThreeDigits(h)
  ELSE IF h[1] = Minus THEN -LastThreeDigits(h)
  ELSE -1

\* The body length that ReadResponse takes from a whole header, negative when
\* it refuses the header.
DeclaredLength(f, h) ==
  IF f = "2byte-binary" THEN BinaryLength(h) ELSE Atoi(h)
=============================================================================
