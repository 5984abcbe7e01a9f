--------------------------- MODULE MCMockExchange ---------------------------
(***************************************************************************)
(* Every pair of framings, requests and replies of up to five bytes, and   *)
(* payloads that can and cannot be read as a length header.  "0001" and a  *)
(* byte stand for the longer messages that can be: "0100" needs 104 bytes. *)
(***************************************************************************)
EXTENDS MockExchange

\* "0800", "0001", and "0800" packed with a bitmap after it.
MCRequestStarts == {<<48, 56, 48, 48>>, <<48, 48, 48, 49>>, <<8, 0, 130, 32>>}

\* "0001"
MCReplyStart == <<48, 48, 48, 49>>

MCRequests == [address : {"host:port"}, len : {0, 2, 5}, framing : Framings,
               timeout : {0, 1}]

\* Every header that a reply of the mock can start with.
MCHeaders ==
  {TakenAsHeader(FrameStart(f, len, MCReplyStart), headerLen(g)) :
     f \in Framings, g \in Framings, len \in ReplyLens}

\* The run meets a message of either direction that is misread.
ASSUME MisreadHere ==
  /\ FoundIn("none", "4digit-ascii", 5, MCReplyStart)
  /\ \E start \in RequestStarts : FoundIn("none", "4digit-ascii", 5, start)

\* The shortest reply whose binary header can be read as ASCII digits: it is the
\* two bytes "+0", and the payload may go on with two zeros.
ASSUME FirstMisread ==
  LET zeros == <<48, 48, 48, 48>> IN
  /\ FoundIn("2byte-binary", "4digit-ascii", 11056, zeros)
  /\ \A n \in 0..11055 : ~FoundIn("2byte-binary", "4digit-ascii", n, zeros)

\* The shortest message that starts with "0100" and is misread.
ASSUME FirstMTIMisread ==
  LET mti == <<48, 49, 48, 48>> IN
  /\ FoundIn("none", "4digit-ascii", 104, mti)
  /\ \A n \in 0..103 : ~FoundIn("none", "4digit-ascii", n, mti)
=============================================================================
