--------------------------- MODULE MCSendExchange ---------------------------
(***************************************************************************)
(* SendExchange on instances small enough to explore: requests of at most  *)
(* two bytes through buffers smaller than a frame, and every kind of       *)
(* header a reply can start with.  The longest request of each framing,    *)
(* and the one a byte longer, go to an address that passes the check and   *)
(* cannot be dialed, so that the exchange ends before the wire.            *)
(***************************************************************************)
EXTENDS SendExchange

MCRequests ==
  [address : {"host:port"}, len : {0, 2}, framing : Framings, timeout : {0, 1}]
  \cup [address : {"host:port"}, len : {2}, framing : {"none"}, timeout : {-1}]
  \cup [address : {"padded", "no-port"}, len : {2}, framing : {"none"},
        timeout : {1}]
  \cup [address : {"padded"}, len : {65535, 65536}, framing : {"2byte-binary"},
        timeout : {1}]
  \cup [address : {"padded"}, len : {9999, 10000}, framing : {"4digit-ascii"},
        timeout : {1}]

\* For "2byte-binary": no body, two bytes, and more than the peer ever writes.
BinaryHeaders == {<<0, 0>>, <<0, 2>>, <<1, 0>>}

\* For "4digit-ascii": "0000", "0002", "0256", "+002", "-000", "-001", "00x2", ":000".
AsciiHeaders ==
  { <<48, 48, 48, 48>>, <<48, 48, 48, 50>>, <<48, 50, 53, 54>>,
    <<43, 48, 48, 50>>, <<45, 48, 48, 48>>, <<45, 48, 48, 49>>,
    <<48, 48, 120, 50>>, <<58, 48, 48, 48>> }

MCHeaders == {<< >>} \cup BinaryHeaders \cup AsciiHeaders
=============================================================================
