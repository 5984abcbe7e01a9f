---------------------------- MODULE MCSendCommand ----------------------------
(***************************************************************************)
(* Command lines with up to two things wrong, up to two expectations, and  *)
(* responses of nothing, of a document and of part of it.                  *)
(***************************************************************************)
EXTENDS SendCommand

MCFields(P, v) == [p \in P |-> v]

F39 == [name |-> "39", upper |-> TRUE]
F55 == [name |-> "55.9F02", upper |-> TRUE]

\* No byte of a response, one with both fields, one whose field 39 has a blank
\* at its end, and one without fields.
MCReadings ==
  [n \in 0..3 |->
     IF n = 0 THEN Undecodable
     ELSE [mti |-> "A",
           fields |-> MCFields(IF n = 3 THEN {} ELSE {F39, F55},
                               [text |-> "A", blanks |-> n = 2])]]

Typed(n, up, t, b) ==
  [path |-> [name |-> n, upper |-> up], value |-> [text |-> t, blanks |-> b]]

MCExpectations ==
  { Typed("39", TRUE, "A", FALSE), Typed("39", TRUE, "A", TRUE),
    Typed("39", TRUE, "B", FALSE), Typed("55.9F02", FALSE, "A", FALSE),
    Typed("41", TRUE, "A", FALSE) }

UpToTwo(S) == {{}} \cup {{a, b} : a, b \in S}

MCCommandLines ==
  [help : BOOLEAN, bad : UpToTwo(GateNames), encodable : BOOLEAN,
   expectMTI : {""}, expectFields : {{}}]
  \cup
  [help : {FALSE}, bad : {{}, {"address"}, {"request"}}, encodable : {TRUE},
   expectMTI : {"", "A", "B"}, expectFields : UpToTwo(MCExpectations)]
=============================================================================
