------------------------------ MODULE MCDoctor ------------------------------
(***************************************************************************)
(* The three built-in presets, each faring on either reading in every way  *)
(* out of six that differ in what scorePreset counts and allTruncated asks.*)
(***************************************************************************)
EXTENDS Doctor

MCPresets == <<"basei-starter", "spec87ascii", "spec87bcd-starter">>

Unpacked(mti, n, same) ==
  [unpacks |-> TRUE, validMTI |-> mti, fields |-> n, exact |-> same,
   truncated |-> FALSE]

Failed(cut) ==
  [unpacks |-> FALSE, validMTI |-> FALSE, fields |-> 0, exact |-> FALSE,
   truncated |-> cut]

\* Fifteen fields weigh as much as a valid MTI.
MCOutcomes ==
  { Failed(TRUE), Failed(FALSE), Unpacked(FALSE, 0, FALSE),
    Unpacked(FALSE, 15, FALSE), Unpacked(TRUE, 0, FALSE), Unpacked(TRUE, 2, TRUE) }
=============================================================================
