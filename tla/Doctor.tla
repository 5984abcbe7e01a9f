------------------------------- MODULE Doctor -------------------------------
(***************************************************************************)
(* The `doctor` command: which reading of a capture to diagnose (hex text  *)
(* or raw bytes, autoDecodeMessage in cmd/app.go), and the scan of the     *)
(* built-in presets that scores each against it (DiagnoseSpec in           *)
(* internal/service/doctor.go).                                            *)
(*                                                                         *)
(* What the ISO 8583 library makes of the bytes under a preset is left     *)
(* open: fits gives, for either reading and every preset, any outcome an   *)
(* unpack can have.  The flags that only choose a layout, refusals of the  *)
(* command line, titles and the quoting of printed commands are left out.  *)
(***************************************************************************)
EXTENDS Integers, Sequences

CONSTANTS
  Presets,    \* basei.Presets(), in recommendation order
  MaxFields,  \* the data fields that a specification can define
  Outcomes    \* what can come of unpacking a message under a preset

\* One attempt to unpack: whether it succeeded; if so whether the MTI is four
\* digits, the number of data fields and whether packing gives back the length;
\* if not, whether the cause reads like truncation.
Outcome ==
  [unpacks : {TRUE}, validMTI : BOOLEAN, fields : 0..MaxFields, exact : BOOLEAN,
   truncated : {FALSE}]
  \cup
  [unpacks : {FALSE}, validMTI : {FALSE}, fields : {0}, exact : {FALSE},
   truncated : BOOLEAN]

ASSUME DoctorAssumption ==
  /\ Presets \in Seq(STRING)
  /\ MaxFields \in Nat
  /\ Outcomes \subseteq Outcome

Index == 1..Len(Presets)

Encodings == {"hex", "raw"}

VARIABLES
  fits,              \* what each reading decodes to, fixed by Init
  looksLikeHex,      \* the source can be read as hex at all, fixed by Init
  encoding,          \* --encoding: "auto", "hex" or "raw", fixed by Init
  pc,                \* "resolve", "scan", "verdict" or "done"
  used,              \* the encoding whose reading is diagnosed, "" before
  next,              \* the preset to score next, an index
  best,              \* index of the best candidate so far, 0 for none
  bestScore,         \* its score
  tieScore,          \* the best score of the others
  recommended,       \* diag.Recommended as an index, 0 for ""
  recommendations,   \* diag.Recommendations, as a set of indices
  ambiguous,         \* diag.Ambiguous
  likelyMalformed,   \* diag.LikelyMalformed
  exit               \* "" until the exit status is known, then "success" (0) or "failure" (1)

inputVars   == <<fits, looksLikeHex, encoding>>
scanVars    == <<next, best, bestScore, tieScore>>
verdictVars == <<recommended, recommendations, ambiguous, likelyMalformed, exit>>
vars == <<inputVars, pc, used, scanVars, verdictVars>>

-----------------------------------------------------------------------------
(* Scoring *)

\* scorePreset: 100 for unpacking, 30 for an MTI of four digits, 2 for every
\* data field and 200 for an exact round trip.
Score(o) ==
  IF ~o.unpacks THEN 0
  ELSE 100 + (IF o.validMTI THEN 30 ELSE 0) + 2 * o.fields
           + (IF o.exact THEN 200 ELSE 0)

\* The best of the scores of one reading, 0 when no preset fits.
BestScore(enc) ==
  LET scores == {Score(fits[enc][i]) : i \in Index} \cup {0}
  IN  CHOOSE s \in scores : \A t \in scores : t <= s

\* Hex wins whenever the source can be hex.
AutoDecodeMessage_Wrong == IF looksLikeHex THEN "hex" ELSE "raw"

\* A source that cannot be hex is raw; one that can be is hex, unless a preset
\* fits the raw reading strictly better.
AutoDecodeMessage ==
  IF ~looksLikeHex THEN "raw"
  ELSE IF BestScore("raw") > BestScore("hex") THEN "raw" ELSE "hex"

-----------------------------------------------------------------------------

Init ==
  /\ fits \in [Encodings -> [Index -> Outcomes]]
  /\ looksLikeHex \in BOOLEAN
  /\ encoding \in {"auto", "hex", "raw"}
  /\ pc = "resolve" /\ used = ""
  /\ next = 1 /\ best = 0 /\ bestScore = 0 /\ tieScore = 0
  /\ recommended = 0 /\ recommendations = {}
  /\ ambiguous = FALSE /\ likelyMalformed = FALSE
  /\ exit = ""

\* resolveInput.  An explicit encoding is taken as it is.
Resolve ==
  /\ pc = "resolve"
  /\ encoding = "hex" => looksLikeHex
  /\ used' = IF encoding = "auto" THEN AutoDecodeMessage ELSE encoding
  /\ pc' = "scan"
  /\ UNCHANGED <<inputVars, scanVars, verdictVars>>

\* An explicit hex that is none.
ResolveFails ==
  /\ pc = "resolve"
  /\ encoding = "hex" /\ ~looksLikeHex
  /\ pc' = "done"
  /\ exit' = "failure"
  /\ UNCHANGED <<inputVars, used, scanVars, recommended, recommendations,
                 ambiguous, likelyMalformed>>

\* A preset that only equals the best takes its place.
Beats_Wrong(s) == s >= bestScore

Beats(s) == s > bestScore

\* The best score is replaced before it is remembered.
TieAfter_Wrong(s) == IF s > tieScore THEN s ELSE tieScore

\* The old best, if s beats it.
TieAfter(s) ==
  IF Beats(s) THEN bestScore ELSE IF s > tieScore THEN s ELSE tieScore

\* The loop of DiagnoseSpec.
ScorePreset ==
  /\ pc = "scan"
  /\ next \in Index
  /\ LET s == Score(fits[used][next]) IN
       /\ best' = IF Beats(s) THEN next ELSE best
       /\ bestScore' = IF Beats(s) THEN s ELSE bestScore
       /\ tieScore' = TieAfter(s)
  /\ next' = next + 1
  /\ UNCHANGED <<inputVars, pc, used, verdictVars>>

ScanDone ==
  /\ pc = "scan"
  /\ next \notin Index
  /\ pc' = "verdict"
  /\ UNCHANGED <<inputVars, used, scanVars, verdictVars>>

\* Recommendations only name presets that unpacked.
Recommend ==
  /\ pc = "verdict"
  /\ best > 0
  /\ recommended' = best
  /\ recommendations' = {i \in Index : Score(fits[used][i]) = bestScore}
  /\ ambiguous' = (tieScore = bestScore)
  /\ exit' = "success"
  /\ pc' = "done"
  /\ UNCHANGED <<inputVars, used, scanVars, likelyMalformed>>

\* One truncated attempt is enough.
AllTruncated_Wrong == \E i \in Index : fits[used][i].truncated

AllTruncated == Index # {} /\ \A i \in Index : fits[used][i].truncated

\* Without a recommendation the status is 1: the actionable failure.
NoFit ==
  /\ pc = "verdict"
  /\ best = 0
  /\ likelyMalformed' = AllTruncated
  /\ exit' = "failure"
  /\ pc' = "done"
  /\ UNCHANGED <<inputVars, used, scanVars, recommended, recommendations, ambiguous>>

Finished == pc = "done" /\ UNCHANGED vars

Next == Resolve \/ ResolveFails \/ ScorePreset \/ ScanDone \/ Recommend \/ NoFit
        \/ Finished

Spec == Init /\ [][Next]_vars

-----------------------------------------------------------------------------
(* What doctor promises *)

\* The variables stay in their domains.
TypeOK ==
  /\ fits \in [Encodings -> [Index -> Outcomes]]
  /\ looksLikeHex \in BOOLEAN
  /\ encoding \in {"auto", "hex", "raw"}
  /\ pc \in {"resolve", "scan", "verdict", "done"}
  /\ used \in Encodings \cup {""}
  /\ next \in 1..(Len(Presets) + 1)
  /\ best \in 0..Len(Presets)
  /\ bestScore \in Nat /\ tieScore \in Nat
  /\ recommended \in 0..Len(Presets)
  /\ recommendations \subseteq Index
  /\ ambiguous \in BOOLEAN /\ likelyMalformed \in BOOLEAN
  /\ exit \in {"", "success", "failure"}

\* A recommendation is the first preset that nothing beats, and the listed
\* alternatives are all that equal it: one scan that keeps two numbers loses
\* neither a later, better preset nor one that ties with it.
RecommendsTheBest ==
  exit = "success" =>
    LET s == [i \in Index |-> Score(fits[used][i])] IN
    /\ recommended \in Index
    /\ \A i \in Index : s[i] <= s[recommended]
    /\ \A i \in Index : i < recommended => s[i] < s[recommended]
    /\ recommendations = {i \in Index : s[i] = s[recommended]}

\* The warning that the recommendation must be confirmed by eye is given exactly
\* when there is another preset to choose.
AmbiguityIsATie ==
  exit = "success" =>
    (ambiguous <=> \E i \in recommendations : i # recommended)

\* Doctor fails only when no preset unpacks what it read, and blames the capture
\* only when every attempt ran out of bytes.
FailureIsNoFit ==
  /\ exit = "failure" /\ used # "" => \A i \in Index : ~fits[used][i].unpacks
  /\ exit = "success" => fits[used][recommended].unpacks
  /\ likelyMalformed => \A i \in Index : fits[used][i].truncated

\* Left to detect the encoding, doctor diagnoses the reading that fits best: no
\* preset scores higher on the other one, unless the source cannot be hex.
DetectsTheBestReading ==
  exit = "success" /\ encoding = "auto" =>
    /\ used = "hex" => looksLikeHex
    /\ \A e \in Encodings, i \in Index :
         (e = "hex" => looksLikeHex) =>
           Score(fits[e][i]) <= Score(fits[used][recommended])

\* The reading that the printed `view` command takes of the same source: it says
\* --encoding raw for a raw one, and nothing for hex.
ConfirmReading == IF used = "raw" THEN "raw" ELSE AutoDecodeMessage

\* The "Confirm with:" hint shows the user what doctor looked at ("confirm hint
\* must round-trip", doctor_specs_test.go:106).
ConfirmReadsTheSame == exit = "success" => ConfirmReading = used
=============================================================================
