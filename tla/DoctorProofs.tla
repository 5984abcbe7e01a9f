---------------------------- MODULE DoctorProofs ----------------------------
(***************************************************************************)
(* Proofs of the safety properties of Doctor, for any list of presets and  *)
(* any outcomes.  The scan keeps two numbers, bestScore and tieScore;      *)
(* ScanInv says what they know of the presets scored so far.               *)
(***************************************************************************)
EXTENDS Doctor, WellFoundedInduction, TLAPS

\* What a scan of the first n - 1 scores of sc knows: b is the first of the best
\* (0 if there is none), bs its score, and ts the best score of the others.
Scanned(sc, n, b, bs, ts) ==
  /\ b < n /\ ts <= bs
  /\ b = 0 => bs = 0
  /\ b > 0 => bs > 0 /\ sc[b] = bs
  /\ \A i \in 1..(n - 1) : sc[i] <= bs
  /\ \A i \in 1..(b - 1) : sc[i] < bs
  /\ \A i \in 1..(n - 1) : i # b => sc[i] <= ts
  /\ ts > 0 => \E i \in 1..(n - 1) : i # b /\ sc[i] = ts

\* The scores of the presets on the reading that is diagnosed.
Scores == [i \in Index |-> Score(fits[used][i])]

ScanInv ==
  /\ used = "" => next = 1 /\ best = 0 /\ bestScore = 0 /\ tieScore = 0
  /\ used # "" => Scanned(Scores, next, best, bestScore, tieScore)

\* Where the command is.
ControlInv ==
  /\ pc = "resolve" => used = ""
  /\ used = "" => pc \in {"resolve", "done"}
  /\ pc = "verdict" \/ (pc = "done" /\ used # "") => next = Len(Presets) + 1
  /\ exit # "" <=> pc = "done"

\* Which encoding it has chosen.
EncodingInv ==
  /\ used = "hex" => looksLikeHex
  /\ encoding = "auto" /\ used # "" => used = AutoDecodeMessage

\* What the recommendation rests on.
VerdictInv ==
  /\ exit = "success" =>
       /\ used # ""
       /\ best > 0 /\ recommended = best
       /\ recommendations = {i \in Index : Scores[i] = bestScore}
  /\ exit = "failure" => used = "" \/ best = 0

\* What the warnings rest on.
WarningInv ==
  /\ exit = "success" => (ambiguous <=> tieScore = bestScore)
  /\ likelyMalformed =>
       exit = "failure" /\ used # "" /\ \A i \in Index : fits[used][i].truncated

IInv ==
  TypeOK /\ ScanInv /\ ControlInv /\ EncodingInv /\ VerdictInv /\ WarningInv

-----------------------------------------------------------------------------
(* Scores *)

MaxScore == 330 + 2 * MaxFields

\* A score is a bounded natural number, and 0 exactly for a failure to unpack.
LEMMA ScoreFacts ==
  ASSUME NEW o \in Outcome
  PROVE  /\ Score(o) \in Nat
         /\ Score(o) <= MaxScore
         /\ Score(o) > 0 <=> o.unpacks
<1>1. MaxFields \in Nat
  BY DoctorAssumption
<1>2. CASE o.unpacks
  <2>1. o.fields \in 0..MaxFields /\ o.validMTI \in BOOLEAN /\ o.exact \in BOOLEAN
    BY <1>2 DEF Outcome
  <2>2. Score(o) = 100 + (IF o.validMTI THEN 30 ELSE 0) + 2 * o.fields
                       + (IF o.exact THEN 200 ELSE 0)
    BY <1>2 DEF Score
  <2> QED
    BY <1>1, <1>2, <2>1, <2>2 DEF MaxScore
<1>3. CASE ~o.unpacks
  BY <1>1, <1>3 DEF Score, MaxScore
<1> QED
  BY <1>2, <1>3

\* The outcome of a preset under either reading is one.
LEMMA FitsFacts ==
  ASSUME TypeOK, NEW e \in Encodings, NEW i \in Index
  PROVE  /\ Score(fits[e][i]) \in Nat
         /\ Score(fits[e][i]) <= MaxScore
         /\ Score(fits[e][i]) > 0 <=> fits[e][i].unpacks
<1>1. fits[e][i] \in Outcome
  BY DoctorAssumption DEF TypeOK
<1> QED
  BY <1>1, ScoreFacts

\* A bounded, non-empty set of natural numbers has a greatest element.
LEMMA Greatest ==
  ASSUME NEW S \in SUBSET Nat, S # {},
         NEW B \in Nat, \A s \in S : s <= B
  PROVE  \E m \in S : \A t \in S : t <= m
<1> DEFINE U == {u \in Nat : \A s \in S : s <= u}
<1>1. B \in U
  OBVIOUS
<1>2. IsWellFoundedOn(OpToRel(<, Nat), Nat)
  BY NatLessThanWellFounded
<1>3. PICK u \in U : \A v \in U : ~(<<v, u>> \in OpToRel(<, Nat))
  BY <1>1, <1>2, WFMin
<1>4. \A v \in U : ~(v < u)
  BY <1>3 DEF OpToRel
<1>5. u \in S
  <2>1. SUFFICES ASSUME u \notin S PROVE FALSE
    OBVIOUS
  <2>2. \A s \in S : s < u
    BY <2>1
  <2>3. PICK x \in S : x < u
    BY <2>2
  <2>4. u - 1 \in Nat /\ \A t \in S : t <= u - 1
    BY <2>2, <2>3
  <2>5. u - 1 \in U
    BY <2>4
  <2> QED
    BY <2>5, <1>4
<1> QED
  BY <1>5

\* BestScore is what its name says.
LEMMA BestScoreFacts ==
  ASSUME TypeOK, NEW e \in Encodings
  PROVE  /\ BestScore(e) \in Nat
         /\ \A i \in Index : Score(fits[e][i]) <= BestScore(e)
         /\ BestScore(e) > 0 => \E i \in Index : Score(fits[e][i]) = BestScore(e)
<1> DEFINE S == {Score(fits[e][i]) : i \in Index} \cup {0}
<1>1. S \in SUBSET Nat /\ S # {}
  BY FitsFacts
<1>2. MaxScore \in Nat /\ \A s \in S : s <= MaxScore
  BY FitsFacts, DoctorAssumption DEF MaxScore
<1>3. \E m \in S : \A t \in S : t <= m
  <2> HIDE DEF S
  <2> QED
    BY <1>1, <1>2, Greatest
<1>4. BestScore(e) = CHOOSE m \in S : \A t \in S : t <= m
  BY DEF BestScore
<1>5. BestScore(e) \in S /\ \A t \in S : t <= BestScore(e)
  <2> HIDE DEF S
  <2> QED
    BY <1>3, <1>4
<1> QED
  BY <1>1, <1>5

-----------------------------------------------------------------------------
(* The scan *)

\* One more score, as the loop of DiagnoseSpec takes it into account.
LEMMA ScanStep ==
  ASSUME NEW L \in Nat, NEW sc \in [1..L -> Nat], NEW n \in 1..L,
         NEW b \in 0..L, NEW bs \in Nat, NEW ts \in Nat,
         Scanned(sc, n, b, bs, ts)
  PROVE  Scanned(sc, n + 1,
                 IF sc[n] > bs THEN n ELSE b,
                 IF sc[n] > bs THEN sc[n] ELSE bs,
                 IF sc[n] > bs THEN bs ELSE IF sc[n] > ts THEN sc[n] ELSE ts)
<1>1. /\ 1..((n + 1) - 1) = 1..(n - 1) \cup {n} /\ n \notin 1..(n - 1)
      /\ \A i \in 1..n : sc[i] \in Nat
  OBVIOUS
<1>2. CASE sc[n] > bs
  <2>1. \A i \in 1..(n - 1) : sc[i] < sc[n]
    BY <1>1, <1>2 DEF Scanned
  <2>2. bs > 0 => \E i \in 1..n : i # n /\ sc[i] = bs
    <3>1. SUFFICES ASSUME bs > 0 PROVE \E i \in 1..n : i # n /\ sc[i] = bs
      OBVIOUS
    <3>2. b \in 1..n /\ b # n /\ sc[b] = bs
      BY <3>1 DEF Scanned
    <3> QED
      BY <3>2
  <2>3. Scanned(sc, n + 1, n, sc[n], bs)
    BY <1>1, <1>2, <2>1, <2>2 DEF Scanned
  <2> QED
    BY <1>2, <2>3
<1>3. CASE ~(sc[n] > bs) /\ sc[n] > ts
  <2>1. b # n /\ n \in 1..n /\ sc[n] \in Nat
    BY <1>1 DEF Scanned
  <2>2. \E i \in 1..((n + 1) - 1) : i # b /\ sc[i] = sc[n]
    BY <2>1, <1>1
  <2>3. \A i \in 1..((n + 1) - 1) : i # b => sc[i] <= sc[n]
    BY <1>1, <1>3 DEF Scanned
  <2>4. \A i \in 1..((n + 1) - 1) : sc[i] <= bs
    BY <1>1, <1>3 DEF Scanned
  <2>5. b < n + 1 /\ sc[n] <= bs
    BY <1>1, <1>3 DEF Scanned
  <2>6. Scanned(sc, n + 1, b, bs, sc[n])
    BY <2>2, <2>3, <2>4, <2>5 DEF Scanned
  <2> QED
    BY <1>3, <2>6
<1>4. CASE ~(sc[n] > bs) /\ ~(sc[n] > ts)
  <2>1. Scanned(sc, n + 1, b, bs, ts)
    BY <1>1, <1>4 DEF Scanned
  <2> QED
    BY <1>4, <2>1
<1> QED
  BY <1>2, <1>3, <1>4

\* Before the first score a scan knows nothing.
LEMMA ScanStart == ASSUME NEW sc PROVE Scanned(sc, 1, 0, 0, 0)
BY DEF Scanned

-----------------------------------------------------------------------------
(* IInv is inductive *)

\* The command starts with nothing chosen and nothing scored.
LEMMA InitInv == Init => IInv
<1> SUFFICES ASSUME Init PROVE IInv
  OBVIOUS
<1>1. Len(Presets) \in Nat
  BY DoctorAssumption
<1>2. /\ pc = "resolve" /\ used = "" /\ exit = "" /\ recommended = 0
      /\ next = 1 /\ best = 0 /\ bestScore = 0 /\ tieScore = 0
  BY DEF Init
<1>3. likelyMalformed = FALSE /\ ambiguous = FALSE
  BY DEF Init
<1>4. TypeOK
  <2>1. /\ next \in 1..(Len(Presets) + 1) /\ best \in 0..Len(Presets)
        /\ bestScore \in Nat /\ tieScore \in Nat /\ recommended \in 0..Len(Presets)
    <3>1. \A n \in Nat : 1 \in 1..(n + 1) /\ 0 \in 0..n
      OBVIOUS
    <3> QED
      BY <1>1, <1>2, <3>1
  <2>2. recommendations \subseteq Index
    BY DEF Init
  <2>3. /\ used \in Encodings \cup {""} /\ exit \in {"", "success", "failure"}
        /\ pc \in {"resolve", "scan", "verdict", "done"}
    BY <1>2
  <2>4. /\ fits \in [Encodings -> [Index -> Outcomes]]
        /\ encoding \in {"auto", "hex", "raw"} /\ looksLikeHex \in BOOLEAN
        /\ ambiguous \in BOOLEAN /\ likelyMalformed \in BOOLEAN
    BY DEF Init
  <2> QED
    BY <2>1, <2>2, <2>3, <2>4 DEF TypeOK
<1>5. ScanInv /\ ControlInv
  BY <1>2 DEF ScanInv, ControlInv
<1>6. exit # "success" /\ exit # "failure" /\ used # "hex"
  BY <1>2
<1>7. EncodingInv /\ VerdictInv /\ WarningInv
  BY <1>2, <1>3, <1>6 DEF EncodingInv, VerdictInv, WarningInv
<1> QED
  BY <1>4, <1>5, <1>7 DEF IInv

\* What the best candidate's index and score are whenever one is known.
LEMMA TypeFacts ==
  ASSUME TypeOK
  PROVE  /\ Len(Presets) \in Nat
         /\ next \in Nat /\ next >= 1 /\ next <= Len(Presets) + 1
         /\ best \in Nat /\ best <= Len(Presets)
         /\ bestScore \in Nat /\ tieScore \in Nat
         /\ used # "" => used \in Encodings /\ Scores \in [Index -> Nat]
<1>1. Len(Presets) \in Nat
  BY DoctorAssumption
<1>2. next \in 1..(Len(Presets) + 1) /\ best \in 0..Len(Presets)
      /\ bestScore \in Nat /\ tieScore \in Nat
  BY DEF TypeOK
<1>3. /\ next \in Nat /\ next >= 1 /\ next <= Len(Presets) + 1
      /\ best \in Nat /\ best <= Len(Presets)
  BY <1>1, <1>2
<1>4. used # "" => used \in Encodings
  BY DEF TypeOK
<1>5. used # "" => Scores \in [Index -> Nat]
  BY <1>4, FitsFacts DEF Scores
<1> QED
  BY <1>1, <1>2, <1>3, <1>4, <1>5

\* Choosing the encoding starts a scan of that reading.
LEMMA ResolveStep == IInv /\ Resolve => IInv'
<1> SUFFICES ASSUME IInv, Resolve PROVE IInv'
  OBVIOUS
<1> USE DEF IInv
<1>1. /\ pc = "resolve" /\ pc' = "scan"
      /\ UNCHANGED <<fits, encoding, next, best, bestScore, tieScore, recommended,
                     recommendations, exit>>
  BY DEF Resolve, inputVars, scanVars, verdictVars
<1>2. UNCHANGED <<looksLikeHex, ambiguous, likelyMalformed>>
  BY DEF Resolve, inputVars, verdictVars
<1>3. /\ encoding = "hex" => looksLikeHex
      /\ used' = IF encoding = "auto" THEN AutoDecodeMessage ELSE encoding
  BY DEF Resolve
<1>4. AutoDecodeMessage \in Encodings /\ (AutoDecodeMessage = "hex" => looksLikeHex)
  BY DEF AutoDecodeMessage, Encodings
<1>5. used' \in Encodings /\ (used' = "hex" => looksLikeHex)
  BY <1>3, <1>4 DEF TypeOK, Encodings
<1>6. used = "" /\ used' # ""
  BY <1>1, <1>5 DEF ControlInv, Encodings
<1>7. TypeOK'
  BY <1>1, <1>2, <1>5 DEF TypeOK
<1>8. ScanInv'
  <2>1. next' = 1 /\ best' = 0 /\ bestScore' = 0 /\ tieScore' = 0
    BY <1>1, <1>6 DEF ScanInv
  <2>2. Scanned(Scores', 1, 0, 0, 0)
    BY ScanStart
  <2> QED
    BY <1>6, <2>1, <2>2 DEF ScanInv
<1>9. ControlInv'
  BY <1>1, <1>6 DEF ControlInv
<1>10. EncodingInv'
  <2>1. AutoDecodeMessage' = AutoDecodeMessage
    BY <1>1, <1>2 DEF AutoDecodeMessage, BestScore
  <2> QED
    BY <1>1, <1>2, <1>3, <1>5, <2>1 DEF EncodingInv
<1>11. exit' # "success" /\ exit' # "failure"
  BY <1>1 DEF ControlInv
<1>12. VerdictInv'
  BY <1>11 DEF VerdictInv
<1>13. WarningInv'
  BY <1>2, <1>6, <1>11 DEF WarningInv
<1> QED
  BY <1>7, <1>8, <1>9, <1>10, <1>12, <1>13

\* Refusing the source ends the command before anything is scored.
LEMMA ResolveFailsStep == IInv /\ ResolveFails => IInv'
<1> SUFFICES ASSUME IInv, ResolveFails PROVE IInv'
  OBVIOUS
<1> USE DEF IInv
<1>1. /\ pc = "resolve" /\ pc' = "done" /\ exit' = "failure"
      /\ UNCHANGED <<fits, encoding, used, next, best, bestScore, tieScore,
                     recommended, recommendations>>
  BY DEF ResolveFails, inputVars, scanVars
<1>2. UNCHANGED <<looksLikeHex, ambiguous, likelyMalformed>>
  BY DEF ResolveFails, inputVars
<1>3. used = "" /\ used' = "" /\ used' # "hex" /\ exit' # "success"
  BY <1>1 DEF ControlInv
<1>4. TypeOK'
  <2>1. exit' \in {"", "success", "failure"} /\ pc' \in {"resolve", "scan", "verdict", "done"}
    BY <1>1
  <2> QED
    BY <1>1, <1>2, <2>1 DEF TypeOK
<1>5. ScanInv'
  BY <1>1, <1>3 DEF ScanInv
<1>6. ControlInv'
  BY <1>1, <1>3 DEF ControlInv
<1>7. EncodingInv' /\ VerdictInv'
  BY <1>3 DEF EncodingInv, VerdictInv
<1>8. WarningInv'
  BY <1>2, <1>3 DEF WarningInv
<1> QED
  BY <1>4, <1>5, <1>6, <1>7, <1>8

\* Scoring a preset keeps what the scan knows.
LEMMA ScorePresetStep == IInv /\ ScorePreset => IInv'
<1> SUFFICES ASSUME IInv, ScorePreset PROVE IInv'
  OBVIOUS
<1> USE DEF IInv
<1> DEFINE s == Scores[next]
<1>1. /\ pc = "scan" /\ pc' = "scan" /\ next \in Index /\ next' = next + 1
      /\ UNCHANGED <<fits, encoding, used, recommended, recommendations, exit>>
  BY DEF ScorePreset, inputVars, verdictVars
<1>2. UNCHANGED <<looksLikeHex, ambiguous, likelyMalformed>>
  BY DEF ScorePreset, inputVars, verdictVars
<1>3. used # "" /\ exit # "success" /\ exit # "failure"
  BY <1>1 DEF ControlInv
<1>4. Scores \in [1..Len(Presets) -> Nat] /\ next \in 1..Len(Presets)
      /\ Len(Presets) \in Nat /\ s \in Nat
  BY <1>1, <1>3, TypeFacts DEF Index
<1>5. /\ best' = IF s > bestScore THEN next ELSE best
      /\ bestScore' = IF s > bestScore THEN s ELSE bestScore
      /\ tieScore' = IF s > bestScore THEN bestScore
                     ELSE IF s > tieScore THEN s ELSE tieScore
  <2>1. s = Score(fits[used][next])
    BY <1>1 DEF Scores
  <2> QED
    BY <2>1 DEF ScorePreset, Beats, TieAfter
<1>6. best \in 0..Len(Presets) /\ bestScore \in Nat /\ tieScore \in Nat
  BY DEF TypeOK
<1>7. TypeOK'
  <2>1. next' \in 1..(Len(Presets) + 1)
    BY <1>1, <1>4
  <2>2. best' \in 0..Len(Presets) /\ bestScore' \in Nat /\ tieScore' \in Nat
    <3> HIDE DEF s
    <3> QED
      BY <1>4, <1>5, <1>6
  <2> QED
    BY <1>1, <1>2, <2>1, <2>2 DEF TypeOK
<1>8. ScanInv'
  <2>1. Scanned(Scores, next, best, bestScore, tieScore)
    BY <1>3 DEF ScanInv
  <2>2. Scanned(Scores, next + 1,
                IF Scores[next] > bestScore THEN next ELSE best,
                IF Scores[next] > bestScore THEN Scores[next] ELSE bestScore,
                IF Scores[next] > bestScore THEN bestScore
                ELSE IF Scores[next] > tieScore THEN Scores[next] ELSE tieScore)
    BY <1>4, <1>6, <2>1, ScanStep
  <2>3. Scores' = Scores
    BY <1>1 DEF Scores
  <2>4. Scanned(Scores', next', best', bestScore', tieScore')
    BY <1>1, <1>5, <2>2, <2>3
  <2> QED
    BY <1>1, <1>3, <2>4 DEF ScanInv
<1>9. ControlInv'
  BY <1>1, <1>3 DEF ControlInv
<1>10. EncodingInv'
  <2>1. AutoDecodeMessage' = AutoDecodeMessage
    BY <1>1, <1>2 DEF AutoDecodeMessage, BestScore
  <2> QED
    BY <1>1, <1>2, <2>1 DEF EncodingInv
<1>11. VerdictInv'
  BY <1>1, <1>3 DEF VerdictInv
<1>12. WarningInv'
  BY <1>1, <1>2, <1>3 DEF WarningInv
<1> QED
  BY <1>7, <1>8, <1>9, <1>10, <1>11, <1>12

\* The end of the scan only moves on.
LEMMA ScanDoneStep == IInv /\ ScanDone => IInv'
<1> SUFFICES ASSUME IInv, ScanDone PROVE IInv'
  OBVIOUS
<1> USE DEF IInv
<1>1. /\ pc = "scan" /\ pc' = "verdict" /\ next \notin Index
      /\ UNCHANGED <<fits, encoding, used, next, best, bestScore, tieScore,
                     recommended, recommendations, exit>>
  BY DEF ScanDone, inputVars, scanVars, verdictVars
<1>2. UNCHANGED <<looksLikeHex, ambiguous, likelyMalformed>>
  BY DEF ScanDone, inputVars, verdictVars
<1>3. next = Len(Presets) + 1
  <2>1. Len(Presets) \in Nat /\ next \in Nat /\ next >= 1 /\ next <= Len(Presets) + 1
    BY TypeFacts
  <2> QED
    BY <1>1, <2>1 DEF Index
<1>4. Scores' = Scores
  BY <1>1 DEF Scores
<1>5. AutoDecodeMessage' = AutoDecodeMessage
  BY <1>1, <1>2 DEF AutoDecodeMessage, BestScore
<1>6. TypeOK'
  BY <1>1, <1>2 DEF TypeOK
<1>7. ScanInv' /\ ControlInv'
  BY <1>1, <1>3, <1>4 DEF ScanInv, ControlInv
<1>8. EncodingInv'
  BY <1>1, <1>2, <1>5 DEF EncodingInv
<1>9. VerdictInv'
  BY <1>1, <1>4 DEF VerdictInv
<1>10. WarningInv'
  BY <1>1, <1>2 DEF WarningInv
<1> QED
  BY <1>6, <1>7, <1>8, <1>9, <1>10

\* The recommendation is read off what the scan knows.
LEMMA RecommendStep == IInv /\ Recommend => IInv'
<1> SUFFICES ASSUME IInv, Recommend PROVE IInv'
  OBVIOUS
<1> USE DEF IInv
<1>1. /\ pc = "verdict" /\ pc' = "done" /\ best > 0 /\ exit' = "success"
      /\ recommended' = best
      /\ UNCHANGED <<fits, encoding, used, next, best, bestScore, tieScore>>
  BY DEF Recommend, inputVars, scanVars
<1>2. /\ UNCHANGED <<looksLikeHex, likelyMalformed>>
      /\ ambiguous' = (tieScore = bestScore)
  BY DEF Recommend, inputVars
<1>3. recommendations' = {i \in Index : Scores[i] = bestScore}
  BY DEF Recommend, Scores
<1>4. used # "" /\ exit = ""
  BY <1>1 DEF ControlInv, TypeOK
<1>5. Scores' = Scores
  BY <1>1 DEF Scores
<1>6. AutoDecodeMessage' = AutoDecodeMessage
  BY <1>1, <1>2 DEF AutoDecodeMessage, BestScore
<1>7. TypeOK'
  <2>1. recommended' \in 0..Len(Presets) /\ recommendations' \subseteq Index
    BY <1>1, <1>3 DEF TypeOK
  <2>2. exit' \in {"", "success", "failure"}
        /\ pc' \in {"resolve", "scan", "verdict", "done"} /\ ambiguous' \in BOOLEAN
    BY <1>1, <1>2
  <2> QED
    BY <1>1, <1>2, <2>1, <2>2 DEF TypeOK
<1>8. ScanInv' /\ ControlInv'
  BY <1>1, <1>4, <1>5 DEF ScanInv, ControlInv
<1>9. EncodingInv'
  BY <1>1, <1>2, <1>6 DEF EncodingInv
<1>10. VerdictInv'
  BY <1>1, <1>3, <1>4, <1>5 DEF VerdictInv
<1>11. WarningInv'
  BY <1>1, <1>2, <1>4 DEF WarningInv
<1> QED
  BY <1>7, <1>8, <1>9, <1>10, <1>11

\* So is its absence.
LEMMA NoFitStep == IInv /\ NoFit => IInv'
<1> SUFFICES ASSUME IInv, NoFit PROVE IInv'
  OBVIOUS
<1> USE DEF IInv
<1>1. /\ pc = "verdict" /\ pc' = "done" /\ best = 0 /\ exit' = "failure"
      /\ UNCHANGED <<fits, encoding, used, next, best, bestScore, tieScore,
                     recommended, recommendations>>
  BY DEF NoFit, inputVars, scanVars
<1>2. UNCHANGED <<looksLikeHex, ambiguous>> /\ likelyMalformed' = AllTruncated
  BY DEF NoFit, inputVars
<1>3. used # ""
  BY <1>1 DEF ControlInv
<1>4. Scores' = Scores
  BY <1>1 DEF Scores
<1>5. AutoDecodeMessage' = AutoDecodeMessage
  BY <1>1, <1>2 DEF AutoDecodeMessage, BestScore
<1>6. TypeOK'
  <2>1. exit' \in {"", "success", "failure"}
        /\ pc' \in {"resolve", "scan", "verdict", "done"}
    BY <1>1
  <2>2. likelyMalformed' \in BOOLEAN
    BY <1>2 DEF AllTruncated
  <2> QED
    BY <1>1, <1>2, <2>1, <2>2 DEF TypeOK
<1>7. ScanInv' /\ ControlInv'
  BY <1>1, <1>3, <1>4 DEF ScanInv, ControlInv
<1>8. EncodingInv'
  BY <1>1, <1>2, <1>5 DEF EncodingInv
<1>9. VerdictInv'
  BY <1>1 DEF VerdictInv
<1>10. WarningInv'
  BY <1>1, <1>2, <1>3 DEF WarningInv, AllTruncated
<1> QED
  BY <1>6, <1>7, <1>8, <1>9, <1>10

\* Every step keeps IInv.
LEMMA StepInv == IInv /\ [Next]_vars => IInv'
<1> SUFFICES ASSUME IInv, [Next]_vars PROVE IInv'
  OBVIOUS
<1>1. CASE Finished \/ UNCHANGED vars
  <2>1. /\ UNCHANGED <<fits, encoding, pc, used, next, best, bestScore, tieScore,
                       recommended, recommendations, exit, looksLikeHex,
                       ambiguous, likelyMalformed>>
    BY <1>1 DEF Finished, vars, inputVars, scanVars, verdictVars
  <2>2. Scores' = Scores /\ AutoDecodeMessage' = AutoDecodeMessage
    BY <2>1 DEF Scores, AutoDecodeMessage, BestScore
  <2>3. TypeOK' /\ ScanInv' /\ ControlInv'
    BY <2>1, <2>2 DEF IInv, TypeOK, ScanInv, ControlInv
  <2>4. EncodingInv' /\ VerdictInv' /\ WarningInv'
    BY <2>1, <2>2 DEF IInv, EncodingInv, VerdictInv, WarningInv
  <2> QED
    BY <2>3, <2>4 DEF IInv
<1> QED
  BY <1>1, ResolveStep, ResolveFailsStep, ScorePresetStep, ScanDoneStep,
     RecommendStep, NoFitStep DEF Next

\* So IInv always holds.
LEMMA Invariance == Spec => []IInv
BY InitInv, StepInv, PTL DEF Spec

-----------------------------------------------------------------------------
(* What doctor promises *)

\* Once there is a recommendation, the whole list has been scanned.
LEMMA VerdictFacts ==
  ASSUME IInv, exit = "success"
  PROVE  /\ used \in Encodings /\ Len(Presets) \in Nat
         /\ recommended = best /\ best \in Index /\ Scores \in [Index -> Nat]
         /\ 1..(next - 1) = Index /\ Scanned(Scores, next, best, bestScore, tieScore)
         /\ bestScore = Scores[best] /\ bestScore > 0
         /\ recommendations = {i \in Index : Scores[i] = bestScore}
<1>1. /\ pc = "done" /\ used # "" /\ recommended = best
      /\ recommendations = {i \in Index : Scores[i] = bestScore}
  BY DEF IInv, ControlInv, VerdictInv
<1>2. best > 0
  BY DEF IInv, VerdictInv
<1>3. next = Len(Presets) + 1
  BY <1>1 DEF IInv, ControlInv
<1>4. /\ Len(Presets) \in Nat /\ best \in Index /\ 1..(next - 1) = Index
      /\ used \in Encodings /\ Scores \in [Index -> Nat]
  <2>1. /\ Len(Presets) \in Nat /\ best \in Nat /\ best <= Len(Presets)
        /\ used \in Encodings /\ Scores \in [Index -> Nat]
    BY <1>1, TypeFacts DEF IInv
  <2>2. best > 0 /\ next - 1 = Len(Presets)
    BY <1>2, <1>3, <2>1
  <2>3. best \in Index /\ 1..(next - 1) = Index
    BY <2>1, <2>2 DEF Index
  <2> QED
    BY <2>1, <2>3
<1>5. Scanned(Scores, next, best, bestScore, tieScore)
  BY <1>1 DEF IInv, ScanInv
<1>6. bestScore = Scores[best] /\ bestScore > 0
  BY <1>2, <1>5 DEF Scanned
<1> QED
  BY <1>1, <1>4, <1>5, <1>6

\* doctor recommends the first of the best presets and lists those that equal it,
\* for any list of presets and any outcomes.
THEOREM RecommendsTheBestHolds == Spec => []RecommendsTheBest
<1>1. IInv => RecommendsTheBest
  <2>1. SUFFICES ASSUME IInv, exit = "success"
                 PROVE  /\ recommended \in Index
                        /\ \A i \in Index : Scores[i] <= Scores[recommended]
                        /\ \A i \in Index : i < recommended =>
                              Scores[i] < Scores[recommended]
                        /\ recommendations =
                              {i \in Index : Scores[i] = Scores[recommended]}
    BY DEF RecommendsTheBest, Scores
  <2>2. /\ recommended = best /\ best \in Index /\ bestScore = Scores[best]
        /\ recommendations = {i \in Index : Scores[i] = bestScore}
    BY <2>1, VerdictFacts
  <2>3. \A i \in Index : Scores[i] <= bestScore
    BY <2>1, VerdictFacts DEF Scanned
  <2>4. \A i \in Index : i < best => Scores[i] < bestScore
    <3>1. \A i \in 1..(best - 1) : Scores[i] < bestScore
      BY <2>1, VerdictFacts DEF Scanned
    <3>2. \A i \in Index : i < best => i \in 1..(best - 1)
      BY <2>2 DEF Index
    <3> QED
      BY <3>1, <3>2
  <2> QED
    BY <2>2, <2>3, <2>4
<1> QED
  BY Invariance, <1>1, PTL

\* The warning is given exactly for a tie.
THEOREM AmbiguityIsATieHolds == Spec => []AmbiguityIsATie
<1>1. IInv => AmbiguityIsATie
  <2>1. SUFFICES ASSUME IInv, exit = "success"
                 PROVE  ambiguous <=> \E i \in recommendations : i # recommended
    BY DEF AmbiguityIsATie
  <2>2. ambiguous <=> tieScore = bestScore
    BY <2>1 DEF IInv, WarningInv
  <2>3. /\ recommended = best /\ bestScore > 0 /\ 1..(next - 1) = Index
        /\ recommendations = {i \in Index : Scores[i] = bestScore}
        /\ Scanned(Scores, next, best, bestScore, tieScore)
        /\ Scores \in [Index -> Nat]
    BY <2>1, VerdictFacts
  <2>4. bestScore \in Nat /\ tieScore \in Nat
    BY <2>1, TypeFacts DEF IInv
  <2>5. tieScore = bestScore => \E i \in Index : i # best /\ Scores[i] = bestScore
    BY <2>3, <2>4 DEF Scanned
  <2>6. ASSUME NEW i \in Index, i # best, Scores[i] = bestScore
        PROVE  tieScore = bestScore
    <3>1. Scores[i] <= tieScore /\ tieScore <= bestScore
      BY <2>3, <2>6 DEF Scanned
    <3> QED
      BY <2>4, <2>6, <3>1
  <2> QED
    BY <2>2, <2>3, <2>5, <2>6
<1> QED
  BY Invariance, <1>1, PTL

\* doctor fails only if nothing unpacks, and blames truncation only if all of it
\* was truncated.
THEOREM FailureIsNoFitHolds == Spec => []FailureIsNoFit
<1>1. IInv => FailureIsNoFit
  <2>1. SUFFICES ASSUME IInv PROVE FailureIsNoFit
    OBVIOUS
  <2>2. ASSUME exit = "failure", used # "", NEW i \in Index
        PROVE  ~fits[used][i].unpacks
    <3>1. /\ pc = "done" /\ best = 0 /\ next = Len(Presets) + 1
          /\ Scanned(Scores, next, best, bestScore, tieScore)
      BY <2>1, <2>2 DEF IInv, ControlInv, VerdictInv, ScanInv
    <3>2. TypeOK /\ used \in Encodings /\ Len(Presets) \in Nat
      BY <2>1, <2>2, TypeFacts DEF IInv
    <3>3. i \in 1..(next - 1) /\ bestScore = 0
      BY <3>1, <3>2 DEF Index, Scanned
    <3>4. Scores[i] <= 0
      BY <3>1, <3>3 DEF Scanned
    <3>5. Scores[i] = Score(fits[used][i])
      BY DEF Scores
    <3>6. Score(fits[used][i]) \in Nat /\ (Score(fits[used][i]) > 0 <=> fits[used][i].unpacks)
      BY <3>2, FitsFacts
    <3>7. ~(Score(fits[used][i]) > 0)
      BY <3>2, <3>4, <3>5, FitsFacts
    <3> QED
      BY <3>6, <3>7
  <2>3. ASSUME exit = "success" PROVE fits[used][recommended].unpacks
    <3>1. TypeOK /\ used \in Encodings /\ recommended \in Index /\ Scores[recommended] > 0
      BY <2>1, <2>3, VerdictFacts DEF IInv
    <3>2. Score(fits[used][recommended]) > 0
      BY <3>1 DEF Scores
    <3> QED
      BY <3>1, <3>2, FitsFacts
  <2>4. likelyMalformed => \A i \in Index : fits[used][i].truncated
    BY <2>1 DEF IInv, WarningInv
  <2> QED
    BY <2>2, <2>3, <2>4 DEF FailureIsNoFit
<1> QED
  BY Invariance, <1>1, PTL

\* Left to detect the encoding, doctor diagnoses the reading that fits best: what
\* autoDecodeMessage compares is what the scan then finds.
THEOREM DetectsTheBestReadingHolds == Spec => []DetectsTheBestReading
<1>1. IInv => DetectsTheBestReading
  <2>1. SUFFICES ASSUME IInv, exit = "success", encoding = "auto"
                 PROVE  /\ used = "hex" => looksLikeHex
                        /\ \A e \in Encodings, i \in Index :
                             (e = "hex" => looksLikeHex) =>
                               Score(fits[e][i]) <= Score(fits[used][recommended])
    BY DEF DetectsTheBestReading
  <2>2. /\ TypeOK /\ used \in Encodings /\ recommended \in Index
        /\ \A i \in Index : Scores[i] <= Scores[recommended]
    <3>1. recommended = best /\ best \in Index /\ bestScore = Scores[best]
      BY <2>1, VerdictFacts
    <3>2. \A i \in Index : Scores[i] <= bestScore
      BY <2>1, VerdictFacts DEF Scanned
    <3> QED
      BY <2>1, <3>1, <3>2, VerdictFacts DEF IInv
  <2> DEFINE top == Score(fits[used][recommended])
  <2>3. top \in Nat /\ \A i \in Index : Score(fits[used][i]) <= top
    BY <2>2, FitsFacts DEF Scores
  <2>4. BestScore(used) <= top
    BY <2>2, <2>3, BestScoreFacts
  <2>5. used = AutoDecodeMessage /\ (used = "hex" => looksLikeHex)
    BY <2>1, <2>2 DEF IInv, EncodingInv, Encodings
  <2>6. ASSUME NEW e \in Encodings, e = "hex" => looksLikeHex
        PROVE  BestScore(e) <= BestScore(used)
    <3>1. BestScore("raw") \in Nat /\ BestScore("hex") \in Nat
      BY <2>2, BestScoreFacts DEF Encodings
    <3>2. CASE looksLikeHex
      <4>1. used = IF BestScore("raw") > BestScore("hex") THEN "raw" ELSE "hex"
        BY <2>5, <3>2 DEF AutoDecodeMessage
      <4>2. e = "raw" \/ e = "hex"
        BY DEF Encodings
      <4> QED
        BY <3>1, <4>1, <4>2
    <3>3. CASE ~looksLikeHex
      <4>1. e = "raw" /\ used = "raw"
        BY <2>5, <2>6, <3>3 DEF AutoDecodeMessage, Encodings
      <4> QED
        BY <3>1, <4>1
    <3> QED
      BY <3>2, <3>3
  <2>7. ASSUME NEW e \in Encodings, NEW i \in Index, e = "hex" => looksLikeHex
        PROVE  Score(fits[e][i]) <= top
    <3>1. BestScore(e) <= BestScore(used)
      BY <2>6, <2>7
    <3>2. /\ Score(fits[e][i]) \in Nat /\ Score(fits[e][i]) <= BestScore(e)
          /\ BestScore(e) \in Nat /\ BestScore(used) \in Nat
      BY <2>2, FitsFacts, BestScoreFacts
    <3> HIDE DEF top
    <3> QED
      BY <2>3, <2>4, <3>1, <3>2
  <2> QED
    BY <2>5, <2>7
<1> QED
  BY Invariance, <1>1, PTL
=============================================================================
