--------------------------- MODULE InspectionProofs ---------------------------
(***************************************************************************)
(* Proofs of the properties of Inspection, for any messages, filters and   *)
(* specifications that InspectionAssumption admits.  The invariant says of *)
(* each command's result what it was computed from; each property is then  *)
(* a fact about the operators that computed it: the masks, the filters and *)
(* the strict rules.                                                       *)
(***************************************************************************)
EXTENDS Inspection, WellFoundedInduction, TLAPS

\* Which of view's masks a result shows.
ViewMask(p) ==
  IF in.filters = <<>> /\ in.format # "json"
  THEN MaskDescribe(p, in.before[p], in.builtin)
  ELSE MaskDocument(p, in.before[p], in.builtin)

ViewInv ==
  Succeeded(viewed) =>
    /\ DOMAIN viewed.shown \subseteq DOMAIN in.before
    /\ \A p \in DOMAIN viewed.shown : viewed.shown[p] = Unless(in.unsafe, ViewMask(p))
    /\ viewed.listing = Listing(in.before)
    /\ \A i \in DOMAIN in.filters :
         in.filters[i] \notin viewed.missing =>
           in.filters[i] \in Credited(DOMAIN in.before, in.filters)

DiffInv ==
  Succeeded(diffed) =>
    LET paths == DOMAIN in.before \cup DOMAIN in.after IN
    /\ diffed.changed = {p \in paths : MatchesAny(p, in.filters) /\ Differ(p)}
    /\ diffed.minus = Side(in.before, diffed.changed)
    /\ diffed.plus = Side(in.after, diffed.changed)
    /\ diffed.missing = UnmatchedFilters(paths, in.filters)

RedactInv ==
  Succeeded(redacted) =>
    /\ redacted.shown =
         [p \in DOMAIN in.before |-> MaskRedact(p, in.before[p], in.builtin)]
    /\ redacted.paths = RedactedPaths(in.before)

ValidateInv ==
  Reported =>
    /\ validated.issues = Issues(in.before)
    /\ validated.exit = "success" => Errors(Issues(in.before)) = {}
    /\ validated.unknown = [p \in DOMAIN in.before \cap Unknown |-> "hidden"]

IInv == in \in Cases /\ ViewInv /\ DiffInv /\ RedactInv /\ ValidateInv

-----------------------------------------------------------------------------
(* The invariant is inductive *)

LEMMA InitEstablishes == ASSUME Init PROVE IInv
  BY DEF Init, IInv, ViewInv, DiffInv, RedactInv, ValidateInv, Succeeded, Reported

LEMMA ViewFrame == ASSUME ViewInv, UNCHANGED <<in, viewed>> PROVE ViewInv'
  BY DEF ViewInv, Succeeded, ViewMask, Listing

LEMMA DiffFrame == ASSUME DiffInv, UNCHANGED <<in, diffed>> PROVE DiffInv'
  BY DEF DiffInv, Succeeded, Side, Differ

LEMMA RedactFrame == ASSUME RedactInv, UNCHANGED <<in, redacted>> PROVE RedactInv'
  BY DEF RedactInv, Succeeded, RedactedPaths

LEMMA ValidateFrame == ASSUME ValidateInv, UNCHANGED <<in, validated>> PROVE ValidateInv'
  BY DEF ValidateInv, Reported, Issues

LEMMA CaseFacts ==
  ASSUME in \in Cases
  PROVE  /\ in.filters \in Seq(Filter)
         /\ MTI \in DOMAIN in.before /\ MTI \in DOMAIN in.after
  BY InspectionAssumption

LEMMA ViewKeeps ==
  ASSUME IInv, ViewFiltered \/ ViewAll \/ ViewFails PROVE IInv'
<1>1. UNCHANGED <<in, diffed, redacted, validated>>
  BY DEF ViewFiltered, ViewAll, ViewFails
<1>2. ViewInv'
  <2>1. CASE ViewFiltered
    <3>1. viewed'.shown =
            [p \in {q \in DOMAIN in.before : MatchesAny(q, in.filters)}
                     \cup (IF in.format = "json" THEN {MTI} ELSE {}) |->
               Unless(in.unsafe, MaskDocument(p, in.before[p], in.builtin))]
      BY <2>1 DEF ViewFiltered
    <3>2. viewed'.missing =
            {in.filters[i] : i \in DOMAIN in.filters}
              \ Credited(DOMAIN in.before, in.filters)
      BY <2>1 DEF ViewFiltered
    <3>3. viewed'.listing = Listing(in.before) /\ Listing(in.before)' = Listing(in.before)
      BY <1>1, <2>1 DEF ViewFiltered, Listing
    <3>4. in.filters # <<>> /\ MTI \in DOMAIN in.before
      BY <2>1, CaseFacts DEF ViewFiltered, IInv
    <3>5. DOMAIN viewed'.shown \subseteq DOMAIN in.before
      BY <3>1, <3>4
    <3>6. \A p \in DOMAIN viewed'.shown :
            viewed'.shown[p] = Unless(in.unsafe, ViewMask(p))
      BY <3>1, <3>4 DEF ViewMask
    <3> QED BY <1>1, <3>2, <3>3, <3>5, <3>6 DEF ViewInv, ViewMask
  <2>2. CASE ViewAll
    <3>1. viewed'.shown =
            [p \in DOMAIN in.before |-> Unless(in.unsafe, ViewMask(p))]
      BY <2>2 DEF ViewAll, ViewMask
    <3>2. viewed'.listing = Listing(in.before) /\ Listing(in.before)' = Listing(in.before)
      BY <1>1, <2>2 DEF ViewAll, Listing
    <3>3. DOMAIN in.filters = {}
      BY <2>2 DEF ViewAll
    <3> QED BY <1>1, <3>1, <3>2, <3>3 DEF ViewInv, ViewMask
  <2>3. CASE ViewFails
    BY <2>3 DEF ViewFails, Failure, ViewInv, Succeeded
  <2> QED BY <2>1, <2>2, <2>3
<1> QED BY <1>1, <1>2, DiffFrame, RedactFrame, ValidateFrame DEF IInv

LEMMA DiffKeeps == ASSUME IInv, Diff \/ DiffFails PROVE IInv'
<1>1. UNCHANGED <<in, viewed, redacted, validated>>
  BY DEF Diff, DiffFails
<1>2. DiffInv'
  <2>1. CASE Diff
    <3> DEFINE paths == DOMAIN in.before \cup DOMAIN in.after
               changed == {p \in paths : MatchesAny(p, in.filters) /\ Differ(p)}
    <3>1. /\ diffed'.changed = changed
          /\ diffed'.minus = Side(in.before, changed)
          /\ diffed'.plus = Side(in.after, changed)
          /\ diffed'.missing = UnmatchedFilters(paths, in.filters)
      BY <2>1 DEF Diff
    <3> QED BY <1>1, <3>1 DEF DiffInv, Side, Differ
  <2>2. CASE DiffFails
    BY <2>2 DEF DiffFails, Failure, DiffInv, Succeeded
  <2> QED BY <2>1, <2>2
<1> QED BY <1>1, <1>2, ViewFrame, RedactFrame, ValidateFrame DEF IInv

LEMMA RedactKeeps == ASSUME IInv, Redact \/ RedactFails PROVE IInv'
<1>1. UNCHANGED <<in, viewed, diffed, validated>>
  BY DEF Redact, RedactFails
<1>2. RedactInv'
  <2>1. CASE Redact
    BY <1>1, <2>1 DEF Redact, RedactInv, RedactedPaths
  <2>2. CASE RedactFails
    BY <2>2 DEF RedactFails, Failure, RedactInv, Succeeded
  <2> QED BY <2>1, <2>2
<1> QED BY <1>1, <1>2, ViewFrame, DiffFrame, ValidateFrame DEF IInv

LEMMA ValidateKeeps == ASSUME IInv, Validate \/ ValidateFails PROVE IInv'
<1>1. UNCHANGED <<in, viewed, diffed, redacted>>
  BY DEF Validate, ValidateFails
<1>2. ValidateInv'
  <2>1. CASE Validate /\ in.format \in {"text", "json"}
    <3>1. /\ validated'.issues = Issues(in.before)
          /\ validated'.exit = "success" => Errors(Issues(in.before)) = {}
          /\ validated'.unknown = [p \in DOMAIN in.before \cap Unknown |-> "hidden"]
      BY <2>1 DEF Validate
    <3>2. Issues(in.before)' = Issues(in.before)
      BY <1>1 DEF Issues
    <3> QED BY <1>1, <3>1, <3>2 DEF ValidateInv
  <2>2. CASE Validate /\ in.format \notin {"text", "json"}
    BY <2>2 DEF Validate, ValidateInv, Reported
  <2>3. CASE ValidateFails
    BY <1>1, <2>3 DEF ValidateFails, ValidateInv, Reported
  <2> QED BY <2>1, <2>2, <2>3
<1> QED BY <1>1, <1>2, ViewFrame, DiffFrame, RedactFrame DEF IInv

LEMMA StepKeeps == ASSUME IInv, [Next]_vars PROVE IInv'
<1>1. CASE UNCHANGED vars
  BY <1>1, ViewFrame, DiffFrame, RedactFrame, ValidateFrame DEF vars, IInv
<1> QED BY <1>1, ViewKeeps, DiffKeeps, RedactKeeps, ValidateKeeps DEF Next, Finished

THEOREM Invariance == Spec => []IInv
  BY InitEstablishes, StepKeeps, PTL DEF Spec

-----------------------------------------------------------------------------
(* Masks *)

LEMMA MTIFacts == Len(MTI) = 1 /\ MTI[1] = "MTI" /\ ~SensitiveTag(MTI)
  BY DEF MTI, SensitiveTag

\* A sensitive path is none of the kinds that a mask by position shows.
LEMMA SensitiveIsMasked ==
  ASSUME NEW p, NEW v, NEW builtin \in BOOLEAN, p \in Unknown => Len(p) > 1,
         Positional(p, builtin) \/ SensitiveTag(p) \/ p \in Unknown
  PROVE  /\ MaskDocument(p, v, builtin) # "shown"
         /\ MaskDescribe(p, v, builtin) # "shown"
         /\ MaskValueForDiff(p, v, Unknown, builtin) # "shown"
         /\ MaskRedact(p, v, builtin) # "shown"
<1>1. p # MTI
  BY MTIFacts DEF Positional, SensitiveTag, panFieldIDs, trackFieldIDs, secretFieldIDs
<1>2. PositionalMask(p) # "shown"
  BY DEF PositionalMask
<1>3. MaskDocument(p, v, builtin) # "shown"
  BY <1>1, <1>2 DEF MaskDocument, MaskCardholderData
<1>4. \A unknown : MaskValueForDiff(p, v, unknown, builtin) # "shown"
                     \/ ~(Positional(p, builtin) \/ SensitiveTag(p) \/ p \in unknown)
  BY <1>2 DEF MaskValueForDiff
<1>5. MaskDescribe(p, v, builtin) # "shown"
  BY <1>4 DEF MaskDescribe
<1>6. MaskRedact(p, v, builtin) # "shown"
  BY <1>3 DEF MaskRedact
<1> QED BY <1>3, <1>4, <1>5, <1>6

LEMMA SideFacts ==
  ASSUME in \in Cases, ~in.unsafe, NEW d \in {in.before, in.after}, NEW paths
  PROVE  NothingShown(Side(d, paths)) /\ NothingShown(Listing(d))
<1>1. \A p \in DOMAIN d : p \in Unknown => Len(p) > 1
  BY InspectionAssumption
<1>3. in.builtin \in BOOLEAN
  BY InspectionAssumption
<1>2. ASSUME NEW p \in DOMAIN d, Sensitive(p)
      PROVE  MaskValueForDiff(p, d[p], Unknown, in.builtin) # "shown"
  BY <1>1, <1>2, <1>3, SensitiveIsMasked DEF Sensitive
<1> QED BY <1>2 DEF NothingShown, Side, Listing, Unless

\* No surface shows a cardholder field, a sensitive tag or an unknown tag in full.
THEOREM SensitiveIsMaskedEverywhereHolds == Spec => []SensitiveIsMaskedEverywhere
<1>1. ASSUME IInv PROVE SensitiveIsMaskedEverywhere
  <2>1. ASSUME NEW p \in DOMAIN in.before, Sensitive(p)
        PROVE  /\ ViewMask(p) # "shown"
               /\ MaskRedact(p, in.before[p], in.builtin) # "shown"
    <3>1. in.builtin \in BOOLEAN /\ (p \in Unknown => Len(p) > 1)
      BY <1>1, InspectionAssumption DEF IInv
    <3> QED BY <2>1, <3>1, SensitiveIsMasked DEF Sensitive, ViewMask
  <2>2. Succeeded(viewed) /\ ~in.unsafe =>
          NothingShown(viewed.shown) /\ NothingShown(viewed.listing)
    BY <1>1, <2>1, SideFacts DEF IInv, ViewInv, NothingShown, Unless
  <2>3. Succeeded(diffed) /\ ~in.unsafe =>
          NothingShown(diffed.minus) /\ NothingShown(diffed.plus)
    BY <1>1, SideFacts DEF IInv, DiffInv
  <2>4. Succeeded(redacted) => NothingShown(redacted.shown)
    BY <1>1, <2>1 DEF IInv, RedactInv, NothingShown
  <2>5. Reported => NothingShown(validated.unknown)
    BY <1>1 DEF IInv, ValidateInv, NothingShown
  <2> QED BY <2>2, <2>3, <2>4, <2>5 DEF SensitiveIsMaskedEverywhere
<1> QED BY <1>1, Invariance, PTL

\* Of a text value view's two forms and redact hide alike.
LEMMA TextIsMaskedAlike ==
  ASSUME NEW p, NEW v, NEW builtin \in BOOLEAN, ~v.binary, p \notin Unknown
  PROVE  /\ MaskRedact(p, v, builtin) = MaskDocument(p, v, builtin)
         /\ MaskDescribe(p, v, builtin) = MaskDocument(p, v, builtin)
<1>1. Positional(p, builtin) => ~SensitiveTag(p) /\ p # MTI
  BY MTIFacts
  DEF Positional, SensitiveTag, panFieldIDs, trackFieldIDs, secretFieldIDs
<1>2. p = MTI => ~SensitiveTag(p)
  BY MTIFacts
<1> QED BY <1>1, <1>2
  DEF MaskRedact, MaskDocument, MaskDescribe, MaskValueForDiff, MaskCardholderData

\* redact names what it hides, hides what view hides, and the cryptogram too.
THEOREM RedactIsTheStrictestHolds == Spec => []RedactIsTheStrictest
<1>1. ASSUME IInv, Succeeded(redacted) PROVE RedactIsTheStrictest
  <2>1. /\ DOMAIN redacted.shown = DOMAIN in.before
        /\ \A p \in DOMAIN in.before :
             redacted.shown[p] = MaskRedact(p, in.before[p], in.builtin)
    BY <1>1 DEF IInv, RedactInv
  <2>2. redacted.paths = {p \in DOMAIN redacted.shown : redacted.shown[p] # "shown"}
    BY <1>1, <2>1 DEF IInv, RedactInv, RedactedPaths
  <2>3. ASSUME Succeeded(viewed), NEW p \in DOMAIN viewed.shown,
               ~in.before[p].binary, viewed.shown[p] # "shown"
        PROVE  redacted.shown[p] = viewed.shown[p]
    <3>1. p \in DOMAIN in.before /\ viewed.shown[p] = Unless(in.unsafe, ViewMask(p))
      BY <1>1, <2>3 DEF IInv, ViewInv
    <3>2. in.builtin \in BOOLEAN /\ p \notin Unknown
      BY <1>1, <2>3, <3>1, InspectionAssumption DEF IInv
    <3>3. viewed.shown[p] = ViewMask(p)
      BY <2>3, <3>1 DEF Unless
    <3> QED BY <2>1, <2>3, <3>1, <3>2, <3>3, TextIsMaskedAlike DEF ViewMask
  <2>4. ASSUME NEW p \in DOMAIN in.before, p[Len(p)] = cryptogramTag, Len(p) > 1
        PROVE  MaskRedact(p, in.before[p], in.builtin) = "hidden"
    <3>1. Last(p) = cryptogramTag
      BY <2>4 DEF Last
    <3>2. in.before[p].binary
      BY <1>1, <2>4, <3>1, InspectionAssumption DEF IInv
    <3> QED BY <2>4, <3>1, <3>2 DEF MaskRedact
  <2> QED BY <2>1, <2>2, <2>3, <2>4 DEF RedactIsTheStrictest
<1>2. IInv => RedactIsTheStrictest
  BY <1>1 DEF RedactIsTheStrictest
<1> QED BY <1>2, Invariance, PTL

\* diff masks a value as view's document does (maskValueForDiff and
\* MaskCardholderData in redact.go), except exactly a binary value that holds a PAN
\* or a track under a custom specification.
THEOREM DiffPartsFromViewOnBytesHolds == Spec => []DiffPartsFromViewOnBytes
<1>1. ASSUME IInv, Succeeded(viewed), Succeeded(diffed), in.format = "json",
             NEW p \in DOMAIN viewed.shown \cap DOMAIN diffed.minus
      PROVE  diffed.minus[p] # viewed.shown[p] <=>
               /\ ~in.unsafe /\ ~in.builtin /\ p # MTI /\ ~Sensitive(p)
               /\ in.before[p].binary /\ in.before[p].embeds # "nowhere"
  <2> DEFINE v == in.before[p]
             ofView == MaskDocument(p, v, in.builtin)
             ofDiff == MaskValueForDiff(p, v, Unknown, in.builtin)
  <2>1. /\ p \in DOMAIN in.before
        /\ viewed.shown[p] = Unless(in.unsafe, ofView)
    BY <1>1 DEF IInv, ViewInv, ViewMask
  <2>2. diffed.minus[p] = Unless(in.unsafe, ofDiff)
    BY <1>1 DEF IInv, DiffInv, Side
  <2>3. /\ v.embeds \in Embeddings /\ v.binary \in BOOLEAN
        /\ v.embeds = "bytes" => v.binary
        /\ in.builtin \in BOOLEAN
        /\ in.builtin /\ p[1] \in panFieldIDs \cup trackFieldIDs \cup contentScanFieldIDs
             => ~v.binary
    BY <1>1, <2>1, InspectionAssumption DEF IInv
  <2>4. Positional(p, in.builtin) => ~SensitiveTag(p) /\ p # MTI
    BY MTIFacts
    DEF Positional, SensitiveTag, panFieldIDs, trackFieldIDs, secretFieldIDs
  <2>5. p = MTI => ~SensitiveTag(p)
    BY MTIFacts
  <2>6. Positional(p, in.builtin) /\ v.binary => PositionalMask(p) = "hidden"
    BY <2>3 DEF Positional, PositionalMask
  <2>7. CASE in.builtin \/ ~v.binary
    <3>1. Scanned(p, in.builtin) => ~v.binary
      BY <2>3, <2>7 DEF Scanned
    <3>2. ofView = ofDiff
      BY <2>3, <2>4, <2>5, <2>6, <3>1 DEF MaskDocument, MaskCardholderData, MaskValueForDiff
    <3> QED BY <2>1, <2>2, <2>7, <3>2
  <2>8. CASE ~in.builtin /\ v.binary
    <3>1. ~Positional(p, in.builtin) /\ Scanned(p, in.builtin)
      BY <2>8 DEF Positional, Scanned
    <3>2. Sensitive(p) <=> SensitiveTag(p) \/ p \in Unknown
      BY <3>1 DEF Sensitive
    <3>3. CASE p = MTI \/ Sensitive(p) \/ v.embeds = "nowhere"
      <4>1. ofView = ofDiff
        BY <2>3, <2>5, <2>8, <3>1, <3>2, <3>3
        DEF MaskDocument, MaskCardholderData, MaskValueForDiff
      <4> QED BY <2>1, <2>2, <3>3, <4>1
    <3>4. CASE p # MTI /\ ~Sensitive(p) /\ v.embeds = "text"
      <4>1. ofView = "shown" /\ ofDiff = "embedded"
        BY <2>8, <3>1, <3>2, <3>4 DEF MaskDocument, MaskCardholderData, MaskValueForDiff
      <4> QED BY <2>1, <2>2, <2>8, <3>4, <4>1 DEF Unless
    <3>5. CASE p # MTI /\ ~Sensitive(p) /\ v.embeds = "bytes"
      <4>1. ofView = "hidden" /\ ofDiff = "shown"
        BY <2>8, <3>1, <3>2, <3>5 DEF MaskDocument, MaskCardholderData, MaskValueForDiff
      <4> QED BY <2>1, <2>2, <2>8, <3>5, <4>1 DEF Unless
    <3> QED BY <2>3, <3>3, <3>4, <3>5 DEF Embeddings
  <2> QED BY <2>3, <2>7, <2>8
<1>2. IInv => DiffPartsFromViewOnBytes
  BY <1>1 DEF DiffPartsFromViewOnBytes
<1> QED BY <1>2, Invariance, PTL

-----------------------------------------------------------------------------
(* Filters *)

\* A nonempty set of natural numbers has a least element.
LEMMA Least ==
  ASSUME NEW S \in SUBSET Nat, S # {}
  PROVE  \E m \in S : \A k \in S : m <= k
<1>1. IsWellFoundedOn(OpToRel(<, Nat), Nat)
  BY NatLessThanWellFounded
<1>2. PICK m \in S : \A k \in S : ~(<<k, m>> \in OpToRel(<, Nat))
  BY <1>1, WFMin
<1>3. \A k \in S : ~(k < m)
  BY <1>2 DEF OpToRel
<1> QED BY <1>3

\* The filter that a path is credited to is one that selects it.
LEMMA MatchingFilterSelects ==
  ASSUME NEW filters \in Seq(Filter), NEW p, filters # <<>>, MatchesAny(p, filters)
  PROVE  Selects(MatchingFilter(p, filters), p)
<1> DEFINE S == {i \in DOMAIN filters : Selects(filters[i], p)}
           First(i) == /\ Selects(filters[i], p)
                       /\ \A j \in 1..(i - 1) : ~Selects(filters[j], p)
<1>1. S \in SUBSET Nat /\ S # {}
  BY DEF MatchesAny
<1>2. PICK m \in S : \A k \in S : m <= k
  BY <1>1, Least
<1>3. m \in DOMAIN filters /\ First(m)
  BY <1>2
<1>4. First(CHOOSE i \in DOMAIN filters : First(i))
  BY <1>3
<1> QED BY <1>4 DEF MatchingFilter

\* A filter that is not reported as missing selects something of the message.
THEOREM UnreportedFiltersMatchHolds == Spec => []UnreportedFiltersMatch
<1> DEFINE Matches(f, d) == \E p \in DOMAIN d : Selects(f, p)
<1>1. ASSUME IInv, NEW i \in DOMAIN in.filters, Succeeded(viewed),
             in.filters[i] \notin viewed.missing
      PROVE  Matches(in.filters[i], in.before)
  <2>1. in.filters[i] \in Credited(DOMAIN in.before, in.filters)
    BY <1>1 DEF IInv, ViewInv
  <2>2. in.filters \in Seq(Filter) /\ in.filters # <<>> /\ MTI \in DOMAIN in.before
    BY <1>1, CaseFacts DEF IInv
  <2>3. CASE in.filters[i].path = MTI
    <3>1. Selects(in.filters[i], MTI)
      BY <2>3 DEF Selects, IsPrefix, MTI
    <3> QED BY <2>2, <3>1
  <2>4. CASE in.filters[i].path # MTI
    <3>1. PICK p \in DOMAIN in.before :
            MatchesAny(p, in.filters) /\ in.filters[i] = MatchingFilter(p, in.filters)
      BY <2>1, <2>4 DEF Credited
    <3> QED BY <2>2, <3>1, MatchingFilterSelects
  <2> QED BY <2>3, <2>4
<1>2. ASSUME IInv, NEW i \in DOMAIN in.filters, Succeeded(diffed)
      PROVE  in.filters[i] \in diffed.missing <=>
               ~Matches(in.filters[i], in.before) /\ ~Matches(in.filters[i], in.after)
  BY <1>2 DEF IInv, DiffInv, UnmatchedFilters
<1>3. IInv => UnreportedFiltersMatch
  BY <1>1, <1>2 DEF UnreportedFiltersMatch
<1> QED BY <1>3, Invariance, PTL

\* Whatever the masks hide, diff compares what the messages have.
THEOREM DiffSeesThroughMasksHolds == Spec => []DiffSeesThroughMasks
<1>1. ASSUME IInv, Succeeded(diffed) PROVE DiffSeesThroughMasks
  <2>1. diffed.changed = {p \in DOMAIN in.before \cup DOMAIN in.after :
                            MatchesAny(p, in.filters) /\ Differ(p)}
    BY <1>1 DEF IInv, DiffInv
  <2>2. /\ in.before = [p \in DOMAIN in.before |-> in.before[p]]
        /\ in.after = [p \in DOMAIN in.after |-> in.after[p]]
    BY <1>1, InspectionAssumption DEF IInv
  <2>3. in.filters = <<>> /\ diffed.changed = {} => in.before = in.after
    <3>1. SUFFICES ASSUME in.filters = <<>> /\ diffed.changed = {}
                   PROVE  in.before = in.after
      OBVIOUS
    <3>2. \A p \in DOMAIN in.before \cup DOMAIN in.after : ~Differ(p)
      BY <2>1, <3>1 DEF MatchesAny
    <3>3. DOMAIN in.before = DOMAIN in.after
      BY <3>2 DEF Differ
    <3>4. \A p \in DOMAIN in.before : in.before[p] = in.after[p]
      BY <3>2, <3>3 DEF Differ
    <3> QED BY <2>2, <3>3, <3>4
  <2>4. in.before = in.after => diffed.changed = {}
    BY <2>1 DEF Differ
  <2>5. ASSUME NEW p \in diffed.changed
        PROVE  /\ p \in DOMAIN diffed.minus \cup DOMAIN diffed.plus
               /\ in.filters # <<>> =>
                    \E i \in DOMAIN in.filters : Selects(in.filters[i], p)
    BY <1>1, <2>1 DEF IInv, DiffInv, Side, MatchesAny
  <2> QED BY <2>3, <2>4, <2>5 DEF DiffSeesThroughMasks
<1>2. IInv => DiffSeesThroughMasks
  BY <1>1 DEF DiffSeesThroughMasks
<1> QED BY <1>2, Invariance, PTL

-----------------------------------------------------------------------------
(* The strict rules *)

\* What passes strict without a remark names a card, an answer, a network code or
\* a file.
THEOREM StrictIsNotHollowHolds == Spec => []StrictIsNotHollow
<1>1. ASSUME IInv, Reported, in.strict, validated.issues = {}
      PROVE  \/ Digest(in.before).fields \cap (PANSources \cup {"39", "70", "101"}) # {}
             \/ in.before[MTI].data.function \in {"8", "9"}
  <2> DEFINE m == Digest(in.before)
  <2>1. StrictIssues(m) = {}
    BY <1>1 DEF IInv, ValidateInv, Issues
  <2>2. m.mti = in.before[MTI].data
    BY DEF Digest
  <2> HIDE DEF m
  <2>3. m.mti.form = "digits"
    BY <2>1 DEF StrictIssues
  <2>4. m.mti.class \in Digits /\ m.mti.function \in Digits
    BY <1>1, <2>2, <2>3, InspectionAssumption DEF IInv
  <2>5. m.mti.class \in RuledClasses
    BY <2>1, <2>3 DEF StrictIssues
  <2>6. Required(m.mti) \subseteq m.fields
    BY <2>1, <2>3 DEF StrictIssues
  <2>7. NeedsPANSource(m.mti) => m.fields \cap PANSources # {}
    BY <2>1, <2>3 DEF StrictIssues, CardErrors
  <2>8. CASE IsAcknowledgement(m.mti)
    <3>1. "39" \in Required(m.mti)
      BY <2>5, <2>8 DEF Required
    <3> QED BY <2>6, <3>1 DEF m
  <2>9. CASE m.mti.class = "8"
    <3>1. "70" \in Required(m.mti)
      BY <2>9 DEF Required
    <3> QED BY <2>6, <3>1 DEF m
  <2>10. CASE CarriesTransaction(m.mti) /\ m.mti.class = "3"
    <3>1. "101" \in Required(m.mti)
      BY <2>10 DEF Required, CardClasses
    <3> QED BY <2>6, <3>1 DEF m
  <2>11. CASE CarriesTransaction(m.mti) /\ m.mti.class \in CardClasses \cup {"4"}
    BY <2>7, <2>11 DEF NeedsPANSource, m
  <2>12. CASE ~IsAcknowledgement(m.mti) /\ ~CarriesTransaction(m.mti)
    BY <2>2, <2>4, <2>12 DEF IsAcknowledgement, CarriesTransaction, Digits
  <2> QED BY <2>5, <2>8, <2>9, <2>10, <2>11, <2>12 DEF RuledClasses
<1>2. IInv => StrictIsNotHollow
  BY <1>1 DEF StrictIsNotHollow
<1> QED BY <1>2, Invariance, PTL

\* What taking a field from a message does to what the rules look at.
LEMMA WithoutDigest ==
  ASSUME NEW d, MTI \in DOMAIN d, NEW id
  PROVE  /\ Without(d, id)[MTI] = d[MTI]
         /\ Digest(Without(d, id)).mti = Digest(d).mti
         /\ Digest(d).fields \ {id} \subseteq Digest(Without(d, id)).fields
         /\ Digest(Without(d, id)).letters \subseteq Digest(d).letters
<1> DEFINE w == Without(d, id)
<1>1. /\ MTI \in DOMAIN w /\ DOMAIN w \subseteq DOMAIN d
      /\ \A p \in DOMAIN w : w[p] = d[p]
      /\ \A p \in DOMAIN d : p[1] # id => p \in DOMAIN w
  BY DEF Without
<1> HIDE DEF w
<1>2. Digest(w).mti = w[MTI].data /\ Digest(d).mti = d[MTI].data
  BY DEF Digest
<1>3. /\ Digest(w).fields = {p[1] : p \in {q \in DOMAIN w : q # MTI}}
      /\ Digest(d).fields = {p[1] : p \in {q \in DOMAIN d : q # MTI}}
  BY DEF Digest
<1>4. Digest(d).fields \ {id} \subseteq Digest(w).fields
  BY <1>1, <1>3
<1>5. Digest(w).letters \subseteq Digest(d).letters
  BY <1>1 DEF Digest
<1> QED BY <1>1, <1>2, <1>4, <1>5 DEF w

\* The rules are monotonic: with one field less, the errors that are new name it.
LEMMA RulesAreMonotonic ==
  ASSUME NEW m, NEW n, NEW id, n.mti = m.mti, m.fields \ {id} \subseteq n.fields,
         n.letters \subseteq m.letters,
         NEW i \in StrictIssues(n), i.severity = "error"
  PROVE  \/ i \in StrictIssues(m)
         \/ i = Error(id)
         \/ id \in PANSources /\ i = Error("2")
<1>1. CASE m.mti.form # "digits"
  BY <1>1 DEF StrictIssues
<1>2. CASE m.mti.form = "digits"
  <2>1. \A path : Warning(path).severity # "error"
    BY DEF Warning
  <2>2. \/ i \in {Error(x) : x \in Required(m.mti) \ n.fields}
        \/ i \in CardErrors(n)
        \/ i \in {Error(x) : x \in n.letters \cap NumericSecondaryFields}
    BY <1>2, <2>1 DEF StrictIssues
  <2>3. CASE i \in {Error(x) : x \in Required(m.mti) \ n.fields}
    <3>1. PICK x \in Required(m.mti) \ n.fields : i = Error(x)
      BY <2>3
    <3>2. CASE x \in m.fields
      BY <3>1, <3>2
    <3>3. CASE x \notin m.fields
      BY <1>2, <3>1, <3>3 DEF StrictIssues
    <3> QED BY <3>2, <3>3
  <2>4. CASE i \in CardErrors(n)
    <3>1. i = Error("2") /\ NeedsPANSource(m.mti) /\ n.fields \cap PANSources = {}
      BY <2>4 DEF CardErrors
    <3>2. CASE id \notin PANSources
      <4>1. m.fields \cap PANSources = {}
        BY <3>1, <3>2
      <4>2. i \in CardErrors(m)
        BY <3>1, <4>1 DEF CardErrors
      <4> QED BY <1>2, <4>2 DEF StrictIssues
    <3> QED BY <3>1, <3>2
  <2>5. CASE i \in {Error(x) : x \in n.letters \cap NumericSecondaryFields}
    <3>1. i \in {Error(x) : x \in m.letters \cap NumericSecondaryFields}
      BY <2>5
    <3> QED BY <1>2, <3>1 DEF StrictIssues
  <2> QED BY <2>2, <2>3, <2>4, <2>5
<1> QED BY <1>1, <1>2

\* Take a field from a message that passes: the only new complaint names it.
THEOREM StrictNamesTheMissingFieldHolds == Spec => []StrictNamesTheMissingField
<1>1. ASSUME IInv, Reported, Succeeded(validated),
             NEW id \in Digest(in.before).fields,
             NEW i \in Errors(Issues(Without(in.before, id)))
      PROVE  i = Error(id) \/ (id \in PANSources /\ i = Error("2"))
  <2> DEFINE b == in.before
             w == Without(b, id)
  <2>1. Errors(Issues(b)) = {} /\ i \in Issues(w) /\ i.severity = "error"
    BY <1>1 DEF IInv, ValidateInv, Succeeded, Errors
  <2>2. /\ w[MTI] = b[MTI] /\ Digest(w).mti = Digest(b).mti
        /\ Digest(b).fields \ {id} \subseteq Digest(w).fields
        /\ Digest(w).letters \subseteq Digest(b).letters
    BY <1>1, WithoutDigest, CaseFacts DEF IInv
  <2> HIDE DEF b, w
  <2>3. i \notin Issues(b)
    BY <2>1 DEF Errors
  <2>4. i \notin {[severity |-> "warning", path |-> p] : p \in DOMAIN w \cap Unknown}
    BY <2>1
  <2>5. i \notin IF w[MTI].data.form = "none" THEN {Error("0")} ELSE {}
    BY <2>2, <2>3 DEF Issues
  <2>6. in.strict /\ i \in StrictIssues(Digest(w))
    BY <2>1, <2>4, <2>5 DEF Issues
  <2>7. i \notin StrictIssues(Digest(b))
    BY <2>3, <2>6 DEF Issues
  <2> QED BY <2>1, <2>2, <2>6, <2>7, RulesAreMonotonic
<1>2. IInv => StrictNamesTheMissingField
  BY <1>1 DEF StrictNamesTheMissingField
<1> QED BY <1>2, Invariance, PTL
=============================================================================
