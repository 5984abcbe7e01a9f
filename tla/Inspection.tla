----------------------------- MODULE Inspection -----------------------------
(***************************************************************************)
(* The commands that show messages: view, diff, redact and validate        *)
(* (cmd/app.go and internal/service/view.go, diff.go, redact.go,           *)
(* validate.go), run over the same two messages.  Each has code of its own *)
(* that selects the paths of a filter, masks values or finds fault; what   *)
(* they say of one message should agree.                                   *)
(*                                                                         *)
(* A message is the document that it unpacks to, see Documents: a map from *)
(* paths to values, where <<"MTI">> stands for the MTI.  A value is shown  *)
(* as it is or in one of four ways that hide a part of it or all.  Of a    *)
(* value the model keeps what tells it from another and where a PAN or a   *)
(* track can be found in it.  Colours, descriptions, meanings, summaries   *)
(* and the order of the lines are left out.                                *)
(***************************************************************************)
EXTENDS StrictRules, Integers, Sequences, SequencesExt

CONSTANTS
  Cases,      \* the inputs: two messages, a specification and the flags
  Unknown     \* the TLV paths that the specification does not define

MTI == <<"MTI">>

\* Where maskEmbeddedSensitive finds something: nowhere, in the value as it is
\* printed, or in the bytes behind the hexadecimal digits of a binary value.
Embeddings == {"nowhere", "text", "bytes"}

VARIABLES
  in,        \* the input, one of Cases
  viewed,    \* what view printed of the first message, None before it ran
  diffed,    \* what diff printed
  redacted,  \* what redact printed of the first message
  validated  \* what validate reported of the first message

vars == <<in, viewed, diffed, redacted, validated>>

None == <<>>

\* Nothing on standard output: the exit status is 1.
Failure == [exit |-> "failure"]

-----------------------------------------------------------------------------
(* Filters *)

\* pathSelectedByFilter: the path itself and what is nested under it, whatever
\* the case; "0" and "mti" both name the MTI and nothing else.
Selects(f, p) == IsPrefix(f.path, p)

\* The first filter that selects p, of those that do.
MatchingFilter(p, filters) ==
  filters[CHOOSE i \in DOMAIN filters :
            Selects(filters[i], p) /\ \A j \in 1..(i - 1) : ~Selects(filters[j], p)]

\* matchesAnyFilter.  No filter at all selects everything.
MatchesAny(p, filters) ==
  filters = <<>> \/ \E i \in DOMAIN filters : Selects(filters[i], p)

\* A filter is missing if it names no path of a document.
UnmatchedFilters_Wrong(paths, filters) ==
  {filters[i] : i \in {j \in DOMAIN filters : filters[j].path \notin paths}}

\* unmatchedFilters: those that select none of the paths.
UnmatchedFilters(paths, filters) ==
  {filters[i] : i \in {j \in DOMAIN filters : \A p \in paths : ~Selects(filters[j], p)}}

\* renderFiltered credits a path to its first filter only, and the MTI to all.
Credited(paths, filters) ==
  {MatchingFilter(p, filters) : p \in {q \in paths \ {MTI} : MatchesAny(q, filters)}}
  \cup {filters[i] : i \in {j \in DOMAIN filters : filters[j].path = MTI}}

-----------------------------------------------------------------------------
(* Masks *)

panFieldIDs == {"2", "34"}
trackFieldIDs == {"35", "36", "45"}
secretFieldIDs == {"52"}
contentScanFieldIDs ==
  {"43", "44", "46", "47", "48", "54", "60", "61", "62", "63"}
  \cup {"120", "121", "122", "123", "124", "125", "126", "127"}
cardholderEMVTags == {"5A", "57", "56", "99", "9F1F", "9F20", "9F6B"}
cryptogramTag == "9F26"

\* A filter: the path that it names, and how it is spelled.
Filter == [path : Seq(STRING), spelling : STRING]

\* The built-in specifications have text wherever a cardholder field or a content
\* scan goes by position, but for field 52; and a cryptogram is a TLV tag, hence
\* bytes.
ASSUME InspectionAssumption ==
  \A c \in Cases :
    /\ c.unpacks <=> c.failsAt = "nowhere"
    /\ c.builtin \in BOOLEAN /\ c.filters \in Seq(Filter)
    /\ \A d \in {c.before, c.after} :
         /\ d = [p \in DOMAIN d |-> d[p]]
         /\ MTI \in DOMAIN d
         /\ d[MTI].data.form = "digits" =>
              d[MTI].data.class \in Digits /\ d[MTI].data.function \in Digits
         /\ \A p \in DOMAIN d :
              /\ p \in Seq(STRING) /\ p # <<>>
              /\ d[p].binary \in BOOLEAN /\ d[p].embeds \in Embeddings
              /\ d[p].embeds = "bytes" => d[p].binary
              /\ p \in Unknown => d[p].binary /\ Len(p) > 1
              /\ Len(p) > 1 /\ Last(p) = cryptogramTag => d[p].binary
              /\ c.builtin /\ p[1] \in panFieldIDs \cup trackFieldIDs \cup contentScanFieldIDs
                   => ~d[p].binary

\* leafTag and isSensitiveTLVTag, at any depth.
SensitiveTag(p) == Len(p) > 1 /\ Last(p) \in cardholderEMVTags

Positional(p, builtin) ==
  /\ builtin /\ Len(p) = 1
  /\ p[1] \in panFieldIDs \cup trackFieldIDs \cup secretFieldIDs

PositionalMask(p) ==
  IF p[1] \in panFieldIDs THEN "BIN-and-last-four"
  ELSE IF p[1] \in trackFieldIDs THEN "BIN" ELSE "hidden"

\* A custom specification gives the ids a meaning of its own: all is scanned.
Scanned(p, builtin) == ~builtin \/ p[1] \in contentScanFieldIDs

\* MaskCardholderData, which works on a document: positional fields, then tags,
\* then what is embedded in text or in the bytes of a binary value.
MaskCardholderData(p, v, builtin) ==
  IF p = MTI THEN "shown"
  ELSE IF Positional(p, builtin) THEN IF v.binary THEN "hidden" ELSE PositionalMask(p)
  ELSE IF SensitiveTag(p) THEN "hidden"
  ELSE IF Scanned(p, builtin) /\ ~v.binary /\ v.embeds = "text" THEN "embedded"
  ELSE IF Scanned(p, builtin) /\ v.binary /\ v.embeds = "bytes" THEN "hidden"
  ELSE "shown"

\* maskUnknownInDocument after it: the masks of view's documents.
MaskDocument(p, v, builtin) ==
  IF p \in Unknown THEN "hidden" ELSE MaskCardholderData(p, v, builtin)

\* What is embedded in a value is left to view.
MaskValueForDiff_Wrong(p, v, unknown, builtin) ==
  IF p \in unknown \/ SensitiveTag(p) THEN "hidden"
  ELSE IF Positional(p, builtin) THEN PositionalMask(p) ELSE "shown"

\* maskValueForDiff, which works on one printed value: unknown and sensitive
\* tags, then positional fields, then what is embedded.
MaskValueForDiff(p, v, unknown, builtin) ==
  IF p \in unknown \/ SensitiveTag(p) THEN "hidden"
  ELSE IF Positional(p, builtin) THEN PositionalMask(p)
  ELSE IF p # MTI /\ Scanned(p, builtin) /\ v.embeds = "text" THEN "embedded"
  ELSE "shown"

\* The lines marked as unknown are left to the mask by path.
MaskDescribe_Wrong(p, v, builtin) == MaskValueForDiff(p, v, {}, builtin)

\* The text of view: maskUnknownInText hides the lines that the library marks as
\* unknown, and colorizeDescribe masks all others by their path alone.
MaskDescribe(p, v, builtin) ==
  IF p \in Unknown THEN "hidden" ELSE MaskValueForDiff(p, v, {}, builtin)

\* RedactMessage also hides the cryptogram.
MaskRedact(p, v, builtin) ==
  IF v.binary /\ Len(p) > 1 /\ Last(p) = cryptogramTag THEN "hidden"
  ELSE MaskDocument(p, v, builtin)

Unless(unsafe, mask) == IF unsafe THEN "shown" ELSE mask

-----------------------------------------------------------------------------
(* The commands *)

Init ==
  /\ in \in Cases
  /\ viewed = None /\ diffed = None /\ redacted = None /\ validated = None

\* The complete listing that send shows of either message (displayFields).
Listing(d) ==
  [p \in DOMAIN d |->
     Unless(in.unsafe, MaskValueForDiff(p, d[p], Unknown, in.builtin))]

\* view with filters, in either format; any other is taken for text.  A JSON
\* object always has the MTI.
ViewFiltered ==
  /\ viewed = None /\ in.filters # <<>> /\ in.unpacks
  /\ LET d == in.before
         paths == {p \in DOMAIN d : MatchesAny(p, in.filters)}
                    \cup (IF in.format = "json" THEN {MTI} ELSE {}) IN
       viewed' = [exit |-> "success",
                  shown |-> [p \in paths |->
                               Unless(in.unsafe, MaskDocument(p, d[p], in.builtin))],
                  listing |-> Listing(d),
                  missing |-> {in.filters[i] : i \in DOMAIN in.filters}
                                \ Credited(DOMAIN d, in.filters)]
  /\ UNCHANGED <<in, diffed, redacted, validated>>

\* view without filters.
ViewAll ==
  /\ viewed = None /\ in.filters = <<>> /\ in.unpacks
  /\ in.format \in {"text", "json"}
  /\ LET d == in.before
         Mask(p) == IF in.format = "json" THEN MaskDocument(p, d[p], in.builtin)
                    ELSE MaskDescribe(p, d[p], in.builtin) IN
       viewed' = [exit |-> "success",
                  shown |-> [p \in DOMAIN d |-> Unless(in.unsafe, Mask(p))],
                  listing |-> Listing(d),
                  missing |-> {}]
  /\ UNCHANGED <<in, diffed, redacted, validated>>

ViewFails ==
  /\ viewed = None
  /\ ~in.unpacks \/ (in.filters = <<>> /\ in.format \notin {"text", "json"})
  /\ viewed' = Failure
  /\ UNCHANGED <<in, diffed, redacted, validated>>

\* Two values that are masked alike are alike.
Differ_Wrong(p) ==
  \/ p \in DOMAIN in.before /\ p \notin DOMAIN in.after
  \/ p \in DOMAIN in.after /\ p \notin DOMAIN in.before
  \/ /\ p \in DOMAIN in.before \cap DOMAIN in.after
     /\ in.before[p] # in.after[p]
     /\ MaskValueForDiff(p, in.before[p], Unknown, in.builtin) # "hidden"

\* Removed, added or changed.
Differ(p) ==
  \/ p \in DOMAIN in.before /\ p \notin DOMAIN in.after
  \/ p \in DOMAIN in.after /\ p \notin DOMAIN in.before
  \/ p \in DOMAIN in.before \cap DOMAIN in.after /\ in.before[p] # in.after[p]

\* The masked values of the paths of a change, on one side of it.
Side(d, paths) ==
  [p \in paths \cap DOMAIN d |->
     Unless(in.unsafe, MaskValueForDiff(p, d[p], Unknown, in.builtin))]

\* DiffMessages over the union of the paths.
Diff ==
  /\ diffed = None /\ in.unpacks
  /\ in.format \in {"text", "json"}
  /\ LET paths == DOMAIN in.before \cup DOMAIN in.after
         changed == {p \in paths : MatchesAny(p, in.filters) /\ Differ(p)} IN
       diffed' = [exit |-> "success", changed |-> changed,
                  minus |-> Side(in.before, changed),
                  plus |-> Side(in.after, changed),
                  missing |-> UnmatchedFilters(paths, in.filters)]
  /\ UNCHANGED <<in, viewed, redacted, validated>>

DiffFails ==
  /\ diffed = None
  /\ ~in.unpacks \/ in.format \notin {"text", "json"}
  /\ diffed' = Failure
  /\ UNCHANGED <<in, viewed, redacted, validated>>

\* The list has what the cardholder pass masked, without the passes after it.
RedactedPaths_Wrong(d) ==
  {p \in DOMAIN d : MaskCardholderData(p, d[p], in.builtin) # "shown"}

\* The list of the paths that any pass masked.
RedactedPaths(d) ==
  {p \in DOMAIN d : MaskRedact(p, d[p], in.builtin) # "shown"}

\* redact has no filters and no --unsafe.
Redact ==
  /\ redacted = None /\ in.unpacks
  /\ in.format \in {"text", "json"}
  /\ redacted' = [exit |-> "success",
                  shown |-> [p \in DOMAIN in.before |->
                               MaskRedact(p, in.before[p], in.builtin)],
                  paths |-> RedactedPaths(in.before)]
  /\ UNCHANGED <<in, viewed, diffed, validated>>

\* The format is looked at last, but nothing is printed before.
RedactFails ==
  /\ redacted = None
  /\ ~in.unpacks \/ in.format \notin {"text", "json"}
  /\ redacted' = Failure
  /\ UNCHANGED <<in, viewed, diffed, validated>>

\* What the strict rules look at.  Of a value they ask whether it is all digits
\* and, of field 39, whether it approves.
Digest(d) ==
  LET fields == {p \in DOMAIN d : p # MTI} IN
  [mti      |-> d[MTI].data,
   fields   |-> {p[1] : p \in fields},
   letters  |-> {p[1] : p \in {q \in fields : Len(q) = 1 /\ d[q].data = "letters"}},
   approved |-> <<"39">> \in fields /\ d[<<"39">>].data = "approval"]

\* ValidateMessage of a message that unpacks.
Issues(d) ==
  (IF d[MTI].data.form = "none" THEN {Error("0")} ELSE {})
  \cup {[severity |-> "warning", path |-> p] : p \in DOMAIN d \cap Unknown}
  \cup (IF in.strict THEN StrictIssues(Digest(d)) ELSE {})

Errors(issues) == {i \in issues : i.severity = "error"}

\* The format is looked at after the message; nothing is printed if it is none.
Validate ==
  /\ validated = None /\ in.unpacks
  /\ validated' = IF in.format \notin {"text", "json"} THEN Failure
                  ELSE [exit    |-> IF Errors(Issues(in.before)) = {} THEN "success"
                                    ELSE "failure",
                        issues  |-> Issues(in.before),
                        unknown |-> [p \in DOMAIN in.before \cap Unknown |-> "hidden"],
                        hint    |-> "none"]
  /\ UNCHANGED <<in, viewed, diffed, redacted>>

\* The library failed at no field, at the MTI or at the bitmap, or it panicked.
Malformed == in.failsAt = "header"

\* The hint of a message that does not unpack: a malformed one is blamed on the
\* capture.
Hint ==
  IF Malformed THEN "truncated"
  ELSE IF in.builtin THEN "run-doctor" ELSE "check-the-specification"

ValidateFails ==
  /\ validated = None /\ ~in.unpacks
  /\ validated' = IF in.format \notin {"text", "json"} THEN Failure
                  ELSE [exit |-> "failure", issues |-> {Error("message")},
                        unknown |-> <<>>, hint |-> Hint]
  /\ UNCHANGED <<in, viewed, diffed, redacted>>

Finished ==
  /\ viewed # None /\ diffed # None /\ redacted # None /\ validated # None
  /\ UNCHANGED vars

Next == ViewFiltered \/ ViewAll \/ ViewFails \/ Diff \/ DiffFails
        \/ Redact \/ RedactFails \/ Validate \/ ValidateFails \/ Finished

Spec == Init /\ [][Next]_vars

-----------------------------------------------------------------------------
(* What the commands promise together *)

Succeeded(result) == result # None /\ result.exit = "success"

\* validate printed its report of a message that unpacks.
Reported == validated # None /\ validated # Failure /\ in.unpacks

\* A path that carries cardholder data by its position or tag, or that nobody
\* can vouch for.
Sensitive(p) == Positional(p, in.builtin) \/ SensitiveTag(p) \/ p \in Unknown

NothingShown(shown) == \A p \in DOMAIN shown : Sensitive(p) => shown[p] # "shown"

\* No surface shows a cardholder field, a sensitive tag at any depth or an unknown
\* tag in full, unless it was asked to with --unsafe; redact never does.
SensitiveIsMaskedEverywhere ==
  /\ Succeeded(viewed) /\ ~in.unsafe =>
       NothingShown(viewed.shown) /\ NothingShown(viewed.listing)
  /\ Succeeded(diffed) /\ ~in.unsafe =>
       NothingShown(diffed.minus) /\ NothingShown(diffed.plus)
  /\ Succeeded(redacted) => NothingShown(redacted.shown)
  /\ Reported => NothingShown(validated.unknown)

\* The list of redact names exactly the paths that it did not print as they are; a
\* text value that view masks is masked alike by redact, and a cryptogram hidden.
RedactIsTheStrictest ==
  Succeeded(redacted) =>
    /\ redacted.paths = {p \in DOMAIN redacted.shown : redacted.shown[p] # "shown"}
    /\ Succeeded(viewed) =>
         \A p \in DOMAIN viewed.shown :
           ~in.before[p].binary /\ viewed.shown[p] # "shown"
             => redacted.shown[p] = viewed.shown[p]
    /\ \A p \in DOMAIN redacted.shown :
         p[Len(p)] = cryptogramTag /\ Len(p) > 1 => redacted.shown[p] = "hidden"

\* diff reports a path exactly if it is asked for and its real value is not the
\* same in both messages, even where both are printed alike: without filters, no
\* differences means equal messages.
DiffSeesThroughMasks ==
  Succeeded(diffed) =>
    /\ in.filters = <<>> /\ diffed.changed = {} => in.before = in.after
    /\ in.before = in.after => diffed.changed = {}
    /\ \A p \in diffed.changed :
         /\ p \in DOMAIN diffed.minus \cup DOMAIN diffed.plus
         /\ in.filters # <<>> => \E i \in DOMAIN in.filters : Selects(in.filters[i], p)

\* No typo goes unnoticed: a filter that diff or view does not report as missing
\* selects something that the message has, and diff reports no other.
UnreportedFiltersMatch ==
  LET Matches(f, d) == \E p \in DOMAIN d : Selects(f, p) IN
  \A i \in DOMAIN in.filters :
    LET f == in.filters[i] IN
    /\ Succeeded(viewed) /\ f \notin viewed.missing => Matches(f, in.before)
    /\ Succeeded(diffed) =>
         (f \in diffed.missing <=> ~Matches(f, in.before) /\ ~Matches(f, in.after))

\* "so a typo is distinguishable from an absent field" (README.md:146): a filter
\* that view reports as missing selects nothing of what view shows.
MissingMeansAbsent ==
  Succeeded(viewed) =>
    \A f \in viewed.missing : \A p \in DOMAIN viewed.shown : ~Selects(f, p)

\* diff hides of a value what view's document hides of it, except exactly under a
\* custom specification, where the digits or the bytes of a binary value hold a
\* PAN or a track: diff scans the digits (redact.go:467), view the bytes
\* (redact.go:303), and no rule of position or tag covers both.
DiffPartsFromViewOnBytes ==
  Succeeded(viewed) /\ Succeeded(diffed) /\ in.format = "json" =>
    \A p \in DOMAIN viewed.shown \cap DOMAIN diffed.minus :
      diffed.minus[p] # viewed.shown[p] <=>
        /\ ~in.unsafe /\ ~in.builtin /\ p # MTI /\ ~Sensitive(p)
        /\ in.before[p].binary /\ in.before[p].embeds # "nowhere"

\* "the displayed values are masked just like `view`", "so diff output is safe to
\* paste into a ticket" (README.md:156): diff shows no value in full that view
\* hides, in part or as a whole.
DiffHidesWhatViewHides ==
  Succeeded(viewed) /\ Succeeded(diffed) /\ in.format = "json" =>
    \A p \in DOMAIN viewed.shown \cap DOMAIN diffed.minus :
      viewed.shown[p] # "shown" => diffed.minus[p] # "shown"

\* The fields of a document without one of them.
Without(d, id) == [p \in {q \in DOMAIN d : q = MTI \/ q[1] # id} |-> d[p]]

\* Strict validation is monotonic, as pbt_test.go:390 has it: take any field from
\* a message that passes, and it either still passes or is told which field that
\* was, or that no field names the card any more.
StrictNamesTheMissingField ==
  Reported /\ Succeeded(validated) =>
    \A id \in Digest(in.before).fields :
      \A i \in Errors(Issues(Without(in.before, id))) :
        i = Error(id) \/ (id \in PANSources /\ i = Error("2"))

\* No hollow message is reported as fully checked (validate.go:282): what passes
\* strict without a remark has a card, an answer, a network code or a file name,
\* unless its function is one of the two reserved ones.
StrictIsNotHollow ==
  Reported /\ in.strict /\ validated.issues = {} =>
    \/ Digest(in.before).fields \cap (PANSources \cup {"39", "70", "101"}) # {}
    \/ in.before[MTI].data.function \in {"8", "9"}

\* The hint that blames the capture "fires only when the message is too short to
\* hold even its MTI or bitmap (no spec can rescue that)" (diagnose.go:45): then
\* doctor finds no preset for it.
HintHelps ==
  validated # None /\ validated # Failure /\ validated.hint = "truncated" => ~in.otherFits
=============================================================================
