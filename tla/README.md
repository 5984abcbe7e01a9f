# Verification of iso8583tool

TLA+ models of `iso8583tool`, the TLC configurations that check them on small
instances, and TLAPS proofs of what matters most for every value of the
constants. The reference is the Go source under `src/`; `PROJECT.json` maps
every definition to the lines it stands for.

`iso8583tool` is a command-line tool for ISO 8583 messages: it shows
(`view`), compares (`diff`), masks (`redact`), checks (`validate`), converts
(`convert`), recognises (`doctor`) and sends (`send`) them. Packing and
unpacking under a layout is done by the library `moov-io/iso8583`.

## 1. The system

| Part | Source | State | Operations |
|---|---|---|---|
| Framing | `service/send.go` (`Framing`) | none | `Encode` puts a 2-byte or 4-digit length header on a payload, `ReadResponse` takes it off |
| Send exchange | `service/send.go` (`SendMessage`) | a TCP connection, its one deadline, the position in both byte streams | `SendMessage`: validate, encode, dial, write, half-close, read, close |
| `send` command | `cmd/app.go` (`runSend`, `runSendDryRun`), `service/send.go` (`CheckExpectations`) | the command line, standard output and error, the exit status | gates, `--dry-run`, the exchange, the printed exchange, the expectations |
| Mock server | `e2e/mock/main.go` | one accepted connection with a 30 s deadline | accept, read with the client's framing code, reply, half-close, exit |
| Documents | `service/convert.go`, `service/write.go`, `messageio/document.go`, `path.go` | a document being set on a message, the TLV groups not merged yet | validate, set text, set binary, merge TLV, pack; unpack to a document |
| View, diff, redact | `service/view.go`, `diff.go`, `redact.go` | none between runs | filters, masks, comparison |
| `doctor` | `service/doctor.go`, `cmd/app.go` (`runDoctor`, `resolveInput`) | the best candidate and the runner-up of the scan | choose hex or raw, score each preset, recommend, print a command to confirm with |
| `validate` | `service/validate.go`, `diagnose.go` | none | unpack, list unknown tags, `--strict` rules, a hint on what does not unpack |
| Arguments | `cmd/app.go` (`parseFlags`, `reorder`, `helpRequested`) | the words not read yet, the flags set | help, reordering, parsing |
| Invocation | `cmd/app.go` (`Run`, `loadContext`, `runConvert`, `runSample`), `config`, `messagespec`, `messageio` | the context, the inputs, the output file | dispatch, choose the specification and the catalog, read sources, write the result |
| Data | `basei`, `annotate` | tables | none |
| Rendering | `render` | none | colours, escaping of control characters |

How they interact. Every command parses its arguments, resolves a context and
reads its input, and then calls one service function. `send` packs its input
with `WriteMessage` (documents), shows it with `ViewMessage`, hands the bytes to
`SendMessage` (exchange), which uses `Framing`, and compares the response as a
document. `doctor` prints a command line for `view`. The mock links the same
`Framing` code as the client. There is one goroutine; the concurrency is that
of the client, its timer, the network and the peer.

What is hard, and what makes each part correct:

* **Exchange.** Short writes and reads, a deadline that fires anywhere, a peer
  that stalls, closes early, resets or floods, a network that gives up,
  half-close as the end of a request. Correct: the request leaves whole before
  anything is read; what is returned is what was exchanged; the error names what
  happened; it ends.
* **Command.** Ten refusals in an order, and two branches after them.
  Correct: nothing unvetted is sent, a dry run predicts the live run, and the
  exit status tells the truth.
* **Two processes.** Client and mock may be configured with different framings
  and each waits for the other. Correct: a match succeeds, a mismatch ends,
  and none succeeds unless the bytes really hold a message of both framings.
* **Documents.** Maps without order, several spellings of one path, two maps,
  whole and partial values of one composite. Correct: what is accepted means
  one thing, is packed in full, and survives unpacking.
* **View, diff, redact.** Separate code decides the same question (which paths a
  filter selects, which values are masked) on documents, on lines of text and on
  single values. Correct: they agree.
* **Validate.** Rules that depend on class and function and overlap. Correct: no
  class passes because no rule looked at it, and what is reported missing is.
* **Invocation.** Flags before and after operands, a specification from three
  places, messages from three sources, results in two. Correct: each argument
  keeps its meaning, the choices do not mix, sources are read whole, and a result
  is left in full where it can be left, or the run fails and says so.
* **Doctor.** Two passes, one to choose the reading and one to rank presets, and
  a one-pass ranking with ties. Correct: the best is recommended, ties are told.

The complete list of hazards, each with its line and properties, is in
`PROJECT.json`.

## 2. Modules

```
Framing <-- SendExchange <-- MockExchange            Documents
               |                                     StrictRules <-- Inspection
               | implements                          Doctor
               v                                     Arguments <-- Invocation
        ExchangeContract <-- SendCommand
```

An arrow to the left or down is EXTENDS, except that `SendExchange` implements
`ExchangeContract` (`Contract == INSTANCE ExchangeContract WITH ...`), and
`MockExchange` also has the specification of `SendExchange` as a property.
`MC<module>` instantiates the constants for TLC; `<module>Proofs` holds the
theorems about it. A definition
that ends in `_Wrong` is not part of a model: it is a plausible bug, put in the
place of the definition it is named for to see that a property notices.

### Framing, SendExchange, ExchangeContract

`Framing` is the header codec on bytes, including what `strconv.Atoi` does with
signs, and the limits 65535 and 9999. `SendExchange` is `SendMessage` against an
arbitrary peer. `pc` names the function that is running; `written`, `inRead` and
`buf` are the positions in the streams, `consumed` and `produced` those of the
peer. TCP delivers in order and the client looks at no byte but the header, so
counters and the header bytes are enough. Each call of `Write` or `Read` is an
action that moves between one byte and what the buffers allow. `Expire` is the
connection's deadline; the actions after it fail in the way the code classifies
errors. The peer writes a fixed reply (`header`, `rest`), when and as far as it
likes.

A connection breaks in two ways, because the code tells them apart. `PeerReset`
is a failure that is no timeout. `NetworkTimesOut` is the kernel giving up
(keepalive probes, which Go's dialer turns on, or retransmissions): the error is
`ETIMEDOUT`, a `net.Error` whose `Timeout()` is true, and `readUntilEOF` and
`SendMessage` take it for the deadline. `TimeoutError` is what they see.

`ExchangeContract` is what a caller may rely on: one request, not repeated, then
one of the answers that the reply entitles to, or an error. The refinement
mapping computes the entitled answers from the reply on the wire.

### SendCommand

`runSend` around the contract. The same command line runs twice, live and with
`--dry-run`, so that the two can be compared. `Gates` are the checks in the
order of the code; `Send`, `Exchange`, `PrintExchange` and `Report` are the live
branch; `LookupFlatValue` and `Unmet` are how an expectation is compared,
including which side is trimmed.

### MockExchange

Adds the mock to `SendExchange`: its reads, its sleep, its writes, the
half-close, and the reset that the kernel sends when a process exits with unread
input. It reuses the counters of the arbitrary peer, so "the mock is such a
peer" is a property (`MockIsAPeer`), and what holds of `SendExchange` holds here.

### Documents

`WriteMessage` and `MessageToDocument`. The phases of `phase` are the loops of
`WriteMessage`: text fields, binary fields (which only gathers flat TLV tags),
and the merge of the tags. The paths are set in any order, which contains the
sorted order of the code. A segment of a path is a name with a spelling; a value
is some data, with or without its padding; a message is a function from leaves
to values. `round` 2 packs the document that round 1 produced. Where the library
may refuse a value, `LibraryRefuses` may.

An entry of a document also says which unknown tags unpacking finds in its value
(`brings`): a value for a whole TLV composite, or for a constructed tag, may hold
any. They are leaves of the message (`Carried`), and unpacking gives them paths of
their own, `55.DF8129` or `55.70.DF8129`, of which only the first can be set.

### StrictRules, Inspection

`Inspection` has one action per command (`ViewFiltered`, `ViewAll`, `Diff`,
`Redact`, `Validate`, and their failures), each with its own selection and masks as
in the code: `MaskCardholderData` for documents, `MaskDescribe` for lines of text,
`MaskValueForDiff` for single values. A mask is one of "shown", "hidden",
"embedded" (only the run that was recognised), "BIN" and "BIN and last four".
Whether a PAN or a track is embedded in a value, and whether it can be found in
its text or in its bytes, is an attribute of the value.

`StrictRules` is `strictSemanticIssues` as operators on an MTI and sets of field
ids: what is required of a class and a function, what must be numeric, and the
remarks. `Validate` joins it with the unknown tags, and `ValidateFails` with the
hint for a message that does not unpack.

### Arguments, Invocation

`Arguments` is `parseFlags`, for any table of flags: `helpRequested` on the words as
they come, `reorder` word by word, and the parser of Go's `flag` package (external)
on what `reorder` made. A word is its dashes, its name and its value, because that
is all the code looks at.

`Invocation` is `App.Run` around it. `line` is what the shell handed over and `world`
the configs, specifications, files, streams and disk around it, both fixed by
`Init`. `RunCommand` and its neighbours are the dispatch; `LoadContext` is
`resolveContext` and `loadMessageContext`, with the directory each relative path is
taken from; `ReadSource` is `messageio.ReadSource` with its limit; `Convert`, the
samples, and the result on standard output or in a file follow. `Leave` is the end of
every command, with what a standard output that is full, or a pipe that nobody reads,
makes of it: the code looks at no write to it. `validate` and `diff`
end where their service begins (`Service`), which is `Inspection`'s part; `convert`
where the conversion begins, which is that of `Documents`.

### Doctor

`Resolve` is `autoDecodeMessage`, `ScorePreset` the body of the loop of
`DiagnoseSpec`. What the library makes of the bytes is left open: any outcome
for any preset under either reading.

## 3. Runs

| Run | States | What it shows |
|---|---|---|
| `send_exchange` | 104,000 | `SendExchange` with its type invariant, eight more properties of safety, two of liveness, and the refinement of the contract; the header limits are exact both ways (`LimitIsTight`). |
| `mock_exchange` | 296,000 | Every pair of framings: matched pairs succeed, mismatches end, and with a response only by misreading; the mock is a peer of `SendExchange`. |
| `send_command` | 39,000 | Every pair of things wrong with a command line, every pair of expectations. |
| `doctor` | 1,730,000 | Three presets, six outcomes each, under two readings, all three values of `--encoding`. |
| `documents` | 116,000 | Every document of up to four of twenty-five entries, twice through `WriteMessage`. |
| `inspection` | 247,000 | Every message of up to two values of every class of path and value, every list of up to two filters, and for each class and function the messages around what `--strict` requires. |
| `invocation` | 386,000 | Every line of up to four words for the parser and three for the dispatch; `--spec` and `--config` in every world of specifications; every form of source, encoding, direction, disk and standard output. |
| `doctor_confirm` | - | Violation: see findings. |
| `view_missing` | - | Violation: see findings. |
| `diff_masks` | - | Violation: see findings. |
| `validate_hint` | - | Violation: see findings. |
| `flag_without_value` | - | Violation: see findings. |

### Bounds, and why they are enough

* `send_exchange`: frames of up to 6 bytes through buffers of 2, so a frame takes
  three writes at least and any split happens; a reply may be one byte longer
  than the cap of 3, and `ReadChunk` 2 makes the cap fall inside a chunk. The
  headers declare nothing, a body that fits, one that never comes, and text that
  is no number. Payloads of 65535 and 9999 bytes, and of one more, lie on both
  sides of the encoder's limits; they go to an address that cannot be dialed.
* `mock_exchange`: buffers of 4 and frames of up to 9, cap 4, so that an
  unframed request or reply can be over the cap. The first bytes of a request
  are an ASCII MTI, a packed one, or "0001", which with a byte after it is a whole
  4-digit frame. That stands for the messages that are misread in earnest, which
  are longer: "0100" with 104 bytes, "0800" with 804. The ASSUMEs of
  `MCMockExchange` have TLC compute that `FoundIn` holds of a payload of the run in
  both directions, and from which length it holds of "0100".
* `send_command`: two faults show every order of two gates. Two expectations
  show one that hides the other. `expectMTI` has a match and a mismatch.
* `doctor`: six outcomes, two of which (fifteen fields without an MTI, and an MTI
  without fields) have the same score by different means. Three presets are the
  presets there are.
* `documents`: an ambiguity is between two entries; a merge needs a nested tag and
  a flat one, and the third and fourth entry show that bystanders are kept. Unknown
  tags come beside the known ones, in a known constructed tag, and in one that is
  unknown itself and that the library keeps whole or opens.
* `inspection`: masks are decided per path, except for the union of unknown tags,
  so two values are enough; two filters are the smallest list in which one can
  hide the other.

  The strict messages have what the rules require, one field more or less, of
  every class and function; a rule speaks of one field, or of one of two.
* `invocation`: four words are a flag, its value, an operand and a terminator, in
  every order; two sides are the most any command reads. A source is up to two
  bytes longer than `MaxInputSize`, here 2: the code tells an oversized source by
  one byte, so neither the limit nor the excess needs to be larger.

Deadlock is checked in every run. The end of a command is a stuttering action.

### Fairness

`SendExchange` assumes weak fairness of `SendMessage` (the scheduler runs the
only goroutine whenever it can proceed) and of `Expire` (the runtime's timer
fires). Nothing is asked of the peer: it may stop for ever. An exchange without
a timeout may therefore hang, and `TimeoutBoundsExchange` is only claimed for
one that has a timeout; `BrokenLinkEndsExchange` needs none. `MockExchange` assumes
weak fairness of the client and of the mock, which are two running processes,
and of the mock's 30-second deadline, but not of the client's timer:
`ExchangeEnds` holds even for `--timeout 0`. The other modules state no
liveness: their commands run straight through.

## 4. Proofs

TLAPS checks these for every value of the constants, from the named assumptions
of the modules and nothing else.

**SendExchangeProofs** (from `ConstantsAssumption`: requests are records of the
type, headers are bytes, buffers are not empty). `TypeOK`, `LimitIsTight`,
`AcceptedLengthFits`, `WholeRequestFirst`, `ResponseMatchesWire`,
`UnframedResponseComplete`, `UnframedCapExact`, `ErrorNamesItsCause`,
`DeadlineIsFinal`, and `Refinement`: the specification
implies `ImplementsContract`. None of the properties is inductive alone: that a
returned response is whole, for example, rests on where the reader was. `Inv`
says what each `pc` implies: nothing is read before "readHeader" or
"readUntilEOF"; in "readBody" exactly the header and `buf` bytes have been read
and `buf` is below the declared length; in "readUntilEOF" the half-close is done
and `buf` is within the cap. `IInv` joins it with the properties. The lemmas
`PendingStep`, `ErrorStep` and `ResponseStep` say what a step owes by the way it
ends, and each action then only shows which it is. The refinement shows that a
step that goes on is `Transmit` or a stutter (the frame, once written, stays
written), and one that returns is `Answer` with an entitled length or `GiveUp`.

`LimitIsTight` and `AcceptedLengthFits` are proved for every payload length and every
header of bytes. They rest on what two bytes and four digits make of a number, by
arithmetic, and on the forms that `strconv.Atoi` reads; `EncodeInv` carries the
decision of `Encode` to the states they speak of.

**MockExchangeProofs** (from `MockAssumption` and those of
`SendExchange`). `MockIsAPeer`: every step of the mock is one of the arbitrary peer or
changes nothing that `SendExchange` has, so that all its theorems hold of the client
of the mock, the refinement of the contract among them (`MockKeepsContract`). It needs
that the mock's reply is no longer than the peer's, which `Init` fixes, and that the
mock keeps the connection open until it returns (`PeerInv`). `MatchedExchangeSucceeds`:
with one framing on both sides the reply comes back, for every length and every
size of the buffers. `Lockstep` ties the step of the mock's `main` to what it has read
and written, and `ClientReturns` shows that a client in step with it returns nothing
else.

With two framings, `OnlyByMisreading` says without any hypothesis what could make an
exchange succeed: one side found a whole message of its own framing in a frame of the
other's (`FoundIn`). `RepliesInv` is the invariant for it: a framed mock replies only
to what it found, and writes no more than one frame. That a mismatch is always noticed
would be false: an unframed message of 104 bytes that begins with "0100" is a good
4-digit frame, and the code takes it. `FramedMismatchFails` says where it is
noticed for any payload: two ends with length headers never
have a good exchange by mistake, unless a reply has 11056 bytes or more (0x2B30, read
as "+0"). `HeadersApart` compares the two headers, and `FirstMisread` in
`MCMockExchange` shows that the bound is exact.

**SendCommandProofs** (from the assumptions of `SendCommand`). All four properties.
The invariant lists how each run may be found: `LiveOutcome` has one disjunct per
way a live run ends, with what is on both streams and the status, and `DryOutcome`
one per way a dry run ends. The properties then compare the lists. What the
exchange does is `ExchangeContract` (`CommandKeepsContract`: the command adds nothing to
it and repeats nothing), so with `Refinement` the results hold of the command over
`SendExchange`.

**DocumentsProofs** (from `DocumentsAssumption`: entries have paths and values of the
type; and `EntriesAssumption`: documents are finite, unknown tags lie in the value that
brings them and not under a leaf or each other, and what is set at a composite has a
subfield to be in). `AmbiguityIsRefused`, `PacksWhatWasWritten`,
`ConvertedDocumentIsAccepted` and `RoundTrip`, for every specification and every set of
documents. `PackInv` says that the message carries exactly what has been set so far,
that what waits for the merge is flat, and where each phase has got to; it is inductive
only because a valid document has no two entries of which one lies under the other,
which is what `Valid` is shown to mean. `RoundInv` says that the second document is
made of the leaves of the first message: its paths are those of known leaves and of
unknown tags, and the only ones that cannot be set are unknown tags of three segments
or more. That the library lists an unknown tag once, and at its innermost path, is
the assumption on `brings`.

`CountIsOfTheMessage` is an equivalence: the count is that of the message exactly if
each id is spelled in one way. The count is of ids as the entries spell them, the
message has the ids alone, and the two sets are compared by the map from the one to the
other: it is onto, and one-to-one exactly where each id is spelled in one way. The
invariant keeps the first set finite, through the document that the second round makes
as well.

**InspectionProofs** (from `InspectionAssumption`). All seven properties, for messages
and filters of any size. The invariant records what each command computed; the
properties are then facts about the operators: each mask hides what is sensitive,
the masks of two surfaces agree, or differ exactly where `DiffPartsFromViewOnBytes` says, and a filter that nobody credited is in the list
of the missing. For `StrictNamesTheMissingField` the rules are compared before and
after one field is taken.

**InvocationProofs** (from `ArgumentsAssumption` and `InvocationAssumption`: tables and
lines of the type, `h` and `help` are no flags of a command). `ContextIsOneChoice`,
`ReadsOneSource` and `ResultIsInOnePlace`, for all commands, flags, lines and worlds.
`PhaseInv` says what has been loaded, read and made in each phase, and `SourceInv`
that each input is the one the line names; the properties need both, since they
speak of states long after the choice was made. `LeaveEnds` says what a standard output
that fails can do to a run that ends: cut its text, or kill the process, but never turn
a status of 1 into 0.

`LineMeansWhatItSays` compares what the two loops made of a line with what the line
says, by position and for lines of any length. Its reference definition is a
recursive function of the position; that the recursion has a solution is shown by a
least counterexample (`ArgumentsProofs`). `Pick` lists a set of positions, and
`Ascending` says that it does so in order; one lemma for each kind of word says
what `reorder` and the parser do with it, and `LineInv` ties what is left to read, at
each step, to the line that was given.

**DoctorProofs** (from `DoctorAssumption`: the presets are a finite sequence,
outcomes are of the type). `RecommendsTheBest`, `AmbiguityIsATie`, `FailureIsNoFit`,
`DetectsTheBestReading`, for any number of presets. The heart is `Scanned`: what
two numbers know of the prefix scored so far, namely the first maximum and the
maximum of the rest. `ScanStep` shows that one more score keeps it, also when the
best is demoted to runner-up. `Greatest` (a bounded set of naturals has a greatest
element) gives `BestScore`, which detection compares, its meaning.

Only model-checked:

* liveness (`TimeoutBoundsExchange`, `BrokenLinkEndsExchange`, `ExchangeEnds`), which is
  out of the prover's reach.

Every safety property of the passing runs is stated by a theorem, from the
assumptions on the constants and no other hypothesis.

## 5. Findings

Each is a run that TLC ends with a violation; `PROJECT.json` quotes both sides.

* `app.go:1221`: the command that `doctor` prints leaves out `--encoding hex`
  when that was given, so it may read the source as raw.
* `app.go:1698`: a flag without its value at the end of a line, after an operand,
  takes the "--" that `reorder` inserts for its value.
* `view.go:264`: of overlapping filters `view` credits only the first, and lists
  the others as missing although it shows what they name. `diff` does not.
* `redact.go:467`: under a custom specification `diff` scans the printed digits of a
  binary value for a PAN or a track, and `view` its bytes, so that `diff` shows values
  that `view` hides. `DiffPartsFromViewOnBytes` says that these are all: everywhere
  else the two mask alike.
* `diagnose.go:49`: a message that fails at its MTI or bitmap under one
  specification and fits another is called truncated, instead of being referred
  to `doctor`.

Other disagreements between the code and what is said of it. The modules have the
behaviour of the code, and a property states where exactly the two part, so that the
passing runs show each of them reachable and confined:

* `send.go:164` and `:275`: an `ETIMEDOUT` of the kernel is taken for the deadline. A
  cut unframed response is returned as a whole one, although the comment at
  `send.go:141-145` speaks of a read deadline and README.md:273 of "the peer closes"
  or `--timeout`; and the error says "timed out after 5s" when less has passed, or
  "after 0s" where there was no timeout (`UnframedResponseComplete`,
  `ErrorNamesItsCause`: the disjuncts with `peer = "lost"`).
* `send.go:86`: a mismatch of framings is not noticed where the bytes can be read both
  ways (`OnlyByMisreading`).
* `convert.go:60`: unknown tags "are kept as binary so they survive a round trip", and
  `convert.go:18-21` says that the document round-trips. An unknown tag inside of another
  is given a path of three segments, which `WriteMessage` cannot set (`write.go:60-72`,
  `:156`), so that such a message unpacks to a document that does not pack
  (`ConvertedDocumentIsAccepted`). `fuzz_test.go:101-105` leaves field 55 out of its
  comparison for such tags.
* `write.go:132`: fields are counted by the spelling of their id. `write.go:127`,
  `convert_test.go:115-117` and `e2e/atago/field_count.atago.yaml:1-6` say that the count
  is that of `doctor`, which holds exactly if each id is spelled in one way
  (`CountIsOfTheMessage`).
* `app.go:594` and `:1419`: the result is written to standard output without a look
  at the error. `convert msg > /dev/full` prints nothing and succeeds
  (`ResultIsInOnePlace`: `world.output = "full"`).
* `app.go:1475-1482`: the comment at `app.go:1475-1477` gives the built-in catalog to
  presets and to "whatever a --config explicitly provides". A config that says nothing
  of extensions keeps it for a custom specification too, as README.md:582 has it
  (`ContextIsOneChoice`, its last conjunct).
* `send.go:99`: a 4-digit ASCII length header is parsed with `strconv.Atoi`, so
  a header with a sign, such as "+003", is accepted as a length (`Framing`).
* `app.go:777`: `--expect-field` trims the value it was given and compares it
  with the untrimmed field, so a value that ends in blanks is never matched
  (`SendCommand`).
* `help view --` runs `view` on a file named "--help", and `validate --raw -h` is
  taken for a request for help: `helpRequested` does not know which words are
  values (`Arguments`).

Where a model is coarser than the code, beyond what the modules say of themselves:

* `LooksLikeHex` strips ASCII blanks and `DecodeInput` all of `unicode.IsSpace`; one
  verdict (`form`) stands for both.
* A field that `binary_fields` takes may come back from an unpacked message as text, if
  the specification has it so; `IsBinary` goes by the kind in `Layout`.
* `UnpackDiagnosis.Malformed` also looks for the word "malformed" in the cause, which is
  the library's text.
* The source is read before `--to`, `--encoding`, and the `--format` of `validate`, are
  looked at: an invalid one is refused after the reading, not before it
  (`ReadsOneSource` claims no more).
* Two hazards have no property: an unknown `--format` of `view` with filters
  (`view.go:84`) and the weights of `doctor` (`doctor.go:128`); neither has a statement
  in the code or the docs that a model could be held against, except the order of the
  weights, which is a matter of the layouts.

## 6. Not modelled

* The library: its results are left open where a model uses them. That means no
  property speaks of the bytes of a packed message.
* Wording, colours (`render`), descriptions and meanings (`annotate`), summaries, the
  order of lines, extension notes: text and tables, without state.
* `fieldtypes.go`: one registration at start-up, in a table of the library.
* The contents of layouts, samples and the catalog (`basei`): data. The names of the
  presets and the samples are constants of `Invocation`.
* The order of `doctor`'s weights, which its comment gives: whether sixteen fields
  can decode without a valid MTI is a matter of the layouts.
* RTT, DNS and TLS: nothing depends on the first, the second is part of a failed
  dial, and there is no third.
* Start-up of the mock: it is over before a client dials.
* The recognition of PANs and tracks in text, a matter of regular expressions.
* The parsing of a config, an import of a specification and a hexadecimal message:
  each is a verdict of the world in `Invocation`.

## 7. Plan

What is left is what a different tool does better: the regular expressions of the
masks and the layouts, which a fuzzer or the tests of the repository exercise on real
bytes. A larger step would be to join `Invocation` and `SendCommand`, whose gates now
take the verdicts of the parser as given, and to state the command over `SendExchange`
as one module instead of through the contract.
