----------------------------- MODULE Invocation -----------------------------
(***************************************************************************)
(* One invocation of iso8583tool (App.Run in cmd/app.go), from the command *)
(* line to the exit status: the dispatch and its help, the arguments       *)
(* (Arguments), the specification and catalog that --spec and --config     *)
(* choose, the sources that messages are read from, and where the result   *)
(* goes.  convert, sample and specs are followed to their end; validate    *)
(* and diff until they hand their messages over to a service (Inspection); *)
(* view, redact, doctor and send begin like validate.                      *)
(*                                                                         *)
(* Names of files, specifications and samples and inline messages are      *)
(* words, like the arguments that give them; blanks around one, and the    *)
(* case of an encoding or a direction, are left out and a blank word is    *)
(* Blank.  A file that cannot be read, and a specification that is not     *)
(* .json or not valid, counts as absent.                                   *)
(***************************************************************************)
EXTENDS Arguments, FiniteSets

CONSTANTS
  MaxInputSize,   \* messageio.MaxInputSize
  Absolute,       \* the paths that are absolute
  Starts          \* the command lines, each with a world to run in

Presets == {Plain("basei-starter"), Plain("spec87ascii"), Plain("spec87bcd-starter")}

Samples ==
  {Plain("0100-auth-request"), Plain("0110-auth-response"),
   Plain("0200-financial-request"), Plain("0210-financial-response"),
   Plain("0420-reversal-advice"), Plain("0430-reversal-response"),
   Plain("0800-network-echo"), Plain("0810-network-echo-response")}

Blank == Plain("")
WorkDir == <<"work">>
Root == <<"root">>

\* What a source holds: its form, as LooksLikeJSON and LooksLikeHex tell it; its
\* size; the readings under which it converts; and whether, of a hexadecimal one,
\* a preset fits the raw bytes strictly better.
Readings == {"document", "hex", "raw"}
Content == [form : {"json", "hex", "binary"}, size : Nat, sound : SUBSET Readings,
            rawFits : BOOLEAN]

\* A settings file: whether it parses and its catalog is sound, its directory.
Config == [valid : BOOLEAN, dir : Seq(STRING), spec : Word,
           extensions : {"omitted", "empty", "listed"}]

\* holds has the files, and the inline messages, that there are; specs the
\* specifications that can be loaded, with their directories.  Standard output may
\* refuse what is written to it ("full"), or be a pipe that nobody reads ("closed").
World(w) ==
  /\ \A c \in DOMAIN w.configs : w.configs[c] \in Config
  /\ w.specs \subseteq Seq(STRING) \X Word
  /\ \A f \in DOMAIN w.holds : w.holds[f] \in Content
  /\ w.stdin \in Content
  /\ w.typed \in BOOLEAN           \* standard input is a terminal
  /\ w.watched \in BOOLEAN         \* standard output is one
  /\ w.disk \in {"writable", "denied", "full"}
  /\ w.output \in {"open", "full", "closed"}

ASSUME InvocationAssumption ==
  /\ MaxInputSize \in Nat
  /\ Absolute \subseteq Word
  /\ \A s \in Starts : s.line \in Seq(Word) /\ World(s.world)

VARIABLES
  world,     \* the surroundings, fixed by Init
  line,      \* os.Args[1:], or what runHelp makes of it
  context,   \* resolvedContext, None before it is loaded
  inputs,    \* what ReadSource has returned: where from, what, and how much of it
  result,    \* what convert or sample has made, "none" before that
  written,   \* the output file, None if it was not touched
  stdout,    \* what is on standard output, by kind
  stderr,    \* whether there is anything on standard error
  exit       \* the exit status, -1 while running

worldVars == <<context, inputs, result, written>>
endVars   == <<stdout, stderr, exit>>
vars == <<pc, argumentVars, world, line, worldVars, endVars>>

None == <<>>

Init ==
  /\ \E s \in Starts : line = s.line /\ world = s.world
  /\ pc = "Run" /\ command = "none" /\ args = <<>>
  /\ todo = <<>> /\ flags = <<>> /\ positionals = <<>>
  /\ settings = <<>> /\ operands = <<>>
  /\ context = None /\ inputs = <<>> /\ result = "none" /\ written = None
  /\ stdout = {} /\ stderr = FALSE /\ exit = -1

\* The status of a process that SIGPIPE ends: the Go runtime raises it when a
\* write to standard output finds no reader.
Killed == 128 + 13

\* The status comes from what the code counts as an error, and a write to standard
\* output is none: only its text is cut short, or the process is killed in it.
\* Standard error is taken to work.
Leave(code, out, complaint) ==
  /\ pc' = "done"
  /\ \/ /\ out = {} \/ world.output = "open"
        /\ exit' = code /\ stdout' = out /\ stderr' = complaint
     \/ /\ out # {} /\ world.output = "full"
        /\ exit' = code /\ stdout' \in {{}, {"a-part"}} /\ stderr' = complaint
     \/ /\ out # {} /\ world.output = "closed"
        /\ exit' = Killed /\ stdout' \in {{}, {"a-part"}} /\ stderr' = FALSE
  /\ UNCHANGED <<argumentVars, world, line>>

Refuse == Leave(1, {}, TRUE) /\ UNCHANGED worldVars

-----------------------------------------------------------------------------
(* Dispatch *)

HelpCommand == Plain("help")
HelpFlag == [dashes |-> 2, name |-> "help", value |-> NoValue]

\* What --version asks for, in its three spellings.
VersionWords == {Plain("version"), [dashes |-> 1, name |-> "v", value |-> NoValue],
                 [dashes |-> 2, name |-> "version", value |-> NoValue]}

IsCommand(w) == \E c \in Commands : w = Plain(c)

\* "help NAME", where NAME is a command.
AsksForCommand ==
  Len(line) > 1 /\ line[1] = HelpCommand /\ IsCommand(line[2])

RunRoot ==
  /\ pc = "Run"
  /\ \/ line = <<>>
     \/ Len(line) = 1 /\ line[1] \in HelpWords \cup {HelpCommand}
     \/ line = <<HelpCommand, HelpCommand>>
     \/ line = <<HelpCommand, Plain("version")>>
  /\ Leave(0, {"root-help"}, FALSE) /\ UNCHANGED worldVars

RunVersion ==
  /\ pc = "Run" /\ Len(line) = 1 /\ line[1] \in VersionWords
  /\ Leave(0, {"version"}, FALSE) /\ UNCHANGED worldVars

\* Too much after help or version, or no command.
RunRefuses ==
  /\ pc = "Run" /\ line # <<>> /\ ~IsCommand(line[1]) /\ ~AsksForCommand
  /\ Len(line) = 1 => line[1] \notin HelpWords \cup {HelpCommand} \cup VersionWords
  /\ Len(line) = 2 /\ line[1] = HelpCommand => line[2] \notin {HelpCommand, Plain("version")}
  /\ Refuse

\* runHelp runs the command again, with --help at the end.
RunHelp ==
  /\ pc = "Run" /\ AsksForCommand
  /\ line' = Append(Tail(line), HelpFlag)
  /\ UNCHANGED <<pc, argumentVars, world, worldVars, endVars>>

RunCommand ==
  /\ pc = "Run" /\ line # <<>> /\ IsCommand(line[1])
  /\ pc' = "parseFlags" /\ command' = line[1].name /\ args' = Tail(line)
  /\ UNCHANGED <<todo, flags, positionals, settings, operands, world, line>>
  /\ UNCHANGED <<worldVars, endVars>>

\* parseFlags prints the usage where it was asked for.
PrintUsage ==
  /\ pc = "parseFlags" /\ HelpRequested(args)
  /\ Leave(0, {"usage"}, FALSE) /\ UNCHANGED worldVars

ParseStep == ReadArguments /\ UNCHANGED <<world, line, worldVars, endVars>>

\* The parser prints it on standard error, but succeeds.
ParseHelp == ParserHelp /\ Leave(0, {}, TRUE) /\ UNCHANGED worldVars

ParseFails == ParserRefuses /\ Refuse

-----------------------------------------------------------------------------
(* Settings *)

\* The value that a flag was set to last, or its default.
SettingOr(f, default) ==
  LET set == {i \in DOMAIN settings : settings[i][1] = f}
  IN  IF set = {} THEN default
      ELSE settings[CHOOSE i \in set : \A j \in set : j <= i][2]

Setting(f) == SettingOr(f, Blank)
Encoding == SettingOr("encoding", Plain("auto"))

Colors == {Plain("auto"), Plain("always"), Plain("never")}
ReportFormats == {Plain("text"), Plain("json")}
Format == SettingOr("format", Plain("text"))

Allowed == CASE command = "specs" -> 0 [] command = "diff" -> 2 [] OTHER -> 1

\* Of the commands that take a message only diff has to be given its own, and can
\* take one of the two from standard input.
ArgumentsFit ==
  /\ Len(operands) <= Allowed
  /\ command = "diff" => Len(operands) = 2 /\ operands # <<Stdin, Stdin>>

\* What the commands that take a message look at first; validate looks at the
\* format last.
SettingsFit ==
  /\ command \in {"validate", "diff"} => SettingOr("color", Plain("auto")) \in Colors
  /\ command = "diff" => Format \in ReportFormats

ArgumentsRefused == pc = "run" /\ ~ArgumentsFit /\ Refuse

TakesMessage == pc = "run" /\ ArgumentsFit /\ command \in {"convert", "validate", "diff"}

SettingsRefused == TakesMessage /\ ~SettingsFit /\ Refuse

DefaultConfig == [valid |-> TRUE, dir |-> WorkDir, spec |-> Blank, extensions |-> "omitted"]

\* config.Load, of a path that has a valid file.
LoadedConfig ==
  IF Setting("config") = Blank THEN DefaultConfig ELSE world.configs[Setting("config")]

ConfigLoads ==
  Setting("config") # Blank =>
    Setting("config") \in DOMAIN world.configs /\ LoadedConfig.valid

\* The directory is taken from the config even if the flag names the spec.
Choice_Wrong ==
  LET spec == IF Setting("spec") # Blank THEN Setting("spec") ELSE LoadedConfig.spec IN
  [spec |-> IF spec = Blank THEN Plain("basei-starter") ELSE spec, dir |-> LoadedConfig.dir]

\* The flag over the config over the starter, and the directory that goes with it.
Choice ==
  IF Setting("spec") # Blank THEN [spec |-> Setting("spec"), dir |-> WorkDir]
  ELSE [spec |-> IF LoadedConfig.spec = Blank THEN Plain("basei-starter")
                 ELSE LoadedConfig.spec,
        dir  |-> LoadedConfig.dir]

\* messagespec.Load: a preset has no directory.
Resolved(choice) ==
  IF choice.spec \in Presets THEN [choice EXCEPT !.dir = <<>>]
  ELSE IF choice.spec \in Absolute THEN [choice EXCEPT !.dir = Root]
  ELSE choice

SpecLoads ==
  Choice.spec \in Presets
    \/ <<Resolved(Choice).dir, Resolved(Choice).spec>> \in world.specs

\* A file named by the flag alone is described by itself.
Catalog ==
  IF Setting("spec") \notin Presets \cup {Blank} /\ Setting("config") = Blank THEN "empty"
  ELSE IF LoadedConfig.extensions = "omitted" THEN "built-in"
  ELSE LoadedConfig.extensions

LoadContext ==
  /\ TakesMessage /\ SettingsFit /\ ConfigLoads /\ SpecLoads
  /\ context' = [spec    |-> Resolved(Choice).spec,
                 dir     |-> Resolved(Choice).dir,
                 catalog |-> Catalog]
  /\ pc' = "read"
  /\ UNCHANGED <<argumentVars, world, line, inputs, result, written, endVars>>

LoadContextFails ==
  TakesMessage /\ SettingsFit /\ ~(ConfigLoads /\ SpecLoads) /\ Refuse

-----------------------------------------------------------------------------
(* The source *)

Sides == IF command = "diff" THEN 2 ELSE 1

\* The operand that is read next, and the inline message.
Target == IF operands = <<>> THEN Blank ELSE operands[Len(inputs) + 1]
Inline == Setting("raw")

\* inputStdin gives no reader for a terminal that was not asked for; sideStdin
\* gives one to the side of diff that asks.
StdinGiven == Target = Stdin \/ (command # "diff" /\ ~world.typed)

\* A message on the command line that is none.
Garbage == [form |-> "binary", size |-> 1, sound |-> {}, rawFits |-> FALSE]

\* What ReadSource opens, if it does.
Opened ==
  IF Inline # Blank
  THEN [from |-> "inline",
        holds |-> IF Inline \in DOMAIN world.holds THEN world.holds[Inline] ELSE Garbage]
  ELSE IF Target \in {Stdin, Blank} THEN [from |-> "stdin", holds |-> world.stdin]
  ELSE [from |-> "file", holds |-> world.holds[Target]]

SourceOpens ==
  IF Inline # Blank THEN Target = Blank
  ELSE IF Target \in {Stdin, Blank} THEN StdinGiven
  ELSE Target \in DOMAIN world.holds

\* Stops reading at the limit, where one more byte would tell.
ReadLimited_Wrong(size) == IF size > MaxInputSize THEN MaxInputSize ELSE size

\* io.LimitReader: one byte more than is allowed.
ReadLimited(size) == IF size > MaxInputSize THEN MaxInputSize + 1 ELSE size

\* How much of the source is read; an inline one is there already.
AmountRead == IF Inline # Blank THEN Opened.holds.size ELSE ReadLimited(Opened.holds.size)

ReadSource ==
  /\ pc = "read" /\ SourceOpens /\ AmountRead <= MaxInputSize
  /\ inputs' = Append(inputs,
       [from |-> Opened.from, holds |-> Opened.holds, read |-> AmountRead])
  /\ pc' = IF command = "convert" THEN "convert" ELSE "decode"
  /\ UNCHANGED <<argumentVars, world, line, context, result, written, endVars>>

ReadSourceFails ==
  /\ pc = "read" /\ ~(SourceOpens /\ AmountRead <= MaxInputSize) /\ Refuse

-----------------------------------------------------------------------------
(* Encodings *)

Encodings == {Plain("auto"), Blank, Plain("hex"), Plain("raw")}

\* autoDecodeMessage, or the encoding that was asked for; none means hex.
Reading(c) ==
  IF Encoding = Plain("raw") THEN "raw"
  ELSE IF Encoding = Plain("auto") /\ (c.form # "hex" \/ c.rawFits) THEN "raw"
  ELSE "hex"

\* DecodeInput and resolveInput.
Decodes(c) == Encoding \in Encodings /\ (Reading(c) = "hex" => c.form = "hex")

-----------------------------------------------------------------------------
(* convert *)

\* convertDirection: what comes out.
Direction(c) ==
  IF Setting("to") = Plain("hex") THEN "message"
  ELSE IF Setting("to") = Plain("json") THEN "document"
  ELSE IF c.form = "json" THEN "message" ELSE "document"

\* The input is not asked whether it fits the direction.
Converts_Wrong(c) ==
  /\ Setting("to") \in {Blank, Plain("hex"), Plain("json")}
  /\ Encoding \in Encodings
  /\ Direction(c) = "document" => Decodes(c) /\ Reading(c) \in c.sound

\* The document is parsed and packed, or the message decoded and unpacked, if it
\* fits the direction; "auto" writes a message in hex.
Converts(c) ==
  /\ Setting("to") \in {Blank, Plain("hex"), Plain("json")}
  /\ Encoding \in Encodings
  /\ Direction(c) = "message" => c.form = "json" /\ "document" \in c.sound
  /\ Direction(c) = "document" =>
       c.form # "json" /\ Decodes(c) /\ Reading(c) \in c.sound

Convert ==
  /\ pc = "convert" /\ Converts(inputs[1].holds)
  /\ result' = Direction(inputs[1].holds)
  /\ pc' = "output"
  /\ UNCHANGED <<argumentVars, world, line, context, inputs, written, endVars>>

ConvertFails == pc = "convert" /\ ~Converts(inputs[1].holds) /\ Refuse

-----------------------------------------------------------------------------
(* validate and diff, as far as their services *)

Read == inputs[Len(inputs)].holds

\* readMessageInput and readSideInput decode a source before the next is read.
Decode ==
  /\ pc = "decode" /\ Decodes(Read)
  /\ pc' = IF Len(inputs) < Sides THEN "read" ELSE "service"
  /\ UNCHANGED <<argumentVars, world, line, worldVars, endVars>>

DecodeFails == pc = "decode" /\ ~Decodes(Read) /\ Refuse

\* The service of validate reports what it found, that of diff may fail; an
\* unknown format prints nothing.
Service ==
  /\ pc = "service"
  /\ \/ Format \in ReportFormats /\ Leave(0, {"report"}, FALSE)
     \/ Format \in ReportFormats /\ command = "validate" /\ Leave(1, {"report"}, FALSE)
     \/ command = "diff" /\ Leave(1, {}, TRUE)
     \/ Format \notin ReportFormats /\ Leave(1, {}, TRUE)
  /\ UNCHANGED worldVars

-----------------------------------------------------------------------------
(* sample and specs *)

\* Without a name, the format and the output are not looked at.
ListSamples ==
  /\ pc = "run" /\ command = "sample" /\ ArgumentsFit
  /\ Target = Blank
  /\ Leave(0, {"report"}, FALSE) /\ UNCHANGED worldVars

Renders ==
  Target \in Samples
    /\ SettingOr("format", Plain("json")) \in {Blank, Plain("json"), Plain("hex")}

RenderSample ==
  /\ pc = "run" /\ command = "sample" /\ ArgumentsFit
  /\ Target # Blank /\ Renders
  /\ result' = IF SettingOr("format", Plain("json")) = Plain("hex") THEN "message"
               ELSE "document"
  /\ pc' = "output"
  /\ UNCHANGED <<argumentVars, world, line, context, inputs, written, endVars>>

SampleFails ==
  /\ pc = "run" /\ command = "sample" /\ ArgumentsFit
  /\ Target # Blank /\ ~Renders /\ Refuse

RunSpecs ==
  /\ pc = "run" /\ command = "specs" /\ ArgumentsFit
  /\ IF Format \in ReportFormats
     THEN Leave(0, {"report"}, FALSE) ELSE Leave(1, {}, TRUE)
  /\ UNCHANGED worldVars

-----------------------------------------------------------------------------
(* The result of convert and sample *)

\* convert warns whoever watches that it masks nothing.
PrintResult ==
  /\ pc = "output" /\ Setting("output") = Blank
  /\ Leave(0, {result}, command = "convert" /\ world.watched)
  /\ UNCHANGED worldVars

WriteResult ==
  /\ pc = "output" /\ Setting("output") # Blank /\ world.disk = "writable"
  /\ written' = [path |-> Setting("output"), what |-> result]
  /\ Leave(0, {"report"}, FALSE) /\ UNCHANGED <<context, inputs, result>>

\* os.WriteFile empties the file before it writes.
WriteFails ==
  /\ pc = "output" /\ Setting("output") # Blank /\ world.disk # "writable"
  /\ written' = IF world.disk = "denied" THEN None
                ELSE [path |-> Setting("output"), what |-> "a-part"]
  /\ Leave(1, {}, TRUE) /\ UNCHANGED <<context, inputs, result>>

-----------------------------------------------------------------------------

Done == pc = "done" /\ UNCHANGED vars

Next ==
  \/ RunRoot \/ RunVersion \/ RunRefuses \/ RunHelp \/ RunCommand
  \/ PrintUsage \/ ParseStep \/ ParseHelp \/ ParseFails
  \/ ArgumentsRefused \/ SettingsRefused \/ LoadContext \/ LoadContextFails
  \/ ReadSource \/ ReadSourceFails \/ Convert \/ ConvertFails
  \/ Decode \/ DecodeFails \/ Service \/ ListSamples \/ RenderSample \/ SampleFails \/ RunSpecs
  \/ PrintResult \/ WriteResult \/ WriteFails \/ Done

Spec == Init /\ [][Next]_vars

-----------------------------------------------------------------------------
(* What an invocation promises *)

\* --spec, --config and the config's own spec and catalog never mix.  A relative
\* specification is taken from the directory of whoever named it, whatever else
\* was given; a config that lists a catalog, or an empty one, is obeyed; and the
\* built-in catalog describes a specification file only where a config keeps it.
ContextIsOneChoice ==
  context # None =>
    LET flag == Setting("spec")
        file == context.spec \notin Presets
        config == Setting("config") # Blank IN
    /\ flag # Blank => context.spec = flag
    /\ file /\ context.spec \notin Absolute =>
         context.dir = IF flag # Blank \/ ~config THEN WorkDir
                       ELSE world.configs[Setting("config")].dir
    /\ config /\ world.configs[Setting("config")].extensions # "omitted" =>
         context.catalog = world.configs[Setting("config")].extensions
    /\ file /\ context.catalog = "built-in" => config

\* Every message comes from the source that the command line names for it, in full,
\* and none is read before the arguments fit and the context is loaded, or where
\* help is asked for.  (What --to and --encoding say, and the format of a validate,
\* is looked at later.)  Standard input is read once at most, and only where no
\* file and no inline message is given; a terminal only if "-" asks for it.  A
\* source that is too large is refused, never cut.
ReadsOneSource ==
  /\ inputs # <<>> => ArgumentsFit /\ context # None /\ ~HelpRequested(args)
  /\ Len(inputs) <= Sides
  /\ \A i, j \in DOMAIN inputs :
       inputs[i].from = "stdin" /\ inputs[j].from = "stdin" => i = j
  /\ \A i \in DOMAIN inputs :
       LET operand == IF operands = <<>> THEN Blank ELSE operands[i] IN
       /\ inputs[i].read = inputs[i].holds.size /\ inputs[i].read <= MaxInputSize
       /\ inputs[i].from = "inline" <=> Inline # Blank
       /\ inputs[i].from = "inline" => operand = Blank
       /\ inputs[i].from = "file" => inputs[i].holds = world.holds[operand]
       /\ inputs[i].from = "stdin" =>
            operand = Stdin \/ (operand = Blank /\ ~world.typed /\ Sides = 1)

\* convert and sample leave one result in one place, or none.  convert turns a
\* document into a message and anything else into a document, whatever --to and
\* --encoding say, or it fails.  A run that fails has nothing on standard output,
\* and has touched the output file only if the disk failed while it was written.  A
\* run that succeeds has written the file in full, or else has the result on a
\* standard output that took it: where that is full, the result is cut or lost and
\* the status is 0 all the same, and where nobody reads it the process is killed.
ResultIsInOnePlace ==
  pc = "done" /\ command \in {"convert", "sample"} =>
    /\ exit = 1 =>
         /\ stdout = {} /\ stderr
         /\ written # None => world.disk = "full" /\ written.what = "a-part"
    /\ exit # 1 /\ result # "none" =>
         IF Setting("output") = Blank
         THEN /\ written = None
              /\ stdout = {result} \/ world.output = (IF exit = 0 THEN "full" ELSE "closed")
         ELSE written = [path |-> Setting("output"), what |-> result]
    /\ exit = Killed => world.output = "closed"
    /\ exit = 0 /\ inputs # <<>> =>
         result = IF inputs[1].holds.form = "json" THEN "message" ELSE "document"
=============================================================================
