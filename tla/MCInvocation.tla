---------------------------- MODULE MCInvocation ----------------------------
(***************************************************************************)
(* Small instances of Invocation: the command lines are taken from five    *)
(* families, each with the worlds that matter to it.                       *)
(***************************************************************************)
EXTENDS Invocation, SequencesExt

MCCommands == {"convert", "validate", "diff", "sample", "specs"}

MCValueFlags ==
  [convert  |-> {"spec", "config", "output", "encoding", "to", "raw"},
   validate |-> {"spec", "config", "raw", "encoding", "format", "color"},
   diff     |-> {"spec", "config", "encoding", "format", "color", "filter"},
   sample   |-> {"format", "output"},
   specs    |-> {"format"}]

MCBoolFlags ==
  [c \in MCCommands |->
     CASE c = "validate" -> {"no-color", "strict"}
       [] c = "diff" -> {"no-color", "unsafe"}
       [] OTHER -> {}]

Flag(name) == [dashes |-> 2, name |-> name, value |-> NoValue]
Short(name) == [dashes |-> 1, name |-> name, value |-> NoValue]
With(name, value) == [dashes |-> 2, name |-> name, value |-> value]

ConfigDir == <<"config">>
SpecFile == Plain("layout.json")
AbsoluteSpec == Plain("/layout.json")
ConfigFile == Plain("config.json")
In == Plain("in")

MCAbsolute == {AbsoluteSpec}
MCMaxInputSize == 2

\* Sources of one byte, sound in every reading or in none, and larger ones.
Holding(form, sound, rawFits, size) ==
  [form |-> form, size |-> size, sound |-> sound, rawFits |-> rawFits]

Contents ==
  {Holding("json", s, FALSE, 1) : s \in {{}, {"document"}}}
  \cup {Holding("hex", s, f, 1) : s \in SUBSET {"hex", "raw"}, f \in BOOLEAN}
  \cup {Holding("binary", s, FALSE, 1) : s \in {{}, {"raw"}}}

Sizes == {Holding("hex", {"hex"}, FALSE, n) : n \in 0..4}

PlainWorld ==
  [configs |-> <<>>, specs |-> {},
   holds |-> (In :> Holding("hex", {"hex"}, FALSE, 1)),
   stdin |-> Holding("json", {"document"}, FALSE, 1),
   typed |-> FALSE, watched |-> FALSE, disk |-> "writable", output |-> "open"]

\* A disk and a standard output of every kind.
Places(w) ==
  {[w EXCEPT !.disk = d, !.output = o] :
     d \in {"writable", "denied", "full"}, o \in {"open", "full", "closed"}}

Command(name, words) == <<Plain(name)>> \o words

\* Every line of up to four words for the flag parser.
LineWords ==
  {Flag("raw"), With("raw", "in"), Flag("strict"), With("strict", "maybe"), In, Stdin,
   Terminator, Short("h"), Short("help"), Flag("nope"),
   [dashes |-> 3, name |-> "raw", value |-> NoValue]}

LineStarts ==
  {[line |-> Command("validate", words), world |-> PlainWorld] :
     words \in BoundedSeq(LineWords, 4)}

\* Every line of up to three words for the dispatch.
DispatchWords ==
  {Plain("help"), Short("h"), Flag("help"), Plain("version"), Short("v"), Plain("nope"),
   Plain("convert"), Plain("specs"), Plain("sample"), Terminator}

DispatchStarts ==
  {[line |-> words, world |-> PlainWorld] : words \in BoundedSeq(DispatchWords, 3)}

\* A flag with one of some values, or not given at all.
Optional(name, values) == {<<>>} \cup {<<Flag(name), v>> : v \in values}

ContextLines ==
  {Command("validate", s \o c \o <<In>>) :
     s \in Optional("spec", {Blank, Plain("spec87ascii"), SpecFile, AbsoluteSpec}),
     c \in Optional("config", {ConfigFile, Plain("nothing")})}
  \cup {Command("validate", <<Flag("config"), ConfigFile, Flag("spec"), Plain("spec87ascii"),
                              Flag("spec"), SpecFile, In>>)}

ContextWorlds ==
  {[PlainWorld EXCEPT !.configs = (ConfigFile :> c), !.specs = s] :
     c \in [valid : BOOLEAN, dir : {ConfigDir},
            spec : {Blank, Plain("spec87bcd-starter"), SpecFile, AbsoluteSpec},
            extensions : {"omitted", "empty", "listed"}],
     s \in SUBSET {<<WorkDir, SpecFile>>, <<ConfigDir, SpecFile>>, <<Root, AbsoluteSpec>>}}

ContextStarts == [line : ContextLines, world : ContextWorlds]

ConvertLines ==
  {Command("convert", <<In>> \o t \o e \o o) :
     t \in Optional("to", {Plain("hex"), Plain("json"), Plain("nope")}),
     e \in Optional("encoding", {Blank, Plain("hex"), Plain("raw"), Plain("nope")}),
     o \in Optional("output", {Blank, Plain("out")})}

ConvertWorlds ==
  UNION {Places([PlainWorld EXCEPT !.holds = (In :> c)]) : c \in Contents}

ConvertStarts == [line : ConvertLines, world : ConvertWorlds]

SourceLines ==
  {Command(name, r \o words) :
     name \in {"convert", "validate"}, r \in Optional("raw", {Blank, In, Plain("none")}),
     words \in {<<>>, <<Stdin>>, <<Blank>>, <<In>>, <<Plain("nothing")>>}}

SideWords == {Stdin, Blank, In, Plain("nothing"), Flag("unsafe")}

SideLines ==
  {Command("diff", words \o f) :
     words \in BoundedSeq(SideWords, 3), f \in Optional("format", {Plain("json"), Plain("nope")})}
  \cup {Command("diff", <<In, In>> \o e \o c) :
          e \in Optional("encoding", {Plain("raw"), Plain("nope")}),
          c \in Optional("color", {Plain("never"), Plain("nope")})}

SourceWorlds ==
  {[PlainWorld EXCEPT !.holds = (In :> c), !.stdin = c, !.typed = t, !.watched = w] :
     c \in Sizes \cup {Holding("binary", {"raw"}, FALSE, 1)}, t \in BOOLEAN, w \in BOOLEAN}

SourceStarts == [line : SourceLines \cup SideLines, world : SourceWorlds]

FixedLines ==
  {Command("sample", n \o f \o o) :
     n \in {<<>>, <<Plain("0800-network-echo")>>, <<Plain("nope")>>},
     f \in Optional("format", {Plain("hex"), Plain("nope")}),
     o \in Optional("output", {Blank, Plain("out")})}
  \cup {Command("specs", f) : f \in Optional("format", {Plain("json"), Plain("nope")})}
  \cup {Command("validate", <<In>> \o f) :
          f \in Optional("format", {Plain("json"), Plain("nope")})
                \cup Optional("color", {Plain("never"), Plain("nope")})}

FixedStarts == [line : FixedLines, world : Places(PlainWorld)]

MCStarts ==
  LineStarts \cup DispatchStarts \cup ContextStarts \cup ConvertStarts \cup SourceStarts
  \cup FixedStarts
=============================================================================
