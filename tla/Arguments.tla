------------------------------ MODULE Arguments ------------------------------
(***************************************************************************)
(* How a command reads its arguments (parseFlags in cmd/app.go): help is   *)
(* looked for in the arguments as they are; reorder then moves the flags   *)
(* and their values before the operands; and the flag package of Go, which *)
(* stops at the first operand, parses the result.                          *)
(*                                                                         *)
(* A word is what the shell hands over: the number of its leading dashes,  *)
(* the name after them and, if it has an "=", the value after that.        *)
(***************************************************************************)
EXTENDS Integers, Sequences, FiniteSets

CONSTANTS
  Commands,     \* the commands
  ValueFlags,   \* ValueFlags[c]: the flags of command c that take a value
  BoolFlags     \* BoolFlags[c]: those that take none

NoValue == "no-value"

Plain(name) == [dashes |-> 0, name |-> name, value |-> NoValue]

Terminator == [dashes |-> 2, name |-> "", value |-> NoValue]
Stdin == [dashes |-> 1, name |-> "", value |-> NoValue]

HelpWords == { [dashes |-> 1, name |-> "h", value |-> NoValue],
               [dashes |-> 2, name |-> "help", value |-> NoValue] }

Word == [dashes : Nat, name : STRING, value : STRING]

\* What strconv.ParseBool accepts.
Truths == {"1", "t", "T", "TRUE", "true", "True", "0", "f", "F", "FALSE", "false", "False"}

ASSUME ArgumentsAssumption ==
  /\ ValueFlags \in [Commands -> SUBSET STRING]
  /\ BoolFlags \in [Commands -> SUBSET STRING]
  /\ \A c \in Commands : ValueFlags[c] \cap BoolFlags[c] = {}
  /\ \A c \in Commands : {"", "h", "help"} \cap (ValueFlags[c] \cup BoolFlags[c]) = {}

VARIABLES
  pc,           \* the function that is running
  command,      \* the command, "none" before it is known
  args,         \* its arguments
  todo,         \* the words that reorder, and then the parser, has not seen
  flags,        \* the flags that reorder has seen, with the values that follow
  positionals,  \* the operands that reorder has seen
  settings,     \* the flags that the parser has set, in order, with their values
  operands      \* flagSet.Args()

argumentVars == <<command, args, todo, flags, positionals, settings, operands>>

-----------------------------------------------------------------------------
(* Words *)

\* strings.HasPrefix(arg, "-") && arg != "-"
IsOption(w) == w.dashes > 0 /\ w # Stdin

\* A flag whose value is the next word.
TakesNext(w) == w.value = NoValue /\ w.name \in ValueFlags[command]

\* helpRequested.  It does not know which words are values.
HelpRequested(words) ==
  \E i \in DOMAIN words :
    words[i] \in HelpWords /\ \A j \in 1..i : words[j] # Terminator

From(s, i) == SubSeq(s, i, Len(s))

-----------------------------------------------------------------------------
(* reorder *)

\* parseFlags, unless help is asked for.
StartReorder ==
  /\ pc = "parseFlags" /\ ~HelpRequested(args)
  /\ pc' = "reorder" /\ todo' = args
  /\ UNCHANGED <<command, args, flags, positionals, settings, operands>>

\* How many words a flag is moved with.
Moved_Wrong(w) == 1

\* A flag at the very end has no value to be moved with.
Moved(w) == IF TakesNext(w) /\ Len(todo) > 1 THEN 2 ELSE 1

ReorderFlag ==
  /\ pc = "reorder" /\ todo # <<>>
  /\ Head(todo) # Terminator /\ IsOption(Head(todo))
  /\ flags' = flags \o SubSeq(todo, 1, Moved(Head(todo)))
  /\ todo' = From(todo, Moved(Head(todo)) + 1)
  /\ UNCHANGED <<pc, command, args, positionals, settings, operands>>

ReorderPositional ==
  /\ pc = "reorder" /\ todo # <<>> /\ ~IsOption(Head(todo))
  /\ positionals' = Append(positionals, Head(todo))
  /\ todo' = Tail(todo)
  /\ UNCHANGED <<pc, command, args, flags, settings, operands>>

ReorderTerminator ==
  /\ pc = "reorder" /\ todo # <<>> /\ Head(todo) = Terminator
  /\ positionals' = positionals \o Tail(todo)
  /\ todo' = <<>>
  /\ UNCHANGED <<pc, command, args, flags, settings, operands>>

\* The operands come last, behind a terminator of their own.
Reordered ==
  /\ pc = "reorder" /\ todo = <<>>
  /\ todo' = IF positionals = <<>> THEN flags
             ELSE flags \o <<Terminator>> \o positionals
  /\ pc' = "parse"
  /\ UNCHANGED <<command, args, flags, positionals, settings, operands>>

-----------------------------------------------------------------------------
(* flag.FlagSet.Parse *)

Parsing == pc = "parse" /\ todo # <<>> /\ IsOption(Head(todo)) /\ Head(todo) # Terminator

WellFormed(w) == w.dashes \in {1, 2} /\ w.name # ""

\* Takes the value from the word itself or else from the one that follows,
\* whatever that one looks like.
ParseValueFlag ==
  /\ Parsing /\ WellFormed(Head(todo))
  /\ Head(todo).name \in ValueFlags[command]
  /\ TakesNext(Head(todo)) => Len(todo) > 1
  /\ settings' = Append(settings,
       <<Head(todo).name,
         IF TakesNext(Head(todo)) THEN todo[2] ELSE Plain(Head(todo).value)>>)
  /\ todo' = From(todo, IF TakesNext(Head(todo)) THEN 3 ELSE 2)
  /\ UNCHANGED <<pc, command, args, flags, positionals, operands>>

ParseBoolFlag ==
  /\ Parsing /\ WellFormed(Head(todo))
  /\ Head(todo).name \in BoolFlags[command]
  /\ Head(todo).value \in Truths \cup {NoValue}
  /\ settings' = Append(settings, <<Head(todo).name, Plain(Head(todo).value)>>)
  /\ todo' = Tail(todo)
  /\ UNCHANGED <<pc, command, args, flags, positionals, operands>>

\* The first word that is no flag ends the flags; a terminator is dropped.
ParseEnds ==
  /\ pc = "parse" /\ ~Parsing
  /\ operands' = IF todo # <<>> /\ Head(todo) = Terminator THEN Tail(todo) ELSE todo
  /\ todo' = <<>>
  /\ pc' = "run"
  /\ UNCHANGED <<command, args, flags, positionals, settings>>

\* flag.ErrHelp: -h and -help in any spelling that helpRequested has not seen.
ParserHelp ==
  /\ Parsing /\ WellFormed(Head(todo)) /\ Head(todo).name \in {"h", "help"}

\* A bad spelling, an unknown flag, a missing value or a Boolean that is none.
ParserRefuses ==
  /\ Parsing
  /\ LET w == Head(todo) IN
       \/ ~WellFormed(w)
       \/ w.name \notin {"h", "help"} \cup ValueFlags[command] \cup BoolFlags[command]
       \/ TakesNext(w) /\ Len(todo) = 1
       \/ w.name \in BoolFlags[command] /\ w.value \notin Truths \cup {NoValue}

ReadArguments ==
  \/ StartReorder \/ ReorderFlag \/ ReorderPositional \/ ReorderTerminator
  \/ Reordered \/ ParseValueFlag \/ ParseBoolFlag \/ ParseEnds

-----------------------------------------------------------------------------
(* What the arguments say, read in one pass from left to right *)

\* Whether word i is the value of the flag before it.
IsValue ==
  LET value[i \in 0..Len(args)] ==
        i > 1 /\ ~value[i - 1] /\ IsOption(args[i - 1]) /\ TakesNext(args[i - 1])
  IN  value

\* The first terminator that is not a value, or the end.
EndOfFlags ==
  LET ends == {i \in DOMAIN args : args[i] = Terminator /\ ~IsValue[i]}
              \cup {Len(args) + 1}
  IN  CHOOSE i \in ends : \A j \in ends : i <= j

\* The positions of S in order: the k-th is the one that has k of them up to it.
Pick(S) ==
  [k \in 1..Cardinality(S) |-> CHOOSE i \in S : Cardinality({j \in S : j <= i}) = k]

FlagPositions == {i \in 1..(EndOfFlags - 1) : ~IsValue[i] /\ IsOption(args[i])}

OperandPositions ==
  {i \in DOMAIN args : i > EndOfFlags \/ (i < EndOfFlags /\ ~IsValue[i] /\ ~IsOption(args[i]))}

Given(i) ==
  <<args[i].name, IF TakesNext(args[i]) THEN args[i + 1] ELSE Plain(args[i].value)>>

\* A flag at the very end that should have a value.
LacksValue == Len(args) \in FlagPositions /\ TakesNext(args[Len(args)])

\* Wherever the flags are put among the operands, an accepted command line means
\* what it says from left to right: each flag has the value that was written after
\* it, the operands keep their order, "-" is one of them, and so is everything
\* after a "--", even if it begins with a dash.
LineMeansWhatItSays ==
  pc = "run" /\ ~LacksValue =>
    /\ operands = [i \in DOMAIN Pick(OperandPositions) |-> args[Pick(OperandPositions)[i]]]
    /\ settings = [i \in DOMAIN Pick(FlagPositions) |-> Given(Pick(FlagPositions)[i])]

\* "flag-parsing errors still go to stderr with a non-zero code" (app.go:1736): a
\* flag without its value is such an error, wherever the operands are.
MissingValueIsRefused == pc = "run" => ~LacksValue
=============================================================================
