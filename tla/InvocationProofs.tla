-------------------------- MODULE InvocationProofs --------------------------
(***************************************************************************)
(* Proofs of the properties of Invocation, for any commands and flags, any *)
(* surroundings and any command lines of any length.                       *)
(*                                                                         *)
(* The invariant follows an invocation through its phases: until the       *)
(* arguments are parsed nothing has been loaded, read or made; from then   *)
(* on neither the settings nor the operands change, so that what was       *)
(* loaded and read stays what they say.  LineInv ties the words that are   *)
(* still to be read to the line as it was given.                           *)
(***************************************************************************)
EXTENDS Invocation, ArgumentsProofs

\* Before the settings are looked at, and after the context has been loaded.
Early == {"Run", "parseFlags", "reorder", "parse", "run"}
Late  == {"read", "convert", "decode", "service", "output"}

Input == [from : {"inline", "file", "stdin"}, holds : Content, read : Nat]

\* The words of the program are words like the others, but the provers do not
\* know that a literal is a string.
Words == Word \cup {HelpFlag, Terminator}

TypeInv ==
  /\ World(world)
  /\ line \in Seq(Words) /\ args \in Seq(Words) /\ todo \in Seq(Words)
  /\ flags \in Seq(Words) /\ positionals \in Seq(Words) /\ operands \in Seq(Words)
  /\ inputs \in Seq(Input)
  /\ pc \in Early \cup Late \cup {"done"}

\* What the phases say of the state.
PhaseInv ==
  /\ pc \in Early => context = None /\ inputs = <<>> /\ result = "none"
  /\ pc \in {"read", "convert", "decode", "service"} => result = "none"
  /\ pc # "done" => written = None
  /\ pc \in {"reorder", "parse", "run"} \cup Late => ~HelpRequested(args)
  /\ pc \in {"read", "decode", "service"} \cup {"convert"} => context # None
  /\ pc \in Late => ArgumentsFit
  /\ pc = "convert" => command = "convert" /\ Len(inputs) = 1
  /\ pc \in {"decode", "service"} => command \in {"validate", "diff"}
  /\ pc = "read" => command \in {"convert", "validate", "diff"} /\ Len(inputs) < Sides
  /\ pc = "output" => command \in {"convert", "sample"} /\ result # "none"

\* Input i is the one that the command line names.
SourceOK(i) ==
  LET operand == IF operands = <<>> THEN Blank ELSE operands[i] IN
  /\ inputs[i].read = inputs[i].holds.size /\ inputs[i].read <= MaxInputSize
  /\ inputs[i].from = "inline" <=> Inline # Blank
  /\ inputs[i].from = "inline" => operand = Blank
  /\ inputs[i].from = "file" => inputs[i].holds = world.holds[operand]
  /\ inputs[i].from = "stdin" =>
       operand = Stdin \/ (operand = Blank /\ ~world.typed /\ Sides = 1)

SourceInv ==
  /\ Len(inputs) <= Sides
  /\ inputs # <<>> => ArgumentsFit /\ context # None /\ ~HelpRequested(args)
  /\ \A i \in DOMAIN inputs : SourceOK(i)

\* What convert has made, and what is left at the end.
ResultInv ==
  /\ result # "none" /\ inputs # <<>> =>
       result = IF inputs[1].holds.form = "json" THEN "message" ELSE "document"
  /\ pc = "done" /\ command \in {"convert", "sample"} /\ exit = 0 /\ inputs # <<>> =>
       result # "none"

IInv ==
  TypeInv /\ PhaseInv /\ ContextIsOneChoice /\ SourceInv /\ ResultInv /\ ResultIsInOnePlace

-----------------------------------------------------------------------------
(* Sequences of words *)

LEMMA WordFacts ==
  /\ HelpFlag \in Words /\ Terminator \in Words
  /\ \A s \in Seq(Words) : s # <<>> => Head(s) \in Words /\ Tail(s) \in Seq(Words)
  /\ \A s \in Seq(Words), w \in Words : Append(s, w) \in Seq(Words)
  /\ \A s, t \in Seq(Words) : s \o t \in Seq(Words)
  /\ \A s \in Seq(Words) : \A w \in Words : s \o <<w>> \in Seq(Words)
  /\ \A s \in Seq(Words) : \A i \in 1..3 : From(s, i) \in Seq(Words)
<1>1. HelpFlag \in Words /\ Terminator \in Words
  BY DEF Words
<1> HIDE DEF Words
<1>2. \A s \in Seq(Words), w \in Words : Append(s, w) \in Seq(Words) /\ s \o <<w>> \in Seq(Words)
  OBVIOUS
<1>3. ASSUME NEW s \in Seq(Words), NEW i \in 1..3 PROVE From(s, i) \in Seq(Words)
  BY SubSeqProperties DEF From
<1> QED BY <1>1, <1>2, <1>3

\* Two operands, of which not both are "-".
LEMMA TwoOperands ==
  ASSUME operands \in Seq(Words), ArgumentsFit, command = "diff"
  PROVE  ~(operands[1] = Stdin /\ operands[2] = Stdin)
<1> HIDE DEF Words
<1>1. Len(operands) = 2 /\ operands # <<Stdin, Stdin>>
  BY DEF ArgumentsFit
<1>2. operands = <<operands[1], operands[2]>>
  BY <1>1
<1> QED BY <1>1, <1>2

LEMMA InitIInv == Init => IInv
<1> SUFFICES ASSUME Init PROVE IInv
  OBVIOUS
<1>1. /\ pc = "Run" /\ args = <<>> /\ todo = <<>> /\ flags = <<>> /\ positionals = <<>>
      /\ operands = <<>> /\ context = None /\ inputs = <<>> /\ result = "none"
      /\ written = None
  BY DEF Init
<1>2. line \in Seq(Words) /\ World(world)
  <2>1. line \in Seq(Word) /\ World(world)
    BY InvocationAssumption DEF Init
  <2>2. ASSUME NEW S, NEW T, S \subseteq T, NEW s \in Seq(S) PROVE s \in Seq(T)
    BY <2>2
  <2> QED BY <2>1, <2>2 DEF Words
<1>3. TypeInv
  <2> HIDE DEF Words, Input
  <2> QED BY <1>1, <1>2 DEF TypeInv, Early
<1>4. PhaseInv
  BY <1>1 DEF PhaseInv, Early, Late
<1>5. Len(inputs) <= Sides
  BY <1>1 DEF Sides
<1>6. SourceInv /\ ResultInv
  BY <1>1, <1>5 DEF SourceInv, ResultInv
<1>7. ContextIsOneChoice /\ ResultIsInOnePlace
  BY <1>1 DEF ContextIsOneChoice, ResultIsInOnePlace
<1> QED BY <1>3, <1>4, <1>6, <1>7 DEF IInv

-----------------------------------------------------------------------------
(* Until the arguments are parsed *)

\* Nothing has been loaded, read or made.
LEMMA EarlyKeeps ==
  ASSUME IInv, pc \in Early, pc' \in Early, TypeInv', UNCHANGED worldVars,
         pc' \in {"reorder", "parse", "run"} => ~HelpRequested(args')
  PROVE  IInv'
<1>1. /\ context' = None /\ inputs' = <<>> /\ result' = "none" /\ written' = None
      /\ pc' \in Early /\ pc' # "done" /\ pc' \notin Late
  BY DEF IInv, PhaseInv, worldVars, Early, Late
<1>2. HelpRequested(args)' <=> HelpRequested(args')
  OBVIOUS
<1>3. PhaseInv'
  <2>1. pc' \notin {"read", "convert", "decode", "service", "output"}
    BY <1>1 DEF Late
  <2> QED BY <1>1, <1>2, <2>1 DEF PhaseInv, Late
<1>4. SourceInv' /\ ResultInv'
  <2>1. Len(inputs') <= Sides'
    BY <1>1 DEF Sides
  <2> QED BY <1>1, <2>1 DEF SourceInv, ResultInv
<1>5. ContextIsOneChoice' /\ ResultIsInOnePlace'
  BY <1>1 DEF ContextIsOneChoice, ResultIsInOnePlace
<1> QED BY <1>3, <1>4, <1>5 DEF IInv

\* A word after the other is moved.
LEMMA ReorderTypes ==
  ASSUME IInv, ReadArguments, UNCHANGED <<world, line, worldVars, endVars>>
  PROVE  TypeInv'
<1>1. /\ World(world) /\ line \in Seq(Words) /\ args \in Seq(Words) /\ todo \in Seq(Words)
      /\ flags \in Seq(Words) /\ positionals \in Seq(Words) /\ operands \in Seq(Words)
      /\ inputs \in Seq(Input)
  BY DEF IInv, TypeInv
<1>2. world' = world /\ line' = line /\ inputs' = inputs
  BY DEF worldVars
<1> HIDE DEF Words, Input
<1>3. CASE StartReorder
  BY <1>1, <1>2, <1>3 DEF StartReorder, TypeInv, Early
<1>4. CASE ReorderFlag
  <2>1. Moved(Head(todo)) \in 1..2 /\ Moved(Head(todo)) <= Len(todo)
    <3>1. Len(todo) \in Nat /\ Len(todo) # 0
      BY <1>1, <1>4 DEF ReorderFlag
    <3>2. \A n \in Nat : n # 0 => 1 <= n /\ (n > 1 => 2 <= n)
      OBVIOUS
    <3> QED BY <3>1, <3>2 DEF Moved
  <2>2. \A k \in 1..2 : k + 1 \in 1..3 /\ k \in Int /\ 1 \in Int
    OBVIOUS
  <2>3. SubSeq(todo, 1, Moved(Head(todo))) \in Seq(Words)
    <3> DEFINE k == Moved(Head(todo))
    <3>1. k \in 1..2 /\ k <= Len(todo)
      BY <2>1
    <3> HIDE DEF k
    <3>2. SubSeq(todo, 1, k) \in Seq(Words)
      BY <1>1, <3>1, SubSeqProperties
    <3> QED BY <3>2 DEF k
  <2>4. flags' = flags \o SubSeq(todo, 1, Moved(Head(todo)))
        /\ todo' = From(todo, Moved(Head(todo)) + 1)
        /\ UNCHANGED <<pc, command, args, positionals, settings, operands>>
        /\ pc = "reorder"
    BY <1>4 DEF ReorderFlag
  <2>5. flags' \in Seq(Words) /\ todo' \in Seq(Words)
    BY <1>1, <2>1, <2>2, <2>3, <2>4, WordFacts
  <2> QED BY <1>1, <1>2, <2>4, <2>5 DEF TypeInv, Early
<1>5. CASE ReorderPositional
  <2>1. positionals' \in Seq(Words) /\ todo' \in Seq(Words)
    BY <1>1, <1>5, WordFacts DEF ReorderPositional
  <2> QED BY <1>1, <1>2, <1>5, <2>1 DEF ReorderPositional, TypeInv, Early
<1>6. CASE ReorderTerminator
  <2>1. positionals' \in Seq(Words) /\ todo' \in Seq(Words)
    BY <1>1, <1>6, WordFacts DEF ReorderTerminator
  <2> QED BY <1>1, <1>2, <1>6, <2>1 DEF ReorderTerminator, TypeInv, Early
<1>7. CASE Reordered
  <2>1. todo' \in Seq(Words)
    BY <1>1, <1>7, WordFacts DEF Reordered
  <2> QED BY <1>1, <1>2, <1>7, <2>1 DEF Reordered, TypeInv, Early
<1>8. CASE ParseValueFlag
  <2>1. todo' \in Seq(Words)
    <3>1. todo' = From(todo, 3) \/ todo' = From(todo, 2)
      BY <1>8 DEF ParseValueFlag
    <3>2. 2 \in 1..3 /\ 3 \in 1..3
      OBVIOUS
    <3> QED BY <1>1, <3>1, <3>2, WordFacts
  <2> QED BY <1>1, <1>2, <1>8, <2>1 DEF ParseValueFlag, Parsing, TypeInv, Early
<1>9. CASE ParseBoolFlag
  <2>1. todo' \in Seq(Words)
    BY <1>1, <1>9, WordFacts DEF ParseBoolFlag, Parsing
  <2> QED BY <1>1, <1>2, <1>9, <2>1 DEF ParseBoolFlag, Parsing, TypeInv, Early
<1>10. CASE ParseEnds
  <2>1. operands' \in Seq(Words) /\ todo' \in Seq(Words)
    BY <1>1, <1>10, WordFacts DEF ParseEnds
  <2> QED BY <1>1, <1>2, <1>10, <2>1 DEF ParseEnds, TypeInv, Early
<1> QED BY <1>3, <1>4, <1>5, <1>6, <1>7, <1>8, <1>9, <1>10 DEF ReadArguments

LEMMA ReadArgumentsKeeps ==
  ASSUME IInv, ReadArguments, UNCHANGED <<world, line, worldVars, endVars>>
  PROVE  IInv'
<1>1. /\ pc \in Early /\ pc' \in {"reorder", "parse", "run"} /\ args' = args
      /\ pc = "parseFlags" => ~HelpRequested(args)
      /\ pc # "Run"
  BY DEF ReadArguments, StartReorder, ReorderFlag, ReorderPositional, ReorderTerminator,
         Reordered, ParseValueFlag, ParseBoolFlag, ParseEnds, Parsing, Early
<1>2. ~HelpRequested(args')
  BY <1>1 DEF IInv, PhaseInv, Early
<1>3. TypeInv'
  BY ReorderTypes
<1> QED BY <1>1, <1>2, <1>3, EarlyKeeps DEF Early

\* "help NAME" becomes "NAME --help", and a command takes its arguments.
LEMMA DispatchKeeps ==
  ASSUME IInv, RunHelp \/ RunCommand PROVE IInv'
<1>1. /\ World(world) /\ line \in Seq(Words) /\ args \in Seq(Words) /\ todo \in Seq(Words)
      /\ flags \in Seq(Words) /\ positionals \in Seq(Words) /\ operands \in Seq(Words)
      /\ inputs \in Seq(Input)
  BY DEF IInv, TypeInv
<1>2. line # <<>> /\ UNCHANGED worldVars /\ pc \in Early /\ pc' \in {"Run", "parseFlags"}
  <2>1. CASE RunHelp
    <3>1. Len(line) > 1
      BY <2>1 DEF RunHelp, AsksForCommand
    <3>2. line # <<>>
      BY <3>1
    <3> QED BY <2>1, <3>2 DEF RunHelp, Early
  <2>2. CASE RunCommand
    BY <2>2 DEF RunCommand, Early
  <2> QED BY <2>1, <2>2
<1> HIDE DEF Words, Input
<1>3. TypeInv'
  <2>1. CASE RunHelp
    <3>1. line' \in Seq(Words)
      BY <1>1, <1>2, <2>1, WordFacts DEF RunHelp
    <3> QED BY <1>1, <1>2, <2>1, <3>1 DEF RunHelp, worldVars, argumentVars, TypeInv, Early
  <2>2. CASE RunCommand
    <3>1. args' \in Seq(Words)
      BY <1>1, <1>2, <2>2, WordFacts DEF RunCommand
    <3> QED BY <1>1, <1>2, <2>2, <3>1 DEF RunCommand, worldVars, TypeInv, Early
  <2> QED BY <2>1, <2>2
<1> QED BY <1>2, <1>3, EarlyKeeps DEF Early


-----------------------------------------------------------------------------
(* Once they are *)

\* Neither the command line nor what it says changes any more.
LEMMA SameLine ==
  ASSUME UNCHANGED <<argumentVars, world, line>>
  PROVE  /\ \A f : Setting(f)' = Setting(f)
         /\ Inline' = Inline /\ Sides' = Sides
         /\ ArgumentsFit' <=> ArgumentsFit
         /\ HelpRequested(args)' <=> HelpRequested(args)
<1>1. command' = command /\ args' = args /\ settings' = settings /\ operands' = operands
  BY DEF argumentVars
<1>2. \A f : Setting(f)' = Setting(f)
  BY <1>1 DEF Setting, SettingOr
<1>3. Inline' = Inline
  BY <1>1 DEF Inline, Setting, SettingOr
<1>4. Sides' = Sides
  BY <1>1 DEF Sides
<1>5. ArgumentsFit' <=> ArgumentsFit
  BY <1>1 DEF ArgumentsFit, Allowed
<1>6. HelpRequested(args)' <=> HelpRequested(args)
  BY <1>1
<1> QED BY <1>2, <1>3, <1>4, <1>5, <1>6

LEMMA SameContext ==
  ASSUME ContextIsOneChoice, UNCHANGED <<argumentVars, world, line, context>>
  PROVE  ContextIsOneChoice'
<1>1. Setting("spec")' = Setting("spec") /\ Setting("config")' = Setting("config")
  BY SameLine
<1> QED BY <1>1 DEF ContextIsOneChoice

LEMMA SameTypes ==
  ASSUME TypeInv, UNCHANGED <<argumentVars, world, line>>, inputs' \in Seq(Input),
         pc' \in Early \cup Late \cup {"done"}
  PROVE  TypeInv'
<1> HIDE DEF Words, Input
<1> QED BY DEF TypeInv, argumentVars

LEMMA SameSources ==
  ASSUME SourceInv, UNCHANGED <<argumentVars, world, line, context, inputs>>
  PROVE  SourceInv'
<1>1. Inline' = Inline /\ Sides' = Sides /\ (ArgumentsFit' <=> ArgumentsFit)
      /\ (HelpRequested(args)' <=> HelpRequested(args)) /\ operands' = operands
  BY SameLine DEF argumentVars
<1>2. ASSUME NEW i \in DOMAIN inputs PROVE SourceOK(i)'
  <2>1. SourceOK(i)
    BY <1>2 DEF SourceInv
  <2> QED BY <1>1, <2>1 DEF SourceOK
<1> QED BY <1>1, <1>2 DEF SourceInv

\* What standard output can do to a run that ends.
LEMMA LeaveEnds ==
  ASSUME NEW code \in {0, 1}, NEW out, NEW complaint, Leave(code, out, complaint)
  PROVE  /\ exit' = code \/ exit' = Killed
         /\ out = {} => exit' = code /\ stdout' = {} /\ stderr' = complaint
         /\ stdout' = out \/ world.output = (IF exit' = code THEN "full" ELSE "closed")
         /\ exit' = Killed => world.output = "closed"
         /\ exit' = 0 => code = 0
<1>1. code # Killed /\ Killed # 0
  BY DEF Killed
<1> HIDE DEF Killed
<1>2. CASE (out = {} \/ world.output = "open") /\ exit' = code /\ stdout' = out
           /\ stderr' = complaint
  BY <1>1, <1>2
<1>3. CASE out # {} /\ world.output = "full" /\ exit' = code
  BY <1>1, <1>3
<1>4. CASE out # {} /\ world.output = "closed" /\ exit' = Killed
  BY <1>1, <1>4
<1> QED BY <1>2, <1>3, <1>4 DEF Leave

\* A run that ends keeps what it has read and made.
LEMMA LeaveKeeps ==
  ASSUME IInv, NEW code \in {0, 1}, NEW out, NEW complaint, Leave(code, out, complaint),
         UNCHANGED <<context, inputs, result>>, ResultIsInOnePlace',
         command \in {"convert", "sample"} /\ code = 0 /\ inputs # <<>> => result # "none"
  PROVE  IInv'
<1>1. /\ UNCHANGED <<argumentVars, world, line, context, inputs>> /\ pc' = "done"
      /\ (exit' = 0 => code = 0) /\ result' = result /\ command' = command
  BY LeaveEnds DEF Leave, argumentVars
<1>2. TypeInv'
  BY <1>1, SameTypes DEF IInv, TypeInv
<1>3. PhaseInv'
  BY <1>1 DEF PhaseInv, Early, Late
<1>4. ContextIsOneChoice' /\ SourceInv'
  BY <1>1, SameContext, SameSources DEF IInv
<1>5. ResultInv'
  BY <1>1 DEF IInv, ResultInv
<1> QED BY <1>2, <1>3, <1>4, <1>5 DEF IInv

LEMMA RefuseKeeps ==
  ASSUME IInv, Refuse, pc # "done" PROVE IInv'
<1>1. /\ Leave(1, {}, TRUE) /\ UNCHANGED <<context, inputs, result>>
      /\ written' = None
  BY DEF Refuse, worldVars, IInv, PhaseInv
<1>2. ResultIsInOnePlace'
  <2>1. exit' = 1 /\ stdout' = {} /\ stderr' = TRUE
    BY <1>1, LeaveEnds
  <2>2. 1 # 0 /\ 1 # Killed
    BY DEF Killed
  <2> QED BY <1>1, <2>1, <2>2 DEF ResultIsInOnePlace
<1>3. 1 # 0 /\ 1 \in {0, 1}
  OBVIOUS
<1> QED BY <1>1, <1>2, <1>3, LeaveKeeps, Zenon

\* Help, the version and lists.
LEMMA EarlyEndKeeps ==
  ASSUME IInv, pc \in Early, NEW out, NEW complaint, Leave(0, out, complaint),
         UNCHANGED worldVars
  PROVE  IInv'
<1>1. /\ UNCHANGED <<context, inputs, result>> /\ result' = "none"
      /\ inputs' = <<>> /\ inputs = <<>> /\ world' = world
  BY DEF Leave, worldVars, IInv, PhaseInv
<1>2. ResultIsInOnePlace'
  <2>1. exit' # 1 /\ (exit' = Killed => world.output = "closed")
    BY LeaveEnds DEF Killed
  <2> QED BY <1>1, <2>1 DEF ResultIsInOnePlace
<1> QED BY <1>1, <1>2, LeaveKeeps

\* Where the specification, its directory and the catalog come from.
LEMMA ChoiceIsOne ==
  ASSUME NEW c, c = [spec |-> Resolved(Choice).spec, dir |-> Resolved(Choice).dir,
                     catalog |-> Catalog]
  PROVE  LET flag == Setting("spec")
             file == c.spec \notin Presets
             config == Setting("config") # Blank IN
         /\ flag # Blank => c.spec = flag
         /\ file /\ c.spec \notin Absolute =>
              c.dir = IF flag # Blank \/ ~config THEN WorkDir
                      ELSE world.configs[Setting("config")].dir
         /\ config /\ world.configs[Setting("config")].extensions # "omitted" =>
              c.catalog = world.configs[Setting("config")].extensions
         /\ file /\ c.catalog = "built-in" => config
<1> DEFINE flag == Setting("spec")
           config == Setting("config")
           starter == Plain("basei-starter")
           given == IF flag # Blank THEN flag
                    ELSE IF LoadedConfig.spec = Blank THEN starter ELSE LoadedConfig.spec
           dir == IF flag # Blank THEN WorkDir ELSE LoadedConfig.dir
<1>1. starter \in Presets
  BY DEF Presets
<1>2. Choice = [spec |-> given, dir |-> dir]
  BY DEF Choice
<1>3. config = Blank => LoadedConfig.dir = WorkDir /\ LoadedConfig.spec = Blank
  BY DEF LoadedConfig, DefaultConfig
<1>4. config # Blank => LoadedConfig = world.configs[config]
  BY DEF LoadedConfig
<1> HIDE DEF starter, flag, config
<1>5. /\ Resolved(Choice).spec = given
      /\ given \notin Presets /\ given \notin Absolute => Resolved(Choice).dir = dir
  BY <1>2 DEF Resolved
<1>6. /\ config # Blank /\ LoadedConfig.extensions # "omitted" =>
           Catalog = LoadedConfig.extensions
      /\ flag \notin Presets \cup {Blank} /\ config = Blank => Catalog = "empty"
  BY DEF Catalog, flag, config
<1>7. c.spec = given /\ c.dir = Resolved(Choice).dir /\ c.catalog = Catalog
  BY <1>5
<1> HIDE DEF dir
<1>8. flag # Blank => c.spec = flag
  BY <1>7
<1>9. c.spec \notin Presets /\ c.spec \notin Absolute =>
        c.dir = IF flag # Blank \/ ~(config # Blank) THEN WorkDir ELSE world.configs[config].dir
  BY <1>3, <1>4, <1>5, <1>7 DEF dir
<1>10. c.spec \notin Presets /\ c.catalog = "built-in" => config # Blank
  BY <1>1, <1>3, <1>6, <1>7
<1> QED BY <1>4, <1>6, <1>7, <1>8, <1>9, <1>10 DEF flag, config

LEMMA LoadContextKeeps ==
  ASSUME IInv, LoadContext PROVE IInv'
<1>1. /\ UNCHANGED <<argumentVars, world, line, inputs, result, written>>
      /\ pc = "run" /\ pc' = "read" /\ ArgumentsFit /\ command' = command
      /\ command \in {"convert", "validate", "diff"}
      /\ context' = [spec |-> Resolved(Choice).spec, dir |-> Resolved(Choice).dir,
                     catalog |-> Catalog]
  BY DEF LoadContext, TakesMessage, argumentVars
<1>2. inputs' = <<>> /\ inputs = <<>> /\ result' = "none" /\ written' = None /\ ~HelpRequested(args)
  BY <1>1 DEF IInv, PhaseInv, Early
<1>3. TypeInv'
  BY <1>1, SameTypes DEF IInv, TypeInv, Late
<1>4. context' # None
  <2>1. DOMAIN context' = {"spec", "dir", "catalog"} /\ DOMAIN None = {}
    BY <1>1 DEF None
  <2> QED BY <2>1
<1>5. PhaseInv'
  <2>1. (ArgumentsFit' <=> ArgumentsFit) /\ Sides' = Sides
        /\ (HelpRequested(args)' <=> HelpRequested(args))
    BY <1>1, SameLine
  <2>2. Len(inputs') < Sides'
    BY <1>2, <2>1 DEF Sides
  <2> QED BY <1>1, <1>2, <1>4, <2>1, <2>2 DEF PhaseInv, Early, Late
<1>6. ContextIsOneChoice'
  <2>1. Setting("spec")' = Setting("spec") /\ Setting("config")' = Setting("config")
        /\ world' = world
    BY <1>1, SameLine
  <2> QED BY <1>1, <2>1, ChoiceIsOne DEF ContextIsOneChoice
<1>7. SourceInv' /\ ResultInv' /\ ResultIsInOnePlace'
  <2>1. Len(inputs') <= Sides'
    BY <1>2 DEF Sides
  <2> QED BY <1>1, <1>2, <2>1 DEF SourceInv, ResultInv, ResultIsInOnePlace
<1> QED BY <1>3, <1>5, <1>6, <1>7 DEF IInv


\* A message is read from where the command line has it.
LEMMA ReadSourceKeeps ==
  ASSUME IInv, ReadSource PROVE IInv'
<1> DEFINE new == [from |-> Opened.from, holds |-> Opened.holds, read |-> AmountRead]
           operand == IF operands = <<>> THEN Blank ELSE operands[Len(inputs) + 1]
<1>1. /\ UNCHANGED <<argumentVars, world, line, context, result, written>>
      /\ pc = "read" /\ pc' = (IF command = "convert" THEN "convert" ELSE "decode")
      /\ inputs' = Append(inputs, new) /\ SourceOpens /\ AmountRead <= MaxInputSize
      /\ command' = command
  BY DEF ReadSource, argumentVars
<1>2. /\ context # None /\ result = "none" /\ written = None /\ ~HelpRequested(args)
      /\ ArgumentsFit /\ Len(inputs) < Sides /\ command \in {"convert", "validate", "diff"}
      /\ inputs \in Seq(Input) /\ World(world) /\ Len(inputs) \in Nat
  <2>1. inputs \in Seq(Input) /\ World(world)
    BY DEF IInv, TypeInv
  <2> HIDE DEF Input
  <2>2. Len(inputs) \in Nat
    BY <2>1
  <2> QED BY <1>1, <2>1, <2>2 DEF IInv, PhaseInv, Late
<1>3. operand = Target
  BY DEF Target
<1>4. /\ new.from = Opened.from /\ new.holds = Opened.holds /\ new.read = AmountRead
  OBVIOUS
<1>5. /\ Opened.from \in {"inline", "file", "stdin"}
      /\ Opened.from = "inline" <=> Inline # Blank
      /\ Opened.from = "inline" => operand = Blank
      /\ Opened.from = "file" => Opened.holds = world.holds[operand]
                                 /\ operand \in DOMAIN world.holds
      /\ Opened.from = "stdin" =>
           Opened.holds = world.stdin
           /\ (operand = Stdin \/ (operand = Blank /\ ~world.typed /\ command # "diff"))
      /\ Opened.from = "inline" =>
           Opened.holds = (IF Inline \in DOMAIN world.holds THEN world.holds[Inline]
                           ELSE Garbage)
  <2>1. CASE Inline # Blank
    BY <1>1, <1>3, <2>1 DEF Opened, SourceOpens
  <2>2. CASE Inline = Blank /\ Target \in {Stdin, Blank}
    BY <1>1, <1>3, <2>2 DEF Opened, SourceOpens, StdinGiven
  <2>3. CASE Inline = Blank /\ Target \notin {Stdin, Blank}
    BY <1>1, <1>3, <2>3 DEF Opened, SourceOpens
  <2> QED BY <2>1, <2>2, <2>3
<1>6. Opened.holds \in Content
  <2>1. Garbage \in Content
    BY DEF Garbage, Content, Readings
  <2>2. world.stdin \in Content /\ \A f \in DOMAIN world.holds : world.holds[f] \in Content
    BY <1>2 DEF World
  <2> QED BY <1>5, <2>1, <2>2
<1>7. AmountRead = Opened.holds.size /\ AmountRead \in Nat
  <2>1. Opened.holds.size \in Nat
    BY <1>6 DEF Content
  <2>2. MaxInputSize \in Nat
    BY InvocationAssumption
  <2>3. \A m, n \in Nat : n > m => ~(m + 1 <= m)
    OBVIOUS
  <2> QED BY <1>1, <2>1, <2>2, <2>3 DEF AmountRead, ReadLimited
<1>8. new \in Input
  BY <1>5, <1>6, <1>7 DEF Input
<1> HIDE DEF new
<1>9. /\ inputs' \in Seq(Input) /\ Len(inputs') = Len(inputs) + 1
      /\ DOMAIN inputs' = 1..(Len(inputs) + 1) /\ DOMAIN inputs = 1..Len(inputs)
      /\ \A i \in 1..Len(inputs) : inputs'[i] = inputs[i]
      /\ inputs'[Len(inputs) + 1] = new
  <2> HIDE DEF Input
  <2> QED BY <1>1, <1>2, <1>8
<1>10. TypeInv'
  BY <1>1, <1>9, SameTypes DEF IInv, TypeInv, Late
<1>11. /\ Inline' = Inline /\ Sides' = Sides /\ (ArgumentsFit' <=> ArgumentsFit)
       /\ (HelpRequested(args)' <=> HelpRequested(args)) /\ operands' = operands
       /\ world' = world
  BY <1>1, SameLine DEF argumentVars
<1>12. Sides \in 1..2 /\ (command # "diff" => Sides = 1)
  BY DEF Sides
<1>13. Len(inputs') <= Sides' /\ (command = "convert" => Len(inputs') = 1)
  <2>1. \A n \in Nat, k \in 1..2 : n < k => n + 1 <= k /\ (k = 1 => n + 1 = 1)
    OBVIOUS
  <2> QED BY <1>2, <1>9, <1>11, <1>12, <2>1
<1>14. PhaseInv'
  BY <1>1, <1>2, <1>11, <1>13 DEF PhaseInv, Early, Late
<1>15. SourceInv'
  <2>1. ASSUME NEW i \in 1..Len(inputs) PROVE SourceOK(i)'
    <3>1. SourceOK(i)
      BY <1>9, <2>1 DEF IInv, SourceInv
    <3>2. inputs'[i] = inputs[i]
      BY <1>9
    <3> QED BY <1>11, <3>1, <3>2 DEF SourceOK
  <2>2. ASSUME NEW i, i = Len(inputs) + 1 PROVE SourceOK(i)'
    <3>1. inputs'[i] = new
      BY <1>9, <2>2
    <3>2. operand = IF operands = <<>> THEN Blank ELSE operands[i]
      BY <2>2
    <3> HIDE DEF operand
    <3> QED BY <1>1, <1>4, <1>5, <1>7, <1>11, <1>12, <3>1, <3>2 DEF SourceOK
  <2>3. \A i \in 1..(Len(inputs) + 1) : i \in 1..Len(inputs) \/ i = Len(inputs) + 1
    <3>1. \A n \in Nat : \A i \in 1..(n + 1) : i \in 1..n \/ i = n + 1
      OBVIOUS
    <3> QED BY <1>2, <3>1
  <2>4. \A i \in DOMAIN inputs' : SourceOK(i)'
    BY <1>9, <2>1, <2>2, <2>3
  <2> QED BY <1>1, <1>2, <1>11, <1>13, <2>4 DEF SourceInv
<1>16. ContextIsOneChoice' /\ ResultInv' /\ ResultIsInOnePlace'
  BY <1>1, <1>2, SameContext DEF IInv, ResultInv, ResultIsInOnePlace
<1> QED BY <1>10, <1>14, <1>15, <1>16 DEF IInv

\* The steps between reading and leaving.
LEMMA LateKeeps ==
  ASSUME IInv, Convert \/ Decode \/ RenderSample PROVE IInv'
<1>1. /\ UNCHANGED <<argumentVars, world, line, context, inputs, written>>
      /\ command' = command /\ written' = written /\ pc # "done" /\ pc' \in Late
  BY DEF Convert, Decode, RenderSample, argumentVars, worldVars, Late
<1>2. TypeInv'
  BY <1>1, SameTypes DEF IInv, TypeInv
<1>3. ContextIsOneChoice' /\ SourceInv'
  BY <1>1, SameContext, SameSources DEF IInv
<1>4. /\ Sides' = Sides /\ (ArgumentsFit' <=> ArgumentsFit)
      /\ (HelpRequested(args)' <=> HelpRequested(args)) /\ inputs' = inputs
  BY <1>1, SameLine
<1>5. PhaseInv' /\ ResultInv'
  <2>1. CASE Convert
    <3>1. /\ command = "convert" /\ pc = "convert" /\ pc' = "output"
          /\ result' = Direction(inputs[1].holds) /\ Converts(inputs[1].holds)
          /\ ~HelpRequested(args) /\ ArgumentsFit /\ written = None
      BY <2>1 DEF Convert, IInv, PhaseInv, Late
    <3>2. result' = IF inputs[1].holds.form = "json" THEN "message" ELSE "document"
      BY <3>1 DEF Direction, Converts
    <3>3. result' # "none"
      BY <3>2
    <3> QED BY <1>1, <1>4, <3>1, <3>2, <3>3 DEF PhaseInv, ResultInv, Early, Late
  <2>2. CASE Decode
    <3>1. /\ pc = "decode" /\ pc' = (IF Len(inputs) < Sides THEN "read" ELSE "service")
          /\ result' = result /\ context' = context
      BY <2>2 DEF Decode, worldVars
    <3>2. /\ command \in {"validate", "diff"} /\ result = "none" /\ context # None
          /\ ~HelpRequested(args) /\ ArgumentsFit /\ written = None
      BY <3>1 DEF IInv, PhaseInv, Late
    <3> QED BY <1>1, <1>4, <3>1, <3>2 DEF PhaseInv, ResultInv, Early, Late
  <2>3. CASE RenderSample
    <3>1. /\ pc = "run" /\ pc' = "output" /\ command = "sample" /\ ArgumentsFit
          /\ result' \in {"message", "document"}
      BY <2>3 DEF RenderSample
    <3>2. inputs = <<>> /\ written = None /\ ~HelpRequested(args)
      BY <3>1 DEF IInv, PhaseInv, Early
    <3> QED BY <1>1, <1>4, <3>1, <3>2 DEF PhaseInv, ResultInv, Early, Late
  <2> QED BY <2>1, <2>2, <2>3
<1>6. ResultIsInOnePlace'
  BY <1>1 DEF ResultIsInOnePlace, Late
<1> QED BY <1>2, <1>3, <1>5, <1>6 DEF IInv

\* The reports of validate and diff, and of specs.
LEMMA ReportKeeps ==
  ASSUME IInv, Service \/ RunSpecs PROVE IInv'
<1>1. command \notin {"convert", "sample"} /\ UNCHANGED worldVars
  BY DEF Service, RunSpecs, IInv, PhaseInv
<1>2. PICK code \in {0, 1} : \E out, complaint : Leave(code, out, complaint)
  <2>1. (\E out, complaint : Leave(0, out, complaint))
        \/ \E out, complaint : Leave(1, out, complaint)
    BY Zenon DEF Service, RunSpecs
  <2> QED BY <2>1
<1>3. PICK out, complaint : Leave(code, out, complaint)
  BY <1>2
<1>4. UNCHANGED <<context, inputs, result>> /\ command' = command
  BY <1>1, <1>3 DEF Leave, worldVars, argumentVars
<1>5. ResultIsInOnePlace'
  BY <1>1, <1>4 DEF ResultIsInOnePlace
<1>6. ~(command \in {"convert", "sample"})
  BY <1>1
<1> QED BY <1>2, <1>3, <1>4, <1>5, <1>6, LeaveKeeps

\* The result goes to standard output or to the file.
LEMMA ResultKeeps ==
  ASSUME IInv, PrintResult \/ WriteResult \/ WriteFails PROVE IInv'
<1>1. /\ pc = "output" /\ result # "none" /\ written = None
      /\ UNCHANGED <<argumentVars, world, line, context, inputs, result>>
      /\ world' = world /\ inputs' = inputs /\ result' = result
  BY DEF PrintResult, WriteResult, WriteFails, Leave, worldVars, IInv, PhaseInv
<1>2. inputs # <<>> => result = IF inputs[1].holds.form = "json" THEN "message" ELSE "document"
  BY <1>1 DEF IInv, ResultInv
<1>3. Setting("output")' = Setting("output")
  BY <1>1, SameLine
<1>4. CASE PrintResult
  <2>1. /\ Leave(0, {result}, command = "convert" /\ world.watched)
        /\ Setting("output") = Blank /\ written' = None
    BY <1>1, <1>4 DEF PrintResult, worldVars
  <2>2. /\ stdout' = {result} \/ world.output = (IF exit' = 0 THEN "full" ELSE "closed")
        /\ exit' = Killed => world.output = "closed"
    BY <2>1, LeaveEnds
  <2>3. exit' # 1
    BY <2>1, LeaveEnds DEF Killed
  <2>4. ResultIsInOnePlace'
    BY <1>1, <1>2, <1>3, <2>1, <2>2, <2>3 DEF ResultIsInOnePlace
  <2> QED BY <1>1, <2>1, <2>4, LeaveKeeps
<1>5. CASE WriteResult
  <2>1. /\ Leave(0, {"report"}, FALSE) /\ Setting("output") # Blank
        /\ written' = [path |-> Setting("output"), what |-> result]
    BY <1>5 DEF WriteResult
  <2>2. ResultIsInOnePlace'
    <3>1. (exit' = 0 \/ exit' = Killed) /\ (exit' = Killed => world.output = "closed")
      BY <2>1, LeaveEnds
    <3>2. exit' # 1
      BY <3>1 DEF Killed
    <3> QED BY <1>1, <1>2, <1>3, <2>1, <3>1, <3>2 DEF ResultIsInOnePlace
  <2> QED BY <1>1, <2>1, <2>2, LeaveKeeps
<1>6. CASE WriteFails
  <2>1. /\ Leave(1, {}, TRUE) /\ world.disk # "writable"
        /\ written' = IF world.disk = "denied" THEN None
                      ELSE [path |-> Setting("output"), what |-> "a-part"]
    BY <1>6 DEF WriteFails
  <2>2. world.disk \in {"writable", "denied", "full"}
    BY DEF IInv, TypeInv, World
  <2>3. written' # None => world'.disk = "full" /\ written'.what = "a-part"
    BY <1>1, <2>1, <2>2
  <2>4. ResultIsInOnePlace'
    <3>1. exit' = 1 /\ stdout' = {} /\ stderr' = TRUE
      BY <2>1, LeaveEnds
    <3>2. 1 # 0 /\ 1 # Killed
      BY DEF Killed
    <3> QED BY <1>1, <2>1, <2>3, <3>1, <3>2 DEF ResultIsInOnePlace
  <2>5. 1 # 0 /\ 1 \in {0, 1}
    OBVIOUS
  <2> QED BY <1>1, <2>1, <2>4, <2>5, LeaveKeeps, Zenon
<1> QED BY <1>4, <1>5, <1>6


-----------------------------------------------------------------------------
(* The theorems *)

LEMMA StepIInv == IInv /\ [Next]_vars => IInv'
<1> SUFFICES ASSUME IInv, [Next]_vars PROVE IInv'
  OBVIOUS
<1>1. CASE RunRoot \/ RunVersion
  <2>1. pc \in Early /\ UNCHANGED worldVars
    BY <1>1 DEF RunRoot, RunVersion, Early
  <2>2. PICK out : Leave(0, out, FALSE)
    BY <1>1 DEF RunRoot, RunVersion
  <2> QED BY <2>1, <2>2, EarlyEndKeeps
<1>2. CASE RunRefuses \/ ArgumentsRefused \/ SettingsRefused \/ LoadContextFails
           \/ ReadSourceFails \/ ConvertFails \/ DecodeFails \/ SampleFails
  <2>1. Refuse /\ pc # "done"
    BY <1>2 DEF RunRefuses, ArgumentsRefused, SettingsRefused, LoadContextFails,
                ReadSourceFails, ConvertFails, DecodeFails, SampleFails, TakesMessage
  <2> QED BY <2>1, RefuseKeeps
<1>3. CASE RunHelp \/ RunCommand
  BY <1>3, DispatchKeeps
<1>4. CASE PrintUsage \/ ListSamples
  <2>1. pc \in Early /\ UNCHANGED worldVars
    BY <1>4 DEF PrintUsage, ListSamples, Early
  <2>2. PICK out : Leave(0, out, FALSE)
    BY <1>4 DEF PrintUsage, ListSamples
  <2> QED BY <2>1, <2>2, EarlyEndKeeps
<1>5. CASE ParseStep
  BY <1>5, ReadArgumentsKeeps DEF ParseStep
<1>6. CASE ParseHelp
  <2>1. pc \in Early /\ UNCHANGED worldVars /\ Leave(0, {}, TRUE)
    BY <1>6 DEF ParseHelp, ParserHelp, Parsing, Early
  <2> QED BY <2>1, EarlyEndKeeps
<1>7. CASE ParseFails
  <2>1. Refuse /\ pc # "done"
    BY <1>7 DEF ParseFails, ParserRefuses, Parsing
  <2> QED BY <2>1, RefuseKeeps
<1>8. CASE LoadContext
  BY <1>8, LoadContextKeeps
<1>9. CASE ReadSource
  BY <1>9, ReadSourceKeeps
<1>10. CASE Convert \/ Decode \/ RenderSample
  BY <1>10, LateKeeps
<1>11. CASE Service \/ RunSpecs
  BY <1>11, ReportKeeps
<1>12. CASE PrintResult \/ WriteResult \/ WriteFails
  BY <1>12, ResultKeeps
<1>13. CASE Done \/ UNCHANGED vars
  <2>1. /\ UNCHANGED <<argumentVars, world, line, context, inputs>>
        /\ UNCHANGED <<pc, worldVars, endVars>>
    BY <1>13 DEF Done, vars, worldVars
  <2>2. ContextIsOneChoice' /\ SourceInv'
    BY <2>1, SameContext, SameSources DEF IInv
  <2>3. TypeInv'
    BY <2>1, SameTypes DEF IInv, TypeInv, worldVars
  <2>4. /\ Sides' = Sides /\ (ArgumentsFit' <=> ArgumentsFit)
        /\ (HelpRequested(args)' <=> HelpRequested(args))
        /\ Setting("output")' = Setting("output")
        /\ command' = command /\ pc' = pc /\ world' = world
        /\ context' = context /\ inputs' = inputs /\ result' = result /\ written' = written
        /\ stdout' = stdout /\ (stderr' <=> stderr) /\ exit' = exit
    BY <2>1, SameLine DEF argumentVars, worldVars, endVars
  <2>5. PhaseInv'
    BY <2>4 DEF IInv, PhaseInv, Early, Late
  <2>6. ResultInv' /\ ResultIsInOnePlace'
    BY <2>4 DEF IInv, ResultInv, ResultIsInOnePlace
  <2> QED BY <2>2, <2>3, <2>5, <2>6 DEF IInv
<1> QED BY <1>1, <1>2, <1>3, <1>4, <1>5, <1>6, <1>7, <1>8, <1>9, <1>10, <1>11, <1>12, <1>13
        DEF Next

\* The inductive invariant holds in every reachable state, for all commands,
\* flags, command lines and surroundings.
THEOREM Invariance == Spec => []IInv
<1> USE InitIInv, StepIInv
<1> QED BY PTL DEF Spec

\* --spec, --config and the config's own spec and catalog never mix
\* (resolveContext and loadMessageContext in cmd/app.go).
THEOREM ContextIsOneChoiceHolds == Spec => []ContextIsOneChoice
<1>1. IInv => ContextIsOneChoice
  BY DEF IInv
<1> QED BY <1>1, Invariance, PTL

\* Every message comes whole from the one source that the command line names, and
\* none is read before the arguments fit and the context is loaded
\* (messageio.ReadSource).
THEOREM ReadsOneSourceHolds == Spec => []ReadsOneSource
<1>1. ASSUME IInv PROVE ReadsOneSource
  <2>1. SourceInv /\ operands \in Seq(Words) /\ inputs \in Seq(Input)
    BY <1>1 DEF IInv, TypeInv
  <2>2. DOMAIN inputs = 1..Len(inputs) /\ Len(inputs) \in Nat
    <3> HIDE DEF Input
    <3> QED BY <2>1
  <2>3. ASSUME NEW i \in DOMAIN inputs, NEW j \in DOMAIN inputs, i # j,
               inputs[i].from = "stdin", inputs[j].from = "stdin"
        PROVE  FALSE
    <3>1. Sides \in 1..2 /\ (command # "diff" => Sides = 1)
      BY DEF Sides
    <3>2. \A n \in Nat, k \in 1..2 : \A x, y \in 1..n :
            n <= k /\ x # y => k = 2 /\ ((x = 1 /\ y = 2) \/ (x = 2 /\ y = 1))
      OBVIOUS
    <3>3. Sides = 2 /\ ((i = 1 /\ j = 2) \/ (i = 2 /\ j = 1))
      BY <2>1, <2>2, <2>3, <3>1, <3>2 DEF SourceInv
    <3>4. command = "diff" /\ ArgumentsFit /\ inputs # <<>>
      <4>1. 1 # 2
        OBVIOUS
      <4>2. inputs # <<>>
        BY <2>3
      <4> QED BY <2>1, <3>1, <3>3, <4>1, <4>2 DEF SourceInv
    <3>5. operands # <<>>
      BY <3>4 DEF ArgumentsFit
    <3>6. operands[i] = Stdin /\ operands[j] = Stdin
      <4>1. SourceOK(i) /\ SourceOK(j) /\ Sides # 1
        BY <2>1, <2>3, <3>3 DEF SourceInv
      <4> QED BY <2>3, <3>5, <4>1 DEF SourceOK
    <3> QED BY <2>1, <3>3, <3>4, <3>6, TwoOperands
  <2> QED BY <2>1, <2>3 DEF ReadsOneSource, SourceInv, SourceOK
<1> QED BY <1>1, Invariance, PTL

\* convert and sample leave one result in one place or none, and a run that
\* succeeds loses it only on a standard output that is full (runConvert and
\* runSample in cmd/app.go).
THEOREM ResultIsInOnePlaceHolds == Spec => []ResultIsInOnePlace
<1>1. IInv => ResultIsInOnePlace
  BY DEF IInv
<1> QED BY <1>1, Invariance, PTL

-----------------------------------------------------------------------------
(* What the line says *)

\* The words that reorder has moved, and then the settings that the parser has
\* made, are what the line says as far as it has been read.
LineInv ==
  /\ pc \in {"Run", "parseFlags"} => flags = <<>> /\ positionals = <<>> /\ settings = <<>>
  /\ pc \in {"parseFlags", "reorder", "parse"} => command \in Commands
  /\ pc = "reorder" =>
       /\ settings = <<>>
       /\ \/ Moving(command, args, todo, flags, positionals)
          \/ todo = <<>> /\ AllMoved(command, args, flags, positionals)
  /\ pc = "parse" =>
       /\ Chosen(positionals, args, OperandsOf(command, args))
       /\ ~Lacks(command, args) =>
            ParsedAt(command, args, todo, flags, positionals, settings)
  /\ pc = "run" /\ ~Lacks(command, args) =>
       /\ Chosen(operands, args, OperandsOf(command, args))
       /\ Chosen(settings, GivenAt(command, args), FlagsOf(command, args))

LEMMA InitLineInv == Init => LineInv
BY DEF Init, LineInv

LEMMA PlainName == \A x : Plain(x).name = x
<1>1. ASSUME NEW x, NEW y PROVE [dashes |-> 0, name |-> x, value |-> y].name = x
  OBVIOUS
<1> QED BY <1>1, Zenon DEF Plain

\* A command line is taken apart.
LEMMA DispatchLine ==
  ASSUME LineInv, RunHelp \/ RunCommand PROVE LineInv'
<1>1. CASE RunHelp
  BY <1>1 DEF RunHelp, argumentVars, LineInv
<1>2. CASE RunCommand
  <2>1. PICK c \in Commands : line[1] = Plain(c)
    BY <1>2 DEF RunCommand, IsCommand
  <2>2. command' \in Commands
    BY <1>2, <2>1, PlainName DEF RunCommand
  <2> QED BY <1>2, <2>2 DEF RunCommand, LineInv
<1> QED BY <1>1, <1>2

LEMMA ReorderLine ==
  ASSUME IInv, LineInv,
         StartReorder \/ ReorderFlag \/ ReorderPositional \/ ReorderTerminator \/ Reordered
  PROVE  LineInv'
<1>1. args \in Seq(Words) /\ Terminator \in Words
      /\ flags \in Seq(Words) /\ positionals \in Seq(Words) /\ todo \in Seq(Words)
  BY WordFacts DEF IInv, TypeInv
<1> HIDE DEF Words
<1>2. CASE StartReorder
  <2>1. Moving(command, args, args, <<>>, <<>>)
    BY <1>1, MovingStarts
  <2>2. /\ pc = "parseFlags" /\ pc' = "reorder" /\ todo' = args
        /\ command' = command /\ args' = args /\ flags' = flags
        /\ positionals' = positionals /\ settings' = settings
    BY <1>2 DEF StartReorder
  <2> QED BY <2>1, <2>2 DEF LineInv
<1>3. ASSUME pc = "reorder"
      PROVE  /\ settings = <<>> /\ command \in Commands
             /\ todo # <<>> => Moving(command, args, todo, flags, positionals)
             /\ todo = <<>> => AllMoved(command, args, flags, positionals)
  <2>1. ASSUME Moving(command, args, <<>>, flags, positionals)
        PROVE  AllMoved(command, args, flags, positionals)
    BY <1>1, <2>1, MoveEnd
  <2> QED BY <1>3, <2>1 DEF LineInv
<1>4. ASSUME pc = "reorder", pc' = "reorder", command' = command, args' = args,
             settings' = settings,
             \/ Moving(command, args, todo', flags', positionals')
             \/ todo' = <<>> /\ AllMoved(command, args, flags', positionals')
      PROVE  LineInv'
  BY <1>3, <1>4 DEF LineInv
<1>5. CASE ReorderFlag
  <2>1. /\ pc = "reorder" /\ todo # <<>> /\ Head(todo) # Terminator /\ IsOption(Head(todo))
        /\ flags' = flags \o SubSeq(todo, 1, Moved(Head(todo)))
        /\ todo' = From(todo, Moved(Head(todo)) + 1)
        /\ UNCHANGED <<pc, command, args, positionals, settings, operands>>
    BY <1>5 DEF ReorderFlag
  <2>2. Moved(Head(todo)) = IF Takes(command, Head(todo)) /\ Len(todo) > 1 THEN 2 ELSE 1
    BY DEF Moved, TakesNext, Takes
  <2>3. Moving(command, args, todo', flags', positionals)
    BY <1>1, <1>3, <2>1, <2>2, MoveFlag
  <2> QED BY <1>4, <2>1, <2>3
<1>6. CASE ReorderPositional
  <2>1. /\ pc = "reorder" /\ todo # <<>> /\ ~IsOption(Head(todo))
        /\ positionals' = Append(positionals, Head(todo)) /\ todo' = Tail(todo)
        /\ UNCHANGED <<pc, command, args, flags, settings, operands>>
    BY <1>6 DEF ReorderPositional
  <2>2. Moving(command, args, todo', flags, positionals')
    BY <1>1, <1>3, <2>1, MovePositional
  <2> QED BY <1>4, <2>1, <2>2
<1>7. CASE ReorderTerminator
  <2>1. /\ pc = "reorder" /\ todo # <<>> /\ Head(todo) = Terminator
        /\ positionals' = positionals \o Tail(todo) /\ todo' = <<>>
        /\ UNCHANGED <<pc, command, args, flags, settings, operands>>
    BY <1>7 DEF ReorderTerminator
  <2>2. AllMoved(command, args, flags, positionals')
    BY <1>1, <1>3, <2>1, MoveTerminator
  <2> QED BY <1>4, <2>1, <2>2
<1>8. CASE Reordered
  <2>1. /\ pc = "reorder" /\ todo = <<>> /\ todo' = LineOf(flags, positionals) /\ pc' = "parse"
        /\ UNCHANGED <<command, args, flags, positionals, settings, operands>>
    BY <1>8 DEF Reordered, LineOf
  <2>2. AllMoved(command, args, flags, positionals) /\ settings = <<>> /\ command \in Commands
    BY <1>3, <2>1
  <2>3. ParsedAt(command, args, todo', flags, positionals, <<>>)
    BY <1>1, <2>1, <2>2, ParsingStarts
  <2>4. Chosen(positionals, args, OperandsOf(command, args))
    BY <2>2 DEF AllMoved
  <2> QED BY <2>1, <2>2, <2>3, <2>4 DEF LineInv
<1> QED BY <1>2, <1>5, <1>6, <1>7, <1>8

LEMMA ParseLine ==
  ASSUME IInv, LineInv, ParseValueFlag \/ ParseBoolFlag \/ ParseEnds
  PROVE  LineInv'
<1>1. args \in Seq(Words) /\ Terminator \in Words
      /\ positionals \in Seq(Words) /\ todo \in Seq(Words)
  BY WordFacts DEF IInv, TypeInv
<1>2. /\ pc = "parse" /\ command \in Commands
      /\ Chosen(positionals, args, OperandsOf(command, args))
      /\ ~Lacks(command, args) =>
           ParsedAt(command, args, todo, flags, positionals, settings)
  BY DEF ParseValueFlag, ParseBoolFlag, Parsing, ParseEnds, LineInv
<1>3. Parsing <=> FlagNext(todo)
  BY <1>2 DEF Parsing, FlagNext
<1>4. TakesNext(Head(todo)) <=> Takes(command, Head(todo))
  BY DEF TakesNext, Takes
<1> HIDE DEF Words
<1>5. ASSUME pc' = "parse", UNCHANGED <<command, args, flags, positionals>>,
             ~Lacks(command, args) =>
               ParsedAt(command, args, todo', flags, positionals, settings')
      PROVE  LineInv'
  BY <1>2, <1>5 DEF LineInv
<1>6. CASE ParseValueFlag
  <2>1. /\ Parsing
        /\ settings' = Append(settings,
             <<Head(todo).name,
               IF TakesNext(Head(todo)) THEN todo[2] ELSE Plain(Head(todo).value)>>)
        /\ todo' = From(todo, IF TakesNext(Head(todo)) THEN 3 ELSE 2)
        /\ UNCHANGED <<pc, command, args, flags, positionals, operands>>
    BY <1>6 DEF ParseValueFlag
  <2>2. ASSUME ~Lacks(command, args)
        PROVE  ParsedAt(command, args, todo', flags, positionals, settings')
    <3>1. /\ Takes(command, Head(todo)) =>
               ParsedAt(command, args, From(todo, 3), flags, positionals,
                        Append(settings, <<Head(todo).name, todo[2]>>))
          /\ ~Takes(command, Head(todo)) =>
               ParsedAt(command, args, From(todo, 2), flags, positionals,
                        Append(settings, <<Head(todo).name, Plain(Head(todo).value)>>))
      BY <1>1, <1>2, <1>3, <2>1, <2>2, ParseFlag
    <3> QED BY <1>4, <2>1, <3>1
  <2> QED BY <1>2, <1>5, <2>1, <2>2
<1>7. CASE ParseBoolFlag
  <2>1. /\ Parsing /\ Head(todo).name \in BoolFlags[command]
        /\ settings' = Append(settings, <<Head(todo).name, Plain(Head(todo).value)>>)
        /\ todo' = Tail(todo)
        /\ UNCHANGED <<pc, command, args, flags, positionals, operands>>
    BY <1>7 DEF ParseBoolFlag
  <2>2. ~Takes(command, Head(todo))
    BY <1>2, <2>1, ArgumentsAssumption DEF Takes
  <2>3. Tail(todo) = From(todo, 2)
    BY <1>1, <1>3, <2>1, TailIsSubSeq DEF From, FlagNext
  <2>4. ASSUME ~Lacks(command, args)
        PROVE  ParsedAt(command, args, todo', flags, positionals, settings')
    <3>1. ParsedAt(command, args, From(todo, 2), flags, positionals,
                   Append(settings, <<Head(todo).name, Plain(Head(todo).value)>>))
      BY <1>1, <1>2, <1>3, <2>1, <2>2, <2>4, ParseFlag
    <3> QED BY <2>1, <2>3, <3>1
  <2> QED BY <1>2, <1>5, <2>1, <2>4
<1>8. CASE ParseEnds
  <2>1. /\ ~Parsing /\ operands' = Left(todo) /\ pc' = "run"
        /\ UNCHANGED <<command, args, flags, positionals, settings>>
    BY <1>8 DEF ParseEnds, Left
  <2>2. ASSUME ~Lacks(command, args)
        PROVE  /\ Chosen(operands', args, OperandsOf(command, args))
               /\ Chosen(settings, GivenAt(command, args), FlagsOf(command, args))
    <3>1. Left(todo) = positionals
          /\ Chosen(settings, GivenAt(command, args), FlagsOf(command, args))
      BY <1>1, <1>2, <1>3, <2>1, <2>2, ParsingEnds
    <3> QED BY <1>2, <2>1, <3>1
  <2> QED BY <2>1, <2>2 DEF LineInv
<1> QED BY <1>6, <1>7, <1>8

LEMMA StepLineInv == IInv /\ LineInv /\ [Next]_vars => LineInv'
<1> SUFFICES ASSUME IInv, LineInv, [Next]_vars PROVE LineInv'
  OBVIOUS
<1>1. CASE RunHelp \/ RunCommand
  BY <1>1, DispatchLine
<1>2. CASE ParseStep
  BY <1>2, ReorderLine, ParseLine DEF ParseStep, ReadArguments
<1>3. ASSUME pc' \in Late \cup {"done"} PROVE LineInv'
  BY <1>3 DEF LineInv, Late
<1>4. CASE RunRoot \/ RunVersion \/ RunRefuses \/ PrintUsage \/ ParseHelp \/ ParseFails
           \/ ArgumentsRefused \/ SettingsRefused \/ LoadContextFails \/ ReadSourceFails
           \/ ConvertFails \/ DecodeFails \/ Service \/ ListSamples \/ SampleFails \/ RunSpecs
           \/ PrintResult \/ WriteResult \/ WriteFails
  <2>1. pc' = "done"
    BY <1>4 DEF RunRoot, RunVersion, RunRefuses, PrintUsage, ParseHelp, ParseFails,
       ArgumentsRefused, SettingsRefused, LoadContextFails, ReadSourceFails,
       ConvertFails, DecodeFails, Service, ListSamples, SampleFails, RunSpecs,
       PrintResult, WriteResult, WriteFails, Refuse, Leave
  <2> QED BY <1>3, <2>1
<1>5. CASE LoadContext \/ ReadSource \/ Convert \/ Decode \/ RenderSample
  <2>1. pc' \in Late
    BY <1>5 DEF LoadContext, ReadSource, Convert, Decode, RenderSample, Late
  <2> QED BY <1>3, <2>1
<1>6. CASE Done \/ UNCHANGED vars
  BY <1>6 DEF Done, vars, argumentVars, LineInv
<1> QED BY <1>1, <1>2, <1>4, <1>5, <1>6 DEF Next

\* However flags and operands are mixed, a line means what it says from left to
\* right (reorder and parseFlags in cmd/app.go).
THEOREM LineMeansWhatItSaysHolds == Spec => []LineMeansWhatItSays
<1>1. ASSUME IInv, LineInv PROVE LineMeansWhatItSays
  <2> SUFFICES ASSUME pc = "run", ~LacksValue
               PROVE  /\ operands = [i \in DOMAIN Pick(OperandPositions) |->
                                       args[Pick(OperandPositions)[i]]]
                      /\ settings = [i \in DOMAIN Pick(FlagPositions) |->
                                       Given(Pick(FlagPositions)[i])]
    BY DEF LineMeansWhatItSays
  <2>1. FlagPositions = FlagsOf(command, args) /\ OperandPositions = OperandsOf(command, args)
    BY SameValue, SameEnd DEF FlagPositions, FlagsOf, OperandPositions, OperandsOf
  <2>2. ~Lacks(command, args)
    BY <2>1 DEF Lacks, LacksValue, TakesNext, Takes
  <2>3. /\ Chosen(operands, args, OperandsOf(command, args))
        /\ Chosen(settings, GivenAt(command, args), FlagsOf(command, args))
    BY <1>1, <2>2 DEF LineInv
  <2>4. operands = [i \in DOMAIN Pick(OperandPositions) |-> args[Pick(OperandPositions)[i]]]
    BY <2>1, <2>3, ChosenIs
  <2>5. settings = [i \in DOMAIN Pick(FlagPositions) |->
                      GivenAt(command, args)[Pick(FlagPositions)[i]]]
    BY <2>1, <2>3, ChosenIs
  <2>6. \A i \in DOMAIN Pick(FlagPositions) :
          GivenAt(command, args)[Pick(FlagPositions)[i]] = Given(Pick(FlagPositions)[i])
    <3>1. PICK f : Ascending(f, FlagPositions)
      BY <2>1, <2>3 DEF Chosen
    <3>2. Pick(FlagPositions) = f /\ DOMAIN f = 1..Len(f)
          /\ \A i \in 1..Len(f) : f[i] \in FlagPositions
      BY <3>1, PickIs DEF Ascending
    <3>3. FlagPositions \subseteq 1..Len(args)
      <4>1. args \in Seq(Words)
        BY <1>1 DEF IInv, TypeInv
      <4> HIDE DEF Words
      <4>2. EndOfFlags \in 1..(Len(args) + 1) /\ Len(args) \in Nat
        BY <4>1, SameEnd, EndFacts
      <4> DEFINE e == EndOfFlags
      <4>3. 1..(e - 1) \subseteq 1..Len(args)
        <5> HIDE DEF e
        <5>1. e \in 1..(Len(args) + 1)
          BY <4>2 DEF e
        <5> QED BY <4>2, <5>1
      <4> QED BY <4>3 DEF FlagPositions
    <3>4. ASSUME NEW q \in 1..Len(args) PROVE GivenAt(command, args)[q] = Given(q)
      BY DEF GivenAt, Given, TakesNext, Takes
    <3> QED BY <3>2, <3>3, <3>4
  <2> QED BY <2>4, <2>5, <2>6
<1>2. Init => LineInv
  BY InitLineInv
<1>3. IInv /\ LineInv /\ [Next]_vars => LineInv'
  BY StepLineInv
<1> QED BY <1>1, <1>2, <1>3, Invariance, PTL DEF Spec

=============================================================================
