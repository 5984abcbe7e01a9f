---------------------------- MODULE MCInspection ----------------------------
(***************************************************************************)
(* Three families of inputs: every message of up to two values, of every   *)
(* class of path and embedding, for the masks; every list of up to two     *)
(* filters over small pairs of messages, for the filters; and, for each    *)
(* class and function, messages around what the strict rules require.      *)
(***************************************************************************)
EXTENDS Inspection, FiniteSets, TLC

Text(data, embeds) == [binary |-> FALSE, data |-> data, embeds |-> embeds]
Bytes(data, embeds) == [binary |-> TRUE, data |-> data, embeds |-> embeds]

UnknownTag == <<"55", "DF8129">>
MCUnknown == {UnknownTag}

\* Paths that a built-in layout and a custom one both have.
CommonEntries ==
  ( {<<"2">>, <<"35">>, <<"39">>} \X {Text("a", "nowhere"), Text("b", "text")} )
  \cup ( {<<"48">>} \X {Text("a", "nowhere"), Text("b", "text")} )
  \cup ( {<<"52">>, <<"55", "57">>, <<"55", "9F26">>, UnknownTag}
           \X {Bytes("a", "nowhere"), Bytes("b", "nowhere")} )

\* A custom layout may nest the sensitive tags and have bytes anywhere.
CustomEntries ==
  CommonEntries
  \cup ( {<<"55", "70", "5A">>} \X {Bytes("a", "nowhere")} )
  \cup ( {<<"2">>, <<"127">>} \X {Bytes("a", "bytes")} )
  \cup ( {<<"127">>} \X {Bytes("b", "text"), Bytes("c", "nowhere")} )
  \cup ( {<<"48", "2">>} \X {Text("a", "text")} )

\* The MTI of the first two families: an authorization request.
AnMTI(class, function) == [form |-> "digits", class |-> class, function |-> function]

\* The messages made of some entries.
Message(es) ==
  (MTI :> Text(AnMTI("1", "0"), "nowhere"))
  @@ [p \in {e[1] : e \in es} |-> (CHOOSE e \in es : e[1] = p)[2]]

Messages(entries) ==
  {Message(es) : es \in {{}} \cup {{d, e} : d \in entries, e \in entries}}

Input(before, after, builtin, filters, format, unsafe, unpacks) ==
  [before |-> before, after |-> after, builtin |-> builtin, filters |-> filters,
   format |-> format, unsafe |-> unsafe, unpacks |-> unpacks, strict |-> FALSE,
   failsAt |-> "nowhere", otherFits |-> FALSE]

MaskCases(entries, builtin) ==
  {Input(d, a, builtin, <<>>, f, u, TRUE) :
     d \in Messages(entries), a \in Messages({<<<<"39">>, Text("c", "nowhere")>>}),
     f \in {"text", "json"}, u \in BOOLEAN}
  \cup {Input(d, d, builtin, <<>>, f, FALSE, TRUE) :
          d \in Messages(entries), f \in {"text", "json"}}
  \cup {[Input(Message({}), Message({}), builtin, <<>>, f, FALSE, FALSE)
            EXCEPT !.failsAt = at, !.otherFits = fits] :
          f \in {"text", "json", "other"}, at \in {"header", "data"}, fits \in BOOLEAN}

FilterEntries ==
  ( {<<"39">>} \X {Text("a", "nowhere"), Text("b", "nowhere")} )
  \cup ( {<<"55", "57">>, <<"55", "9F26">>} \X {Bytes("a", "nowhere"), Bytes("b", "nowhere")} )

\* "55.9f26" and " 55.9F26" name the same path; "0" is the MTI.
Filters ==
  {[path |-> p, spelling |-> s] :
     p \in {<<"39">>, <<"55">>, <<"55", "9F26">>, <<"5">>, MTI}, s \in {"one"}}
  \cup {[path |-> p, spelling |-> "another"] : p \in {<<"55", "9F26">>, MTI}}

FilterLists == {<<>>} \cup {<<f>> : f \in Filters} \cup (Filters \X Filters)

FilterCases ==
  {Input(d, a, TRUE, fs, "json", FALSE, TRUE) :
     d \in Messages(FilterEntries), a \in {Message({e}) : e \in FilterEntries},
     fs \in FilterLists}
  \cup {Input(d, d, TRUE, fs, "other", TRUE, TRUE) :
          d \in Messages(FilterEntries), fs \in FilterLists}

\* A message with some fields, of which those in letters are not digits.
Fielded(mti, fields, letters, approved) ==
  (MTI :> Text(mti, "nowhere"))
  @@ [p \in {<<id>> : id \in fields} |->
        Text(IF p[1] \in letters THEN "letters"
             ELSE IF p[1] = "39" /\ approved THEN "approval" ELSE "digits", "nowhere")]

\* What is required and one way to name the card, more or less one field.
Around(mti) ==
  LET full == {Required(mti) \cup {"37"} \cup c : c \in {{}, {"2"}, {"45"}, {"2", "35"}}} IN
  {{}, {"11"}} \cup full \cup {f \cup {"38"} : f \in full}
  \cup {f \ {id} : f \in full, id \in {"3", "4", "7", "11", "37", "39", "70", "90", "101"}}

StrictCases ==
  LET mtis == {AnMTI(c, f) : c \in Digits, f \in Digits} IN
  { [Input(Fielded(t[1], t[2], t[3], a), Message({}), TRUE, <<>>, "text", FALSE, TRUE)
       EXCEPT !.strict = TRUE] :
      t \in UNION {{<<i, f, l>> : f \in Around(i), l \in {{}, {"11"}}} : i \in mtis},
      a \in BOOLEAN }
  \cup {[Input(Fielded([form |-> form, class |-> "", function |-> ""], {"11"}, {}, FALSE),
               Message({}), FALSE, <<>>, "json", FALSE, TRUE) EXCEPT !.strict = s] :
          form \in {"other", "none"}, s \in BOOLEAN}

MCCases ==
  MaskCases(CommonEntries, TRUE) \cup MaskCases(CustomEntries, FALSE) \cup FilterCases
  \cup StrictCases
=============================================================================
