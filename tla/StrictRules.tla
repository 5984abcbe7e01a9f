----------------------------- MODULE StrictRules -----------------------------
(***************************************************************************)
(* The rules of `validate --strict` (strictSemanticIssues in               *)
(* internal/service/validate.go): what the class and the function of an    *)
(* MTI require of the fields beside it.                                    *)
(*                                                                         *)
(* A message is summed up by its MTI, the ids of its fields, the ids of    *)
(* those whose value is not all digits, and whether field 39 approves.  An *)
(* MTI is of the form "digits" (four of them, of which the second is the   *)
(* class and the third the function), "other" or "none".                   *)
(***************************************************************************)

Digits == {"0", "1", "2", "3", "4", "5", "6", "7", "8", "9"}

Error(id) == [severity |-> "error", path |-> <<id>>]
Warning(id) == [severity |-> "warning", path |-> <<id>>]

NumericSecondaryFields ==
  {"3", "4", "7", "11", "12", "13", "14", "15", "16", "17", "18", "19", "66",
   "67", "68", "69", "70", "71", "72", "73", "74", "75", "76", "77", "78", "79",
   "80", "81", "82", "83", "84", "85", "86", "87", "88", "89", "90", "93", "94",
   "95", "97", "99", "100"}

\* Only a request and an advice.
CarriesTransaction_Wrong(mti) == mti.function \in {"0", "2"}

\* A request, advice, notification or instruction.
CarriesTransaction(mti) == mti.function \in {"0", "2", "4", "6"}

\* The answer to one of these.
IsAcknowledgement(mti) == mti.function \in {"1", "3", "5", "7"}

IsResponse(mti) == mti.function \in {"1", "3"}

\* Authorization and financial; file action; reversal; network management.
CardClasses == {"1", "2"}
RuledClasses == CardClasses \cup {"3", "4", "8"}

Required(mti) ==
  {"11"}
  \cup (IF mti.class = "8" THEN {"70"} ELSE {})
  \cup (IF mti.class \in RuledClasses /\ IsAcknowledgement(mti) THEN {"39"} ELSE {})
  \cup (IF ~CarriesTransaction(mti) THEN {}
        ELSE IF mti.class \in CardClasses THEN {"3", "4", "7"}
        ELSE IF mti.class = "3" THEN {"101"}
        ELSE IF mti.class = "4" THEN {"4", "7", "90"} ELSE {})

\* A transaction on a card names the card, in one field or another.
PANSources == {"2", "35", "45"}
NeedsPANSource(mti) ==
  CarriesTransaction(mti) /\ mti.class \in CardClasses \cup {"4"}

Recommended(mti, approved) ==
  IF mti.class \notin CardClasses THEN {}
  ELSE (IF CarriesTransaction(mti) \/ IsAcknowledgement(mti) THEN {"37"} ELSE {})
       \cup (IF IsResponse(mti) /\ approved THEN {"38"} ELSE {})

\* Only field 2 counts, and the complaint is about field 35.
CardErrors_Wrong(m) ==
  IF NeedsPANSource(m.mti) /\ "2" \notin m.fields THEN {Error("35")} ELSE {}

\* It is reported at field 2, whichever was meant.
CardErrors(m) ==
  IF NeedsPANSource(m.mti) /\ m.fields \cap PANSources = {} THEN {Error("2")} ELSE {}

\* strictSemanticIssues.  A class without rules is told, and not passed over.
StrictIssues(m) ==
  IF m.mti.form # "digits" THEN {Error("0")}
  ELSE {Error(id) : id \in Required(m.mti) \ m.fields}
       \cup CardErrors(m)
       \cup {Error(id) : id \in m.letters \cap NumericSecondaryFields}
       \cup {Warning(id) : id \in Recommended(m.mti, m.approved) \ m.fields}
       \cup (IF m.mti.class \notin RuledClasses THEN {Warning("0")} ELSE {})
=============================================================================
