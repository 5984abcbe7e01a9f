----------------------------- MODULE SendCommand -----------------------------
(***************************************************************************)
(* The `send` command (runSend, cmd/app.go) around one exchange.  The      *)
(* exchange itself is ExchangeContract, which SendExchange implements.     *)
(*                                                                         *)
(* The same command line is run twice, as it stands ("live") and with      *)
(* --dry-run added ("dry"), so that what the dry run reports can be        *)
(* compared with what the live run then does.                              *)
(***************************************************************************)
EXTENDS ExchangeContract, Sequences

CONSTANTS
  CommandLines,   \* the command lines, see CommandLine
  Readings,       \* Readings[n]: what a response of n bytes decodes to
  Names,          \* field paths, but for the case of their hex digits
  Texts           \* field values, but for the blanks around them

Modes == {"live", "dry"}

\* What runSend looks at before it sends anything, in its order.  Each refuses
\* the command line with a message of its own.
Gates_NoAddress ==
  <<"flags", "arguments", "format", "framing", "expect-field", "color",
    "context", "payload", "request">>

\* The request is packed and sent without being decoded first.
Gates_NoRequest ==
  <<"flags", "arguments", "format", "framing", "expect-field", "color",
    "context", "payload", "address">>

Gates ==
  <<"flags", "arguments", "format", "framing", "expect-field", "color",
    "context", "payload", "request", "address">>

GateNames == {Gates[i] : i \in DOMAIN Gates} \cup {"request", "address"}

\* A path, and whether its hex digits are spelled the way the decoder does.
Path == [name : Names, upper : BOOLEAN]

Value == [text : Texts, blanks : BOOLEAN]

Expectation == [path : Path, value : Value]

\* help: -h is among the arguments.  bad: the gates that would refuse it.
\* encodable: the framing can carry the payload.
CommandLine ==
  [help : BOOLEAN, bad : SUBSET GateNames, encodable : BOOLEAN,
   expectMTI : {""} \cup Texts, expectFields : SUBSET Expectation]

\* A decoded response has an MTI and some fields; the decoder spells paths one way.
Documents ==
  UNION {[mti : Texts, fields : [P -> Value]] :
           P \in SUBSET {p \in Path : p.upper}}

Undecodable == [mti |-> "", fields |-> << >>]

ASSUME SendCommandAssumption ==
  /\ CommandLines \subseteq CommandLine
  /\ DOMAIN Readings \subseteq Nat
  /\ \A n \in DOMAIN Readings : Readings[n] \in Documents \cup {Undecodable}
  /\ "" \notin Texts

VARIABLES
  line,     \* the command line, fixed by Init
  pc,       \* pc[m]: "start", "sending", "report" or "done"
  stdout,   \* stdout[m]: "empty", "usage", "dry-run" or "exchange"
  stderr,   \* stderr[m]: "empty" or what the complaint is about
  exit      \* exit[m]: the exit status, 0 until it is known

commandVars == <<line, pc, stdout, stderr, exit>>
sendVars    == <<commandVars, contractVars>>

Init ==
  /\ line \in CommandLines
  /\ pc = [m \in Modes |-> "start"]
  /\ stdout = [m \in Modes |-> "empty"]
  /\ stderr = [m \in Modes |-> "empty"]
  /\ exit = [m \in Modes |-> 0]
  /\ answers \in SUBSET DOMAIN Readings
  /\ ContractInit

-----------------------------------------------------------------------------
(* Leaving the command *)

Succeed(m, out) ==
  /\ pc' = [pc EXCEPT ![m] = "done"]
  /\ stdout' = [stdout EXCEPT ![m] = out]
  /\ UNCHANGED <<line, stderr, exit>>

Fail(m, complaint) ==
  /\ pc' = [pc EXCEPT ![m] = "done"]
  /\ stderr' = [stderr EXCEPT ![m] = complaint]
  /\ exit' = [exit EXCEPT ![m] = 1]
  /\ UNCHANGED <<line, stdout>>

-----------------------------------------------------------------------------
(* Before the exchange *)

Vetted == \A i \in DOMAIN Gates : Gates[i] \notin line.bad

\* The first gate that refuses is the one that is reported.
FirstRefusal ==
  LET refusing == {i \in DOMAIN Gates : Gates[i] \in line.bad}
  IN  Gates[CHOOSE i \in refusing : \A j \in refusing : i <= j]

Help(m) ==
  /\ pc[m] = "start"
  /\ line.help
  /\ Succeed(m, "usage")
  /\ UNCHANGED contractVars

Refuse(m) ==
  /\ pc[m] = "start"
  /\ ~line.help /\ ~Vetted
  /\ Fail(m, FirstRefusal)
  /\ UNCHANGED contractVars

Expects == line.expectMTI # "" \/ line.expectFields # {}

\* runSendDryRun
DryRun ==
  /\ pc["dry"] = "start"
  /\ ~line.help /\ Vetted
  /\ \/ Expects /\ Fail("dry", "expect-with-dry-run")
     \/ ~Expects /\ ~line.encodable /\ Fail("dry", "encode")
     \/ ~Expects /\ line.encodable /\ Succeed("dry", "dry-run")
  /\ UNCHANGED contractVars

\* SendMessage looks at the address again, and frames the payload itself.
Send ==
  /\ pc["live"] = "start"
  /\ ~line.help /\ Vetted
  /\ LET sendable == "address" \notin line.bad /\ line.encodable IN
     \/ /\ ~sendable
        /\ Fail("live", IF "address" \in line.bad THEN "address" ELSE "encode")
     \/ /\ sendable
        /\ pc' = [pc EXCEPT !["live"] = "sending"]
        /\ UNCHANGED <<line, stdout, stderr, exit>>
  /\ UNCHANGED contractVars

\* The exchange goes on while SendMessage has not returned.
Exchange ==
  /\ pc["live"] = "sending"
  /\ ContractNext
  /\ UNCHANGED commandVars

SendFails ==
  /\ pc["live"] = "sending"
  /\ verdict = "error"
  /\ Fail("live", "exchange")
  /\ UNCHANGED contractVars

-----------------------------------------------------------------------------
(* The response and what was expected of it *)

\* strings.TrimSpace, as parseFieldExpectations applies it to PATH=VALUE.
TrimSpace(v) == [v EXCEPT !.blanks = FALSE]

\* strings.EqualFold
SamePath(p, q) == p.name = q.name

\* lookupFlatValue for the fields of a document: the path as it is spelled, or
\* one that differs only in case.  No two paths of a document do.  Its names for
\* the MTI ("0" and "mti") ask what --expect-mti asks and are left out.
Present(doc, path) == \E p \in DOMAIN doc.fields : SamePath(p, path)

LookupFlatValue(doc, path) ==
  doc.fields[CHOOSE p \in DOMAIN doc.fields : SamePath(p, path)]

\* An expected field that is absent is passed over.
Unmet_Wrong(doc, e) ==
  Present(doc, e.path) /\ LookupFlatValue(doc, e.path) # TrimSpace(e.value)

Unmet(doc, e) ==
  Present(doc, e.path) => LookupFlatValue(doc, e.path) # TrimSpace(e.value)

\* CheckExpectations: whether there is a failure to report.
ExpectationFails(doc) ==
  \/ line.expectMTI # "" /\ line.expectMTI # doc.mti
  \/ \E e \in line.expectFields : Unmet(doc, e)

Reading == Readings[response]

\* A response that does not decode is not printed, and is not held against the
\* expectations: CheckExpectations would decode it just the same.
ResponseUndecodable ==
  /\ pc["live"] = "sending"
  /\ verdict = "response"
  /\ Reading = Undecodable
  /\ Fail("live", "decode-response")
  /\ UNCHANGED contractVars

\* A failing expectation keeps the exchange from being printed.
PrintExchange_Wrong ==
  /\ pc["live"] = "sending"
  /\ verdict = "response"
  /\ Reading # Undecodable
  /\ pc' = [pc EXCEPT !["live"] = "report"]
  /\ stdout' = [stdout EXCEPT !["live"] =
                  IF ExpectationFails(Reading) THEN "empty" ELSE "exchange"]
  /\ UNCHANGED <<line, stderr, exit, contractVars>>

\* The exchange is printed first, so that a failing run shows it too.
PrintExchange ==
  /\ pc["live"] = "sending"
  /\ verdict = "response"
  /\ Reading # Undecodable
  /\ pc' = [pc EXCEPT !["live"] = "report"]
  /\ stdout' = [stdout EXCEPT !["live"] = "exchange"]
  /\ UNCHANGED <<line, stderr, exit, contractVars>>

Report ==
  /\ pc["live"] = "report"
  /\ \/ ExpectationFails(Reading) /\ Fail("live", "expectation-failed")
     \/ ~ExpectationFails(Reading) /\ Succeed("live", stdout["live"])
  /\ UNCHANGED contractVars

-----------------------------------------------------------------------------

Done == (\A m \in Modes : pc[m] = "done") /\ UNCHANGED sendVars

Next ==
  \/ \E m \in Modes : Help(m) \/ Refuse(m)
  \/ DryRun \/ Send \/ Exchange \/ SendFails
  \/ ResponseUndecodable \/ PrintExchange \/ Report
  \/ Done

Spec == Init /\ [][Next]_sendVars

-----------------------------------------------------------------------------
(* What the command guarantees *)

\* Nothing reaches the network for a command line with anything wrong in it, in
\* whichever order the things are wrong: the request is decoded, the address is
\* checked and the frame is built first.
NothingSentUnvetted ==
  request = "sent" => ~line.help /\ line.bad = {} /\ line.encodable

\* A dry run predicts the live run.  When it is content, the live run fails only
\* for what the network or the reply does.  When it complains, the live run
\* complains of the same thing and sends nothing, unless the complaint is that a
\* dry run has no response to hold expectations against.
DryRunPredictsLive ==
  (\A m \in Modes : pc[m] = "done") =>
    /\ stdout["dry"] = "dry-run" =>
         stderr["live"] \in {"empty", "exchange", "decode-response"}
    /\ exit["dry"] = 1 /\ stderr["dry"] # "expect-with-dry-run" =>
         stderr["live"] = stderr["dry"] /\ request = "unsent"

\* What a script sees as success: status 0 of a live run means that the whole
\* request was sent, that a response came back and decoded, and that the MTI and
\* every expected field, in either spelling of its path, were in it with the
\* value asked for; and none of these failing is reported as anything else.
SuccessIsEarned ==
  pc["live"] = "done" /\ ~line.help =>
    (exit["live"] = 0 <=>
       /\ request = "sent" /\ verdict = "response"
       /\ Reading # Undecodable
       /\ line.expectMTI \in {"", Reading.mti}
       /\ \A e \in line.expectFields :
            \E p \in DOMAIN Reading.fields :
              /\ p.name = e.path.name
              /\ Reading.fields[p] = [text |-> e.value.text, blanks |-> FALSE])

\* Standard output has an exchange exactly when a response was decoded.  A run
\* that fails only its expectations still shows it; one that fails earlier
\* leaves standard output empty for whatever reads it through a pipe.
FailureShowsResponse ==
  pc["live"] = "done" =>
    (stdout["live"] = "exchange" <=>
       verdict = "response" /\ Reading # Undecodable)
=============================================================================
