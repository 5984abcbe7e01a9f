-------------------------- MODULE SendCommandProofs --------------------------
(***************************************************************************)
(* Proofs of the properties of SendCommand, for any command lines, any     *)
(* readings of a response and any lengths that the peer's reply entitles   *)
(* to.  Each mode ends in one of a few outcomes; the outcome determines    *)
(* what is on either stream, the exit status and whether a request was     *)
(* sent.  The properties compare the outcomes of the two modes.            *)
(***************************************************************************)
EXTENDS SendCommand, TLAPS

TypeOK ==
  /\ line \in CommandLine
  /\ pc \in [Modes -> {"start", "sending", "report", "done"}]
  /\ stdout \in [Modes -> {"empty", "usage", "dry-run", "exchange"}]
  /\ stderr = [m \in Modes |-> stderr[m]]
  /\ exit \in [Modes -> {0, 1}]
  /\ answers \in SUBSET DOMAIN Readings
  /\ request \in {"unsent", "sent"}
  /\ verdict \in {"pending", "response", "error"}

ExchangeInv == verdict = "response" => request = "sent" /\ response \in answers

Sendable == ~line.help /\ Vetted /\ "address" \notin line.bad /\ line.encodable

Decoded == verdict = "response" /\ Reading # Undecodable

Streams(m, out, complaint, status) ==
  stdout[m] = out /\ stderr[m] = complaint /\ exit[m] = status

Untouched == request = "unsent" /\ verdict = "pending"

Complaint == IF "address" \in line.bad THEN "address" ELSE "encode"

\* How a live run may end: before it sends, in the exchange, or after it.
LiveOutcome ==
  \/ line.help /\ Untouched /\ Streams("live", "usage", "empty", 0)
  \/ ~line.help /\ ~Vetted /\ Untouched /\ Streams("live", "empty", FirstRefusal, 1)
  \/ /\ ~line.help /\ Vetted /\ ~Sendable /\ Untouched
     /\ Streams("live", "empty", Complaint, 1)
  \/ Sendable /\ verdict = "error" /\ Streams("live", "empty", "exchange", 1)
  \/ /\ Sendable /\ verdict = "response" /\ Reading = Undecodable
     /\ Streams("live", "empty", "decode-response", 1)
  \/ /\ Sendable /\ Decoded /\ ExpectationFails(Reading)
     /\ Streams("live", "exchange", "expectation-failed", 1)
  \/ /\ Sendable /\ Decoded /\ ~ExpectationFails(Reading)
     /\ Streams("live", "exchange", "empty", 0)

LiveInv ==
  /\ pc["live"] = "start" => Untouched /\ Streams("live", "empty", "empty", 0)
  /\ pc["live"] = "sending" => Sendable /\ Streams("live", "empty", "empty", 0)
  /\ pc["live"] = "report" =>
       Sendable /\ Decoded /\ Streams("live", "exchange", "empty", 0)
  /\ pc["live"] = "done" => LiveOutcome

\* How a dry run may end.
DryOutcome ==
  \/ line.help /\ Streams("dry", "usage", "empty", 0)
  \/ ~line.help /\ ~Vetted /\ Streams("dry", "empty", FirstRefusal, 1)
  \/ ~line.help /\ Vetted /\ Expects /\ Streams("dry", "empty", "expect-with-dry-run", 1)
  \/ ~line.help /\ Vetted /\ ~line.encodable /\ Streams("dry", "empty", "encode", 1)
  \/ /\ ~line.help /\ Vetted /\ ~Expects /\ line.encodable
     /\ Streams("dry", "dry-run", "empty", 0)

DryInv ==
  /\ pc["dry"] \in {"start", "done"}
  /\ pc["dry"] = "start" => Streams("dry", "empty", "empty", 0)
  /\ pc["dry"] = "done" => DryOutcome

IInv == TypeOK /\ ExchangeInv /\ LiveInv /\ DryInv

-----------------------------------------------------------------------------
(* The gates *)

\* A vetted command line has nothing wrong with it, the address included.
LEMMA VettedIsClean ==
  ASSUME TypeOK
  PROVE  Vetted <=> line.bad = {}
<1>1. line.bad \subseteq GateNames
  BY DEF TypeOK, CommandLine
<1>2. GateNames = {Gates[i] : i \in DOMAIN Gates}
  <2>1. DOMAIN Gates = 1..10 /\ Gates[9] = "request" /\ Gates[10] = "address"
    BY DEF Gates
  <2>2. "request" \in {Gates[i] : i \in DOMAIN Gates}
          /\ "address" \in {Gates[i] : i \in DOMAIN Gates}
    BY <2>1
  <2> QED BY <2>2 DEF GateNames
<1> QED BY <1>1, <1>2 DEF Vetted

LEMMA DomainsAre == Modes = {"live", "dry"}
  BY DEF Modes

-----------------------------------------------------------------------------
(* The invariant is inductive *)

LEMMA InitEstablishes == ASSUME Init PROVE IInv
<1>1. TypeOK
  BY SendCommandAssumption DEF Init, TypeOK, ContractInit, Modes
<1>2. ExchangeInv
  BY DEF Init, ContractInit, ExchangeInv
<1>3. LiveInv
  BY DEF Init, ContractInit, LiveInv, Untouched, Streams, Modes
<1>4. DryInv
  BY DEF Init, DryInv, Streams, Modes
<1> QED BY <1>1, <1>2, <1>3, <1>4 DEF IInv

\* What a mode leaves as it was.
Same(m) ==
  pc'[m] = pc[m] /\ stdout'[m] = stdout[m] /\ stderr'[m] = stderr[m] /\ exit'[m] = exit[m]

\* What leaving does to a mode's own streams and to the other's.
LEMMA SucceedDoes ==
  ASSUME IInv, NEW m \in Modes, NEW out \in {"usage", "dry-run", "exchange"},
         Succeed(m, out), UNCHANGED contractVars
  PROVE  /\ TypeOK' /\ ExchangeInv' /\ line' = line
         /\ pc'[m] = "done" /\ stdout'[m] = out
         /\ stderr'[m] = stderr[m] /\ exit'[m] = exit[m]
         /\ \A n \in Modes \ {m} : Same(n)
  BY DEF Succeed, IInv, TypeOK, ExchangeInv, contractVars, Same

LEMMA FailDoes ==
  ASSUME IInv, NEW m \in Modes, NEW complaint,
         Fail(m, complaint), UNCHANGED contractVars
  PROVE  /\ TypeOK' /\ ExchangeInv' /\ line' = line
         /\ pc'[m] = "done" /\ stdout'[m] = stdout[m]
         /\ stderr'[m] = complaint /\ exit'[m] = 1
         /\ \A n \in Modes \ {m} : Same(n)
  BY DEF Fail, IInv, TypeOK, ExchangeInv, contractVars, Same

\* What is said of the command line and of the exchange stays said while both do.
LEMMA LineFrame ==
  ASSUME line' = line
  PROVE  /\ (Sendable' <=> Sendable) /\ (Vetted' <=> Vetted) /\ (Expects' <=> Expects)
         /\ FirstRefusal' = FirstRefusal /\ Complaint' = Complaint
         /\ line.help' = line.help /\ line.encodable' = line.encodable
  BY DEF Sendable, Vetted, FirstRefusal, Expects, Complaint

LEMMA ExchangeFrame ==
  ASSUME line' = line, UNCHANGED contractVars
  PROVE  /\ (Untouched' <=> Untouched) /\ (Decoded' <=> Decoded)
         /\ Reading' = Reading /\ verdict' = verdict
         /\ (ExpectationFails(Reading)' <=> ExpectationFails(Reading))
  BY DEF contractVars, Untouched, Decoded, Reading, ExpectationFails, Unmet,
         Present, LookupFlatValue

LEMMA LiveFrame ==
  ASSUME LiveInv, line' = line, UNCHANGED contractVars, Same("live") PROVE LiveInv'
  BY LineFrame, ExchangeFrame DEF Same, LiveInv, LiveOutcome, Streams

LEMMA DryFrame ==
  ASSUME DryInv, line' = line, Same("dry") PROVE DryInv'
  BY LineFrame DEF Same, DryInv, DryOutcome, Streams

LEMMA HelpKeeps == ASSUME IInv, NEW m \in Modes, Help(m) PROVE IInv'
<1>1. pc[m] = "start" /\ line.help /\ Succeed(m, "usage") /\ UNCHANGED contractVars
  BY DEF Help
<1>2. /\ TypeOK' /\ ExchangeInv' /\ line' = line
      /\ pc'[m] = "done" /\ stdout'[m] = "usage"
      /\ stderr'[m] = stderr[m] /\ exit'[m] = exit[m]
      /\ \A n \in Modes \ {m} : Same(n)
  BY <1>1, SucceedDoes
<1>3. CASE m = "live"
  <2>1. LiveOutcome'
    BY <1>1, <1>2, <1>3, LineFrame, ExchangeFrame DEF IInv, LiveInv, LiveOutcome, Streams
  <2>2. LiveInv'
    BY <1>2, <1>3, <2>1 DEF LiveInv
  <2>3. DryInv'
    BY <1>2, <1>3, DryFrame, DomainsAre DEF IInv
  <2> QED BY <1>2, <2>2, <2>3 DEF IInv
<1>4. CASE m = "dry"
  <2>1. DryOutcome'
    BY <1>1, <1>2, <1>4, LineFrame DEF IInv, DryInv, DryOutcome, Streams
  <2>2. DryInv'
    BY <1>2, <1>4, <2>1 DEF DryInv
  <2>3. LiveInv'
    BY <1>1, <1>2, <1>4, LiveFrame, DomainsAre DEF IInv
  <2> QED BY <1>2, <2>2, <2>3 DEF IInv
<1> QED BY <1>3, <1>4, DomainsAre

LEMMA RefuseKeeps == ASSUME IInv, NEW m \in Modes, Refuse(m) PROVE IInv'
<1>1. /\ pc[m] = "start" /\ ~line.help /\ ~Vetted
      /\ Fail(m, FirstRefusal) /\ UNCHANGED contractVars
  BY DEF Refuse
<1>2. /\ TypeOK' /\ ExchangeInv' /\ line' = line
      /\ pc'[m] = "done" /\ stdout'[m] = stdout[m]
      /\ stderr'[m] = FirstRefusal /\ exit'[m] = 1
      /\ \A n \in Modes \ {m} : Same(n)
  BY <1>1, FailDoes
<1>3. CASE m = "live"
  <2>1. LiveOutcome'
    BY <1>1, <1>2, <1>3, LineFrame, ExchangeFrame DEF IInv, LiveInv, LiveOutcome, Streams
  <2>2. LiveInv'
    BY <1>2, <1>3, <2>1 DEF LiveInv
  <2>3. DryInv'
    BY <1>2, <1>3, DryFrame, DomainsAre DEF IInv
  <2> QED BY <1>2, <2>2, <2>3 DEF IInv
<1>4. CASE m = "dry"
  <2>1. DryOutcome'
    BY <1>1, <1>2, <1>4, LineFrame DEF IInv, DryInv, DryOutcome, Streams
  <2>2. DryInv'
    BY <1>2, <1>4, <2>1 DEF DryInv
  <2>3. LiveInv'
    BY <1>1, <1>2, <1>4, LiveFrame, DomainsAre DEF IInv
  <2> QED BY <1>2, <2>2, <2>3 DEF IInv
<1> QED BY <1>3, <1>4, DomainsAre

LEMMA DryRunKeeps == ASSUME IInv, DryRun PROVE IInv'
<1>1. /\ pc["dry"] = "start" /\ ~line.help /\ Vetted /\ UNCHANGED contractVars
      /\ \/ Expects /\ Fail("dry", "expect-with-dry-run")
         \/ ~Expects /\ ~line.encodable /\ Fail("dry", "encode")
         \/ ~Expects /\ line.encodable /\ Succeed("dry", "dry-run")
  BY DEF DryRun
<1>2. Streams("dry", "empty", "empty", 0)
  BY <1>1 DEF IInv, DryInv
<1>3. /\ TypeOK' /\ ExchangeInv' /\ line' = line
      /\ pc'["dry"] = "done" /\ Same("live")
      /\ \/ Expects /\ Streams("dry", "empty", "expect-with-dry-run", 1)'
         \/ ~Expects /\ ~line.encodable /\ Streams("dry", "empty", "encode", 1)'
         \/ ~Expects /\ line.encodable /\ Streams("dry", "dry-run", "empty", 0)'
  <2>1. CASE Expects /\ Fail("dry", "expect-with-dry-run")
    BY <1>1, <1>2, <2>1, FailDoes, DomainsAre DEF Streams
  <2>2. CASE ~Expects /\ ~line.encodable /\ Fail("dry", "encode")
    BY <1>1, <1>2, <2>2, FailDoes, DomainsAre DEF Streams
  <2>3. CASE ~Expects /\ line.encodable /\ Succeed("dry", "dry-run")
    BY <1>1, <1>2, <2>3, SucceedDoes, DomainsAre DEF Streams
  <2> QED BY <1>1, <2>1, <2>2, <2>3
<1>4. LiveInv'
  BY <1>1, <1>3, LiveFrame DEF IInv
<1>5. DryOutcome'
  BY <1>1, <1>3, LineFrame DEF DryOutcome
<1> QED BY <1>3, <1>4, <1>5 DEF IInv, DryInv

LEMMA SendKeeps == ASSUME IInv, Send PROVE IInv'
<1>1. /\ pc["live"] = "start" /\ ~line.help /\ Vetted /\ UNCHANGED contractVars
  BY DEF Send
<1>2. CASE ~Sendable
  <2>1. Fail("live", Complaint)
    BY <1>1, <1>2 DEF Send, Sendable, Complaint
  <2>2. /\ TypeOK' /\ ExchangeInv' /\ line' = line
        /\ pc'["live"] = "done" /\ stdout'["live"] = stdout["live"]
        /\ stderr'["live"] = Complaint /\ exit'["live"] = 1
        /\ Same("dry")
    BY <1>1, <2>1, FailDoes, DomainsAre
  <2>3. LiveOutcome'
    BY <1>1, <1>2, <2>2, LineFrame, ExchangeFrame
    DEF IInv, LiveInv, LiveOutcome, Streams
  <2>4. DryInv'
    BY <2>2, DryFrame DEF IInv
  <2> QED BY <2>2, <2>3, <2>4 DEF IInv, LiveInv
<1>3. CASE Sendable
  <2>1. /\ pc' = [pc EXCEPT !["live"] = "sending"]
        /\ UNCHANGED <<line, stdout, stderr, exit>>
    BY <1>1, <1>3 DEF Send, Sendable
  <2>2. TypeOK' /\ ExchangeInv'
    BY <1>1, <2>1 DEF IInv, TypeOK, ExchangeInv, contractVars
  <2>3. pc'["live"] = "sending" /\ pc'["dry"] = pc["dry"]
    BY <2>1, DomainsAre DEF IInv, TypeOK
  <2>4. LiveInv'
    BY <1>1, <1>3, <2>1, <2>3, LineFrame DEF IInv, LiveInv, Streams
  <2>5. DryInv'
    BY <2>1, <2>3, DryFrame DEF IInv, Same
  <2> QED BY <2>2, <2>4, <2>5 DEF IInv
<1> QED BY <1>2, <1>3

LEMMA ExchangeKeeps == ASSUME IInv, Exchange PROVE IInv'
<1>1. pc["live"] = "sending" /\ ContractNext /\ UNCHANGED commandVars
  BY DEF Exchange
<1>2. TypeOK'
  BY <1>1 DEF IInv, TypeOK, commandVars, ContractNext, Transmit, Answer, GiveUp
<1>3. ExchangeInv'
  BY <1>1 DEF IInv, ExchangeInv, TypeOK, ContractNext, Transmit, Answer, GiveUp
<1>4. LiveInv'
  BY <1>1 DEF IInv, LiveInv, commandVars, Streams, Sendable, Vetted
<1>5. DryInv'
  BY <1>1 DEF IInv, DryInv, DryOutcome, commandVars, Streams, Vetted, FirstRefusal, Expects
<1> QED BY <1>2, <1>3, <1>4, <1>5 DEF IInv

\* A live run that has sent something fails for what came back, or did not.
LEMMA SendFailsKeeps ==
  ASSUME IInv, SendFails \/ ResponseUndecodable PROVE IInv'
<1>1. PICK complaint \in {"exchange", "decode-response"} :
        /\ pc["live"] = "sending" /\ UNCHANGED contractVars
        /\ Fail("live", complaint)
        /\ complaint = "exchange" => verdict = "error"
        /\ complaint = "decode-response" => verdict = "response" /\ Reading = Undecodable
  BY DEF SendFails, ResponseUndecodable
<1>2. /\ TypeOK' /\ ExchangeInv' /\ line' = line
      /\ pc'["live"] = "done" /\ stdout'["live"] = stdout["live"]
      /\ stderr'["live"] = complaint /\ exit'["live"] = 1
      /\ Same("dry")
  BY <1>1, FailDoes, DomainsAre
<1>3. LiveOutcome'
  BY <1>1, <1>2, LineFrame, ExchangeFrame DEF IInv, LiveInv, LiveOutcome, Streams
<1>4. DryInv'
  BY <1>2, DryFrame DEF IInv
<1> QED BY <1>2, <1>3, <1>4 DEF IInv, LiveInv

LEMMA PrintExchangeKeeps == ASSUME IInv, PrintExchange PROVE IInv'
<1>1. /\ pc["live"] = "sending" /\ Decoded
      /\ pc' = [pc EXCEPT !["live"] = "report"]
      /\ stdout' = [stdout EXCEPT !["live"] = "exchange"]
      /\ UNCHANGED <<line, stderr, exit>> /\ UNCHANGED contractVars
  BY DEF PrintExchange, Decoded, contractVars
<1>2. TypeOK' /\ ExchangeInv'
  BY <1>1 DEF IInv, TypeOK, ExchangeInv, contractVars
<1>3. /\ pc'["live"] = "report" /\ pc'["dry"] = pc["dry"]
      /\ stdout'["live"] = "exchange" /\ stdout'["dry"] = stdout["dry"]
  BY <1>1, DomainsAre DEF IInv, TypeOK
<1>4. LiveInv'
  BY <1>1, <1>3, LineFrame, ExchangeFrame DEF IInv, LiveInv, Streams
<1>5. DryInv'
  BY <1>1, <1>3, DryFrame DEF IInv, Same
<1> QED BY <1>2, <1>4, <1>5 DEF IInv

LEMMA ReportKeeps == ASSUME IInv, Report PROVE IInv'
<1>1. /\ pc["live"] = "report" /\ UNCHANGED contractVars
      /\ \/ ExpectationFails(Reading) /\ Fail("live", "expectation-failed")
         \/ ~ExpectationFails(Reading) /\ Succeed("live", "exchange")
      /\ Sendable /\ Decoded /\ Streams("live", "exchange", "empty", 0)
  BY DEF Report, IInv, LiveInv, Streams
<1>2. /\ TypeOK' /\ ExchangeInv' /\ line' = line
      /\ pc'["live"] = "done" /\ Same("dry")
      /\ \/ /\ ExpectationFails(Reading)
            /\ Streams("live", "exchange", "expectation-failed", 1)'
         \/ ~ExpectationFails(Reading) /\ Streams("live", "exchange", "empty", 0)'
  <2>1. CASE ExpectationFails(Reading) /\ Fail("live", "expectation-failed")
    BY <1>1, <2>1, FailDoes, DomainsAre DEF Streams
  <2>2. CASE ~ExpectationFails(Reading) /\ Succeed("live", "exchange")
    BY <1>1, <2>2, SucceedDoes, DomainsAre DEF Streams
  <2> QED BY <1>1, <2>1, <2>2
<1>3. LiveOutcome'
  BY <1>1, <1>2, LineFrame, ExchangeFrame DEF LiveOutcome
<1>4. DryInv'
  BY <1>2, DryFrame DEF IInv
<1> QED BY <1>2, <1>3, <1>4 DEF IInv, LiveInv

LEMMA StutterKeeps == ASSUME IInv, UNCHANGED sendVars PROVE IInv'
<1>1. line' = line /\ UNCHANGED contractVars /\ UNCHANGED <<pc, stdout, stderr, exit>>
  BY DEF sendVars, commandVars
<1>2. TypeOK' /\ ExchangeInv'
  BY <1>1 DEF IInv, TypeOK, ExchangeInv, contractVars
<1>3. LiveInv' /\ DryInv'
  BY <1>1, LiveFrame, DryFrame DEF IInv, Same
<1> QED BY <1>2, <1>3 DEF IInv

LEMMA StepKeeps == ASSUME IInv, [Next]_sendVars PROVE IInv'
  BY HelpKeeps, RefuseKeeps, DryRunKeeps, SendKeeps, ExchangeKeeps, SendFailsKeeps,
     PrintExchangeKeeps, ReportKeeps, StutterKeeps DEF Next, Done

THEOREM Invariance == Spec => []IInv
  BY InitEstablishes, StepKeeps, PTL DEF Spec

-----------------------------------------------------------------------------
(* The properties *)

\* Nothing reaches the network for a command line with anything wrong in it.
THEOREM NothingSentUnvettedHolds == Spec => []NothingSentUnvetted
<1>1. ASSUME IInv PROVE NothingSentUnvetted
  <2>1. SUFFICES ASSUME request = "sent" PROVE Sendable
    BY <1>1, VettedIsClean DEF NothingSentUnvetted, Sendable, IInv
  <2>2. pc["live"] \in {"start", "sending", "report", "done"}
    BY <1>1, DomainsAre DEF IInv, TypeOK
  <2> QED BY <1>1, <2>1, <2>2 DEF IInv, LiveInv, LiveOutcome, Untouched
<1> QED BY <1>1, Invariance, PTL

\* A dry run predicts the live run of the same command line.
THEOREM DryRunPredictsLiveHolds == Spec => []DryRunPredictsLive
<1>1. ASSUME IInv PROVE DryRunPredictsLive
  <2>1. SUFFICES ASSUME \A m \in Modes : pc[m] = "done"
                 PROVE  /\ stdout["dry"] = "dry-run" =>
                             stderr["live"] \in {"empty", "exchange", "decode-response"}
                        /\ exit["dry"] = 1 /\ stderr["dry"] # "expect-with-dry-run" =>
                             stderr["live"] = stderr["dry"] /\ request = "unsent"
    BY DEF DryRunPredictsLive
  <2>2. LiveOutcome /\ DryOutcome
    BY <1>1, <2>1, DomainsAre DEF IInv, LiveInv, DryInv
  <2>3. Vetted => "address" \notin line.bad
    BY <1>1, VettedIsClean DEF IInv
  <2>4. ~Expects => ~ExpectationFails(Reading)
    BY DEF Expects, ExpectationFails
  <2>5. stdout["dry"] = "dry-run" =>
          stderr["live"] \in {"empty", "exchange", "decode-response"}
    BY <2>2, <2>3, <2>4 DEF LiveOutcome, DryOutcome, Streams, Sendable
  <2>6. exit["dry"] = 1 /\ stderr["dry"] # "expect-with-dry-run" =>
          stderr["live"] = stderr["dry"] /\ request = "unsent"
    <3>1. SUFFICES ASSUME exit["dry"] = 1 /\ stderr["dry"] # "expect-with-dry-run"
                   PROVE  stderr["live"] = stderr["dry"] /\ Untouched
      BY DEF Untouched
    <3>2. CASE ~line.help /\ ~Vetted
      BY <2>2, <3>2 DEF LiveOutcome, DryOutcome, Streams, Sendable
    <3>3. CASE ~line.help /\ Vetted /\ ~line.encodable
      <4>1. Complaint = "encode" /\ stderr["dry"] = "encode"
        BY <2>2, <2>3, <3>1, <3>3 DEF Complaint, DryOutcome, Streams
      <4> QED BY <2>2, <3>3, <4>1 DEF LiveOutcome, Streams, Sendable
    <3>4. \/ ~line.help /\ ~Vetted
          \/ ~line.help /\ Vetted /\ ~line.encodable
      BY <2>2, <3>1 DEF DryOutcome, Streams
    <3> QED BY <3>2, <3>3, <3>4
  <2> QED BY <2>5, <2>6
<1> QED BY <1>1, Invariance, PTL

\* In a document a name has one spelling, so what is looked up is what is there.
LEMMA LookupIsUnique ==
  ASSUME NEW doc \in Documents, NEW path, NEW p \in DOMAIN doc.fields,
         p.name = path.name
  PROVE  Present(doc, path) /\ LookupFlatValue(doc, path) = doc.fields[p]
<1>1. \A q \in DOMAIN doc.fields : q \in Path /\ q.upper
  BY DEF Documents
<1>2. \A q \in DOMAIN doc.fields : q.name = path.name => q = p
  BY <1>1 DEF Path
<1>3. (CHOOSE q \in DOMAIN doc.fields : SamePath(q, path)) = p
  BY <1>2 DEF SamePath
<1> QED BY <1>3 DEF Present, LookupFlatValue, SamePath

\* No failure is reported exactly if everything expected is there.
LEMMA ExpectationsMean ==
  ASSUME NEW doc \in Documents, TypeOK
  PROVE  ~ExpectationFails(doc) <=>
           /\ line.expectMTI \in {"", doc.mti}
           /\ \A e \in line.expectFields :
                \E p \in DOMAIN doc.fields :
                  /\ p.name = e.path.name
                  /\ doc.fields[p] = [text |-> e.value.text, blanks |-> FALSE]
<1>1. ASSUME NEW e \in line.expectFields
      PROVE  ~Unmet(doc, e) <=>
               \E p \in DOMAIN doc.fields :
                 /\ p.name = e.path.name
                 /\ doc.fields[p] = [text |-> e.value.text, blanks |-> FALSE]
  <2>1. e.value \in [text : Texts, blanks : BOOLEAN]
    BY DEF TypeOK, CommandLine, Expectation, Value
  <2>2. TrimSpace(e.value) = [text |-> e.value.text, blanks |-> FALSE]
    <3>1. e.value = [text |-> e.value.text, blanks |-> e.value.blanks]
      BY <2>1
    <3>2. ASSUME NEW v, NEW a, NEW b, NEW c, v = [text |-> a, blanks |-> b]
          PROVE  [v EXCEPT !.blanks = c] = [text |-> a, blanks |-> c]
      BY <3>2
    <3>3. [e.value EXCEPT !.blanks = FALSE] = [text |-> e.value.text, blanks |-> FALSE]
      BY <3>1, <3>2, ZenonT(40)
    <3> QED BY <3>3 DEF TrimSpace
  <2>3. CASE \E p \in DOMAIN doc.fields : p.name = e.path.name
    BY <2>2, <2>3, LookupIsUnique DEF Unmet
  <2>4. CASE ~\E p \in DOMAIN doc.fields : p.name = e.path.name
    BY <2>4 DEF Unmet, Present, SamePath
  <2> QED BY <2>3, <2>4
<1> QED BY <1>1 DEF ExpectationFails

\* Status 0 is earned: a response came back, and it is what was expected.
THEOREM SuccessIsEarnedHolds == Spec => []SuccessIsEarned
<1>1. ASSUME IInv PROVE SuccessIsEarned
  <2>1. SUFFICES ASSUME pc["live"] = "done" /\ ~line.help
                 PROVE  exit["live"] = 0 <=>
                          Decoded /\ ~ExpectationFails(Reading)
    <3>1. Decoded => Reading \in Documents
      BY <1>1, SendCommandAssumption
      DEF Decoded, Reading, IInv, ExchangeInv, TypeOK
    <3>2. Decoded => request = "sent"
      BY <1>1 DEF Decoded, IInv, ExchangeInv
    <3> QED BY <1>1, <2>1, <3>1, <3>2, ExpectationsMean DEF SuccessIsEarned, Decoded, IInv
  <2>2. LiveOutcome
    BY <1>1, <2>1 DEF IInv, LiveInv
  <2>3. Untouched \/ verdict = "error" \/ Reading = Undecodable => ~Decoded
    BY DEF Untouched, Decoded
  <2> QED BY <2>1, <2>2, <2>3 DEF LiveOutcome, Streams
<1> QED BY <1>1, Invariance, PTL

\* Standard output has an exchange exactly when a response was decoded.
THEOREM FailureShowsResponseHolds == Spec => []FailureShowsResponse
<1>1. ASSUME IInv PROVE FailureShowsResponse
  <2>1. SUFFICES ASSUME pc["live"] = "done"
                 PROVE  stdout["live"] = "exchange" <=> Decoded
    BY DEF FailureShowsResponse, Decoded
  <2>2. LiveOutcome
    BY <1>1, <2>1 DEF IInv, LiveInv
  <2> QED BY <2>2 DEF LiveOutcome, Streams, Decoded, Untouched
<1> QED BY <1>1, Invariance, PTL

\* The command makes one exchange at most and leaves its course to SendMessage:
\* seen from the wire, runSend is the contract, whatever the dry run does beside
\* it.  What Refinement proves of SendExchange is therefore what it relies on.
THEOREM CommandKeepsContract == Spec => ContractSpec
<1>1. Init => ContractInit
  BY DEF Init
<1>2. [Next]_sendVars => [ContractNext]_contractVars
  BY DEF Next, Help, Refuse, DryRun, Send, Exchange, SendFails, ResponseUndecodable,
         PrintExchange, Report, Done, sendVars
<1> QED BY <1>1, <1>2, PTL DEF Spec, ContractSpec
=============================================================================
