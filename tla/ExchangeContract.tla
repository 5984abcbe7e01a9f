-------------------------- MODULE ExchangeContract --------------------------
(***************************************************************************)
(* What one `send` promises its caller, whatever the peer does: a single   *)
(* request, and then either an answer the peer's reply entitles it to, or  *)
(* an error.  An answer never comes before the whole request has left; an  *)
(* error may come at any time, so it does not say whether the request was  *)
(* acted on.  Nothing is ever sent again.                                  *)
(***************************************************************************)
EXTENDS Naturals

VARIABLES
  answers,   \* lengths of response that the peer's reply entitles to
  request,   \* "unsent" or "sent" (whole)
  verdict,   \* "pending", "response" or "error"
  response   \* the length of the response returned, 0 without one

contractVars == <<answers, request, verdict, response>>

ContractInit ==
  /\ answers \subseteq Nat
  /\ request = "unsent"
  /\ verdict = "pending"
  /\ response = 0

Transmit ==
  /\ verdict = "pending"
  /\ request = "unsent"
  /\ request' = "sent"
  /\ UNCHANGED <<answers, verdict, response>>

Answer ==
  /\ verdict = "pending"
  /\ request = "sent"
  /\ verdict' = "response"
  /\ response' \in answers
  /\ UNCHANGED <<answers, request>>

GiveUp ==
  /\ verdict = "pending"
  /\ verdict' = "error"
  /\ UNCHANGED <<answers, request, response>>

ContractNext == Transmit \/ Answer \/ GiveUp

ContractSpec == ContractInit /\ [][ContractNext]_contractVars
=============================================================================
