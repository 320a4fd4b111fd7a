------------------------------ MODULE Inspector ------------------------------
(***************************************************************************)
(* The inspector (app/inspect): decode an endpoint's 402 handshake, then   *)
(* pay it, through two routes of the control plane that call the endpoint  *)
(* for the page.  The address bar, the presets and the request body stay   *)
(* usable while an answer is awaited, and an answer may be lost after the  *)
(* endpoint was paid.                                                      *)
(*                                                                         *)
(* Urls are the endpoints and BadUrl, which the routes refuse.  Bodies are *)
(* requests and Garbled, which is not JSON.                                *)
(***************************************************************************)
EXTENDS Naturals

CONSTANTS Endpoints, BadUrl, Presets, BodyOf(_), Bodies, Garbled, None,
          MaxEdits,  \* bound: edits and presets
          MaxPays    \* bound: clicks on "Pay & run"

VARIABLES
  env,             \* settings of the deployment: a demo wallet's key, an RPC URL
  url, body,       \* the page's inputs
  decoded,         \* the handshake it shows: of which URL, and whether it is c402
  paid,            \* the result it shows: of which URL
  busy, err,       \* the page awaits "decode" or "pay"; it shows an error
  requests,        \* requests not answered
  payments,        \* number of payments the demo wallet made
  edits, pays

vars == <<env, url, body, decoded, paid, busy, err, requests, payments, edits, pays>>
Settings == {"key", "rpc"}
Urls == Endpoints \cup {BadUrl}

Init ==
  /\ env \in SUBSET Settings
  /\ url \in Presets /\ body = BodyOf(url)
  /\ decoded = None /\ paid = None /\ busy = None /\ err = FALSE
  /\ requests = {} /\ payments = 0 /\ edits = 0 /\ pays = 0

-----------------------------------------------------------------------------
Touch == edits < MaxEdits /\ edits' = edits + 1

EditUrl ==
  /\ Touch /\ url' \in Urls \ {url}
  /\ UNCHANGED <<env, body, decoded, paid, busy, err, requests, payments, pays>>

\* The request body is shown with the handshake.
EditBody ==
  /\ Touch /\ decoded # None /\ body' \in (Bodies \cup {Garbled}) \ {body}
  /\ UNCHANGED <<env, url, decoded, paid, busy, err, requests, payments, pays>>

\* Mutant: a preset resets all of the page.
PresetAll ==
  /\ Touch
  /\ \E p \in Presets : url' = p /\ body' = BodyOf(p)
  /\ decoded' = None /\ paid' = None /\ err' = FALSE /\ busy' = None
  /\ UNCHANGED <<env, requests, payments, pays>>

Preset ==
  /\ Touch
  /\ \E p \in Presets : url' = p /\ body' = BodyOf(p)
  /\ decoded' = None /\ paid' = None /\ err' = FALSE
  /\ UNCHANGED <<env, busy, requests, payments, pays>>

Free == busy = None

Decode ==
  /\ Free /\ busy' = "decode"
  /\ err' = FALSE /\ decoded' = None /\ paid' = None
  /\ requests' = requests \cup {[kind |-> "decode", url |-> url]}
  /\ UNCHANGED <<env, url, body, payments, edits, pays>>

CanPay == Free /\ decoded # None /\ decoded.canPay

Pay ==
  /\ CanPay /\ pays < MaxPays /\ pays' = pays + 1
  /\ paid' = None
  /\ IF body = Garbled
     THEN err' = TRUE /\ UNCHANGED <<busy, requests>>
     ELSE busy' = "pay" /\ err' = FALSE /\ requests' = requests \cup {[kind |-> "pay", url |-> url]}
  /\ UNCHANGED <<env, url, body, decoded, payments, edits>>

-----------------------------------------------------------------------------
Answered(r) == r \in requests /\ requests' = requests \ {r} /\ busy' = None

\* Either route: the URL is refused, the endpoint unreachable, the answer lost, ...
Fail ==
  /\ \E r \in requests : Answered(r)
  /\ err' = TRUE
  /\ UNCHANGED <<env, url, body, decoded, paid, payments, edits, pays>>

\* Mutant: the route does not look whether there is a signer.
DecodeAnsweredPayable ==
  /\ \E r \in requests, isC402 \in BOOLEAN :
       /\ r.kind = "decode" /\ r.url # BadUrl /\ Answered(r)
       /\ decoded' = [url |-> r.url, isC402 |-> isC402, canPay |-> TRUE]
  /\ UNCHANGED <<env, url, body, paid, err, payments, edits, pays>>

\* api/inspect: the endpoint's answer to an empty POST, within ten seconds.  Headers that
\* are missing or do not decode make it no c402 endpoint.  Paying is offered for the key alone.
DecodeAnswered ==
  /\ \E r \in requests, isC402 \in BOOLEAN :
       /\ r.kind = "decode" /\ r.url # BadUrl /\ Answered(r)
       /\ decoded' = [url |-> r.url, isC402 |-> isC402, canPay |-> "key" \in env]
  /\ UNCHANGED <<env, url, body, paid, err, payments, edits, pays>>

\* With key and RPC URL c402Fetch pays the URL it is given, if that asks for payment at all.
CallEndpoint ==
  /\ env = Settings
  /\ payments' \in {payments, payments + 1}

\* api/inspect/pay, whose answer arrives, or is lost after the payment.
PayAnswered ==
  /\ \E r \in requests :
       /\ r.kind = "pay" /\ r.url # BadUrl /\ Answered(r) /\ CallEndpoint
       /\ \/ paid' = [url |-> r.url] /\ UNCHANGED err
          \/ err' = TRUE /\ UNCHANGED paid
  /\ UNCHANGED <<env, url, body, decoded, edits, pays>>

-----------------------------------------------------------------------------
Next ==
  \/ EditUrl \/ EditBody \/ Preset \/ Decode \/ Pay
  \/ Fail \/ DecodeAnswered \/ PayAnswered

Spec == Init /\ [][Next]_vars

-----------------------------------------------------------------------------
\* What the proofs assume: no page is busy with None, the presets are endpoints with a body
\* each, and bounds are numbers.
PageAssumption ==
  /\ None \notin {"decode", "pay"}
  /\ Presets \subseteq Endpoints /\ \A p \in Presets : BodyOf(p) \in Bodies
  /\ {MaxEdits, MaxPays} \subseteq Nat

\* Types; only a deployment with key and RPC URL ever pays.
TypeOK ==
  /\ env \subseteq Settings /\ url \in Urls /\ body \in Bodies \cup {Garbled}
  /\ decoded = None \/ decoded \in [url : Endpoints, isC402 : BOOLEAN, canPay : {"key" \in env}]
  /\ paid = None \/ paid \in [url : Endpoints]
  /\ busy \in {None, "decode", "pay"} /\ err \in BOOLEAN
  /\ requests \subseteq [kind : {"decode", "pay"}, url : Urls]
  /\ payments \in Nat /\ (payments > 0 => env = Settings)
  /\ edits \in 0..MaxEdits /\ pays \in 0..MaxPays

\* A click is one request and at most one payment, whatever is edited or chosen meanwhile and
\* although an answer may be lost after the payment: the page is busy exactly with the one
\* request that is out, and presets, which stay usable, reset all but `busy`.
OnePaymentPerClick ==
  /\ \/ busy = None /\ requests = {}
     \/ \E r \in requests : requests = {r} /\ busy = r.kind
  /\ payments <= pays
=============================================================================
