--------------------------- MODULE ExampleServers ---------------------------
(***************************************************************************)
(* The two example servers built with c402(): hello-c402 sells decisions   *)
(* of the treasury's engine, payroll those of its own.  Both send from one *)
(* account.  hello answers as soon as the decision is on record; payroll   *)
(* waits for the TEE and decrypts the action, which only the runtime of    *)
(* its engine may.  The Nox client is made when the server starts: if that *)
(* fails before a call waits for it, the process ends.                     *)
(*                                                                         *)
(* PaidDecision has the settlement in detail.                              *)
(***************************************************************************)
EXTENDS Naturals, Sequences

CONSTANTS HelloCalls, PayrollCalls,
          None,
          Tries,       \* retry's tries
          MaxForeign   \* bound: decisions of others, cde-api's among them

VARIABLES
  runtime,   \* the account is the payroll engine's runtime
  client,    \* client[s]: its Nox client: "pending", "ready", "rejected"; "down" with the process
  api,       \* api[c]: where the server is with call c
  tx, nonce, \* its decide(): the transaction's state, and the nonce it was prepared with
  mempool, mined,
  id, tries,
  log,       \* log[s]: the decisions of the engine of s, by call
  ready,     \* the results the TEE has computed
  attested,  \* attested[c]: the decision of c's attestation, None if there is none
  charged

chain == <<log, ready>>
vars  == <<runtime, client, api, tx, nonce, mempool, mined, id, tries, log, ready, attested, charged>>

Servers == {"hello", "payroll"}
Calls   == HelloCalls \cup PayrollCalls
Of(c)   == IF c \in HelloCalls THEN "hello" ELSE "payroll"
Foreign == "foreign"

Init ==
  /\ runtime \in BOOLEAN
  /\ client = [s \in Servers |-> "pending"]
  /\ api = [c \in Calls |-> "idle"] /\ tx = [c \in Calls |-> None] /\ nonce = [c \in Calls |-> 0]
  /\ mempool = << >> /\ mined = 0
  /\ id = [c \in Calls |-> 0] /\ tries = [c \in Calls |-> 0]
  /\ log = [s \in Servers |-> << >>] /\ ready = {}
  /\ attested = [c \in Calls |-> None] /\ charged = {}

Goto(c, position) == api' = [api EXCEPT ![c] = position]
Up(c) == client[Of(c)] # "down"

-----------------------------------------------------------------------------
\* handleP
ClientMade(s) ==
  /\ client[s] = "pending" /\ client' = [client EXCEPT ![s] = "ready"]
  /\ UNCHANGED <<runtime, api, tx, nonce, mempool, mined, id, tries, chain, attested, charged>>

\* With a call waiting the rejection is that call's, and that of all after it; with none it is
\* nobody's, and node ends the process.
ClientFails(s) ==
  /\ client[s] = "pending"
  /\ client' = [client EXCEPT ![s] =
       IF \E c \in Calls : Of(c) = s /\ api[c] = "waiting" THEN "rejected" ELSE "down"]
  /\ UNCHANGED <<runtime, api, tx, nonce, mempool, mined, id, tries, chain, attested, charged>>

\* The gate has verified the payment: compute begins, and waits for the client.
Call(c) ==
  /\ Up(c) /\ api[c] = "idle" /\ Goto(c, "waiting")
  /\ UNCHANGED <<runtime, client, tx, nonce, mempool, mined, id, tries, chain, attested, charged>>

\* encryptInput, and writeContract: the account's pending nonce, then the sending.
Prepare(c) ==
  /\ api[c] = "waiting" /\ client[Of(c)] = "ready" /\ Goto(c, "sending")
  /\ nonce' = [nonce EXCEPT ![c] = Len(mempool)]
  /\ UNCHANGED <<runtime, client, tx, mempool, mined, id, tries, chain, attested, charged>>

Send(c) ==
  /\ api[c] = "sending"
  /\ IF nonce[c] = Len(mempool)
     THEN Goto(c, "deciding") /\ mempool' = Append(mempool, c) /\ tx' = [tx EXCEPT ![c] = "sent"]
     ELSE Goto(c, "failed") /\ UNCHANGED <<mempool, tx>>
  /\ UNCHANGED <<runtime, client, nonce, mined, id, tries, chain, attested, charged>>

Mine ==
  /\ mined < Len(mempool) /\ mined' = mined + 1
  /\ LET c == mempool[mined + 1] IN
       \/ tx' = [tx EXCEPT ![c] = "success"] /\ log' = [log EXCEPT ![Of(c)] = Append(@, c)]
       \/ tx' = [tx EXCEPT ![c] = "reverted"] /\ UNCHANGED log
  /\ UNCHANGED <<runtime, client, api, nonce, mempool, id, tries, ready, attested, charged>>

\* Mutant: the record is not read, and so its absence goes unnoticed.
ReadIdOnly(c) ==
  /\ api[c] = "deciding" /\ tx[c] \in {"success", "reverted"}
  /\ id' = [id EXCEPT ![c] = Len(log[Of(c)])]
  /\ Goto(c, IF c \in HelloCalls THEN "answering" ELSE "decrypting")
  /\ UNCHANGED <<runtime, client, tx, nonce, mempool, mined, tries, chain, attested, charged>>

\* The receipt, of a success or a revert; decisionCount; and the record, which reverts if none.
\* (The node is not behind the receipt it gave: ChargedForResults rests on that.)
ReadDecision(c) ==
  LET last == Len(log[Of(c)]) IN
  /\ api[c] = "deciding" /\ tx[c] \in {"success", "reverted"}
  /\ id' = [id EXCEPT ![c] = last]
  /\ Goto(c, IF last = 0 THEN "failed" ELSE IF c \in HelloCalls THEN "answering" ELSE "decrypting")
  /\ UNCHANGED <<runtime, client, tx, nonce, mempool, mined, tries, chain, attested, charged>>

\* Mutant: a retry that is used up answers all the same.
RetryUnchecked(c) ==
  /\ api[c] = "decrypting"
  /\ IF runtime /\ <<"payroll", id[c]>> \in ready
     THEN Goto(c, "answering") /\ UNCHANGED tries
     ELSE /\ tries' = [tries EXCEPT ![c] = @ + 1]
          /\ IF tries[c] + 1 < Tries THEN UNCHANGED api ELSE Goto(c, "answering")
  /\ UNCHANGED <<runtime, client, tx, nonce, mempool, mined, id, chain, attested, charged>>

\* retry: "not yet computed" and a denial look alike, and are asked for again.
Retry(c) ==
  /\ api[c] = "decrypting"
  /\ IF runtime /\ <<"payroll", id[c]>> \in ready
     THEN Goto(c, "answering") /\ UNCHANGED tries
     ELSE /\ tries' = [tries EXCEPT ![c] = @ + 1]
          /\ IF tries[c] + 1 < Tries THEN UNCHANGED api ELSE Goto(c, "failed")
  /\ UNCHANGED <<runtime, client, tx, nonce, mempool, mined, id, chain, attested, charged>>

\* run: the attestation is made; the gate holds the answer back and settles.
Answer(c) ==
  /\ api[c] = "answering" /\ Goto(c, "settling")
  /\ attested' = [attested EXCEPT ![c] = id[c]]
  /\ UNCHANGED <<runtime, client, tx, nonce, mempool, mined, id, tries, chain, charged>>

\* The payment is transferred, as the facilitator's settlement does sooner or later or never;
\* the gate learns of it or does not.
Transfer(c) ==
  /\ attested[c] # None /\ c \notin charged /\ charged' = charged \cup {c}
  /\ UNCHANGED <<runtime, client, api, tx, nonce, mempool, mined, id, tries, chain, attested>>

\* Mutant: a settlement that did not succeed is taken for one that did.
SettledUnchecked(c) ==
  /\ api[c] = "settling" /\ (Goto(c, "delivered") \/ Goto(c, "unsettled"))
  /\ UNCHANGED <<runtime, client, tx, nonce, mempool, mined, id, tries, chain, attested, charged>>

Settled(c) ==
  /\ api[c] = "settling"
  /\ (c \in charged /\ Goto(c, "delivered")) \/ Goto(c, "unsettled")
  /\ UNCHANGED <<runtime, client, tx, nonce, mempool, mined, id, tries, chain, attested, charged>>

\* Anything awaited throws: 500, and no settlement.
Fail(c) ==
  /\ api[c] \in {"waiting", "sending", "deciding", "decrypting"}
  /\ api[c] = "waiting" => client[Of(c)] # "pending"
  /\ Goto(c, "failed")
  /\ UNCHANGED <<runtime, client, tx, nonce, mempool, mined, id, tries, chain, attested, charged>>

-----------------------------------------------------------------------------
TeeCompute(s, i) ==
  /\ <<s, i>> \notin ready /\ ready' = ready \cup {<<s, i>>}
  /\ UNCHANGED <<runtime, client, api, tx, nonce, mempool, mined, id, tries, log, attested, charged>>

ForeignDecision(s) ==
  /\ Len(SelectSeq(log[s], LAMBDA d : d = Foreign)) < MaxForeign
  /\ log' = [log EXCEPT ![s] = Append(@, Foreign)]
  /\ UNCHANGED <<runtime, client, api, tx, nonce, mempool, mined, id, tries, ready, attested, charged>>

Next ==
  \/ \E s \in Servers :
       \/ ClientMade(s) \/ ClientFails(s) \/ ForeignDecision(s)
       \/ \E i \in 1..Len(log[s]) : TeeCompute(s, i)
  \/ \E c \in Calls :
       \/ Call(c) \/ Prepare(c) \/ Send(c) \/ ReadDecision(c) \/ Retry(c) \/ Answer(c) \/ Transfer(c)
       \/ Settled(c) \/ Fail(c)
  \/ Mine

Spec == Init /\ [][Next]_vars

-----------------------------------------------------------------------------
\* What the proofs assume: each call is to one of the servers, no one else's, and tried.
ServerAssumption ==
  /\ HelloCalls \cap PayrollCalls = {} /\ Foreign \notin Calls /\ Tries \in Nat \ {0}
  /\ None \notin Nat /\ None \notin {"sent", "success", "reverted"}

\* Types; an attestation names a decision on record.
TypeOK ==
  /\ runtime \in BOOLEAN
  /\ client \in [Servers -> {"pending", "ready", "rejected", "down"}]
  /\ api \in [Calls -> {"idle", "waiting", "sending", "deciding", "decrypting", "answering",
                        "settling", "delivered", "unsettled", "failed"}]
  /\ tx \in [Calls -> {None, "sent", "success", "reverted"}]
  /\ mempool \in Seq(Calls) /\ mined \in 0..Len(mempool)
  /\ \A c \in Calls : /\ attested[c] # None => attested[c] \in 1..Len(log[Of(c)])
                      /\ tries[c] \in 0..Tries

\* What a call is charged for was decided no earlier than its own decision, though reverts
\* are not noticed and others decide meanwhile; and the payroll charges for results only: the
\* TEE had computed the decision and the server could decrypt it.
ChargedForResults ==
  \A c \in charged :
    /\ \A own \in 1..Len(log[Of(c)]) : log[Of(c)][own] = c => attested[c] >= own
    /\ c \in PayrollCalls => runtime /\ <<"payroll", attested[c]>> \in ready

\* Examples and cde-api keep the same promise: answer, payment, delivery, in this order.
Promise == INSTANCE PaidCall
             WITH answered <- {c \in Calls : attested[c] # None},
                  delivered <- {c \in Calls : api[c] = "delivered"}
ImplementsPaidCall == Promise!Spec
=============================================================================
