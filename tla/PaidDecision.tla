---------------------------- MODULE PaidDecision ----------------------------
(***************************************************************************)
(* A paid confidential decision, end to end: calls of POST /v1/decide run  *)
(* concurrently through the x402 gate, the decision on chain, the retries  *)
(* that wait for the TEE, and the settlement of the payment.  Metering     *)
(* follows, detached.  The API and the facilitator are two processes that  *)
(* send their transactions from ONE account and let viem pick the nonce.   *)
(*                                                                         *)
(* A call is a member of Calls.  It stands for the client, its inputs and  *)
(* its payment authorization.  Its position in the server is api[c]; the   *)
(* transactions sent for it are tx["decide"][c], tx["settle"][c] and       *)
(* tx["meter"][c].  Engine and registry are the log they implement         *)
(* (DecisionLog): the entry of a decision names the call whose inputs it   *)
(* was made from.  Transactions are mined one per block.                   *)
(***************************************************************************)
EXTENDS Naturals, Sequences, FiniteSets

CONSTANTS Calls,               \* the paid calls
          Tries,               \* withRetry's tries
          Foreign,             \* whoever else calls the engine's decide()
          NoAnswer,            \* the handler has not produced an answer
          MaxForeign,          \* bound: decisions of others
          MaxCrashes,          \* bound: restarts of the server pair
          MaxRecorderChanges   \* bound: setRecorder transactions of the owner

ASSUME CallsAssumption ==
  /\ Foreign \notin Calls
  /\ NoAnswer \notin [id : Nat, result : Calls \cup {Foreign}]

ASSUME BoundsAssumption ==
  /\ MaxForeign \in Nat
  /\ Tries \in Nat \ {0}
  /\ MaxCrashes \in Nat
  /\ MaxRecorderChanges \in Nat

VARIABLES
  api,         \* api[c]: where the server is with call c
  tries,       \* tries[c]: attempts at the decryption in progress
  decisionId,  \* decisionId[c]: the id the handler works on
  answer,      \* answer[c]: the decision the handler answers, with its id
  tx,          \* tx[k][c]: the transaction of kind k sent for c
  nonce,       \* nonce[k][c]: the nonce it was prepared with
  mempool,     \* the account's accepted transactions, in nonce order
  mined,       \* how many of them are mined
  log,         \* the engine's decisions
  ready,       \* the results the TEE has computed and the gateway serves
  recorder,    \* the registry accepts the engine
  recorderChanges,
  lapsed,      \* authorizations that expired or are no longer covered
  charged,     \* calls whose payment was transferred
  metered,     \* metered[c]: records of c in the PaymentMeter
  crashes

callVars   == <<api, tries, decisionId, answer>>
walletVars == <<tx, nonce, mempool, mined>>
chainVars  == <<log, ready, recorder, recorderChanges, lapsed, charged, metered>>
vars == <<callVars, walletVars, chainVars, crashes>>

Kinds     == {"decide", "settle", "meter"}
Outputs   == {"action", "confidence"}
Ended     == {"refused", "failed", "unsettled", "delivered", "lost"}
Computing == {"deciding", "decryptingAction", "decryptingConfidence"}
Positions == {"idle", "verifying", "settling"} \cup Computing \cup Ended
TxStates  == {"idle", "new", "prepared", "sent", "success", "reverted", "rejected",
              "nonceTaken"}

Engine     == "cde"
Requesters == Calls \cup {Foreign}
MaxTxs     == 3 * Cardinality(Calls)
Decisions  == INSTANCE DecisionLog
               WITH Engines <- {Engine}, Callers <- Requesters, Blocks <- 1..MaxTxs + 1

Init ==
  /\ api = [c \in Calls |-> "idle"]
  /\ tries = [c \in Calls |-> 0]
  /\ decisionId = [c \in Calls |-> 0]
  /\ answer = [c \in Calls |-> NoAnswer]
  /\ tx = [k \in Kinds |-> [c \in Calls |-> "idle"]]
  /\ nonce = [k \in Kinds |-> [c \in Calls |-> 0]]
  /\ mempool = << >>
  /\ mined = 0
  /\ Decisions!Init
  /\ ready = {}
  /\ recorder = TRUE
  /\ recorderChanges = 0
  /\ lapsed = {}
  /\ charged = {}
  /\ metered = [c \in Calls |-> 0]
  /\ crashes = 0

Goto(c, position) == api' = [api EXCEPT ![c] = position]
SetTx(k, c, state) == tx' = [tx EXCEPT ![k][c] = state]

-----------------------------------------------------------------------------
(***************************************************************************)
(* The shared account.  viem's writeContract first reads the account's     *)
(* pending nonce and estimates the gas, which simulates the call (one that *)
(* would revert throws); it then signs and sends, and the node refuses a   *)
(* nonce already taken.                                                    *)
(***************************************************************************)
WouldRevert(k, c) == CASE k = "decide" -> ~recorder
                       [] k = "settle" -> c \in lapsed
                       [] k = "meter"  -> FALSE

Prepare(k, c) ==
  /\ tx[k][c] = "new"
  /\ nonce' = [nonce EXCEPT ![k][c] = Len(mempool)]
  /\ SetTx(k, c, IF WouldRevert(k, c) THEN "rejected" ELSE "prepared")
  /\ UNCHANGED <<callVars, mempool, mined, chainVars, crashes>>

Send(k, c) ==
  /\ tx[k][c] = "prepared"
  /\ IF nonce[k][c] = Len(mempool)
     THEN SetTx(k, c, "sent") /\ mempool' = Append(mempool, <<k, c>>)
     ELSE SetTx(k, c, "nonceTaken") /\ UNCHANGED mempool
  /\ UNCHANGED <<callVars, nonce, mined, chainVars, crashes>>

\* The next transaction of the account is mined.  It may revert even though its
\* simulation succeeded: what it depends on may have changed since.
MineDecide(c) ==
  /\ mempool[mined + 1] = <<"decide", c>>
  /\ IF recorder
     THEN /\ SetTx("decide", c, "success")
          /\ Decisions!Commit(Engine, [caller |-> c, block |-> mined + 1])
     ELSE SetTx("decide", c, "reverted") /\ UNCHANGED log
  /\ UNCHANGED <<charged, metered>>

MineSettle(c) ==
  /\ mempool[mined + 1] = <<"settle", c>>
  /\ IF c \notin lapsed
     THEN SetTx("settle", c, "success") /\ charged' = charged \cup {c}
     ELSE SetTx("settle", c, "reverted") /\ UNCHANGED charged
  /\ UNCHANGED <<log, metered>>

\* A record reverts when the meter's owner has withdrawn the facilitator's right to it.
MineMeter(c) ==
  /\ mempool[mined + 1] = <<"meter", c>>
  /\ \/ SetTx("meter", c, "success") /\ metered' = [metered EXCEPT ![c] = @ + 1]
     \/ SetTx("meter", c, "reverted") /\ UNCHANGED metered
  /\ UNCHANGED <<log, charged>>

Mine ==
  /\ mined < Len(mempool)
  /\ mined' = mined + 1
  /\ \E c \in Calls : MineDecide(c) \/ MineSettle(c) \/ MineMeter(c)
  /\ UNCHANGED <<callVars, nonce, mempool, ready, recorder, recorderChanges, lapsed, crashes>>

-----------------------------------------------------------------------------
(***************************************************************************)
(* The API process: gate, handler, settlement.                             *)
(***************************************************************************)

\* A paid request passes the guards and reaches the x402 gate.
Call(c) ==
  /\ api[c] = "idle"
  /\ Goto(c, "verifying")
  /\ UNCHANGED <<tries, decisionId, answer, walletVars, chainVars, crashes>>

\* The gate asks the facilitator's /verify.  It refuses a lapsed authorization, and
\* any call when the facilitator does not answer; otherwise the handler runs.
Verify(c) ==
  /\ api[c] = "verifying"
  /\ \/ Goto(c, "refused") /\ UNCHANGED tx
     \/ c \notin lapsed /\ Goto(c, "deciding") /\ SetTx("decide", c, "new")
  /\ UNCHANGED <<tries, decisionId, answer, nonce, mempool, mined, chainVars, crashes>>

\* Mutant: the chain is read without waiting for the receipt.
ReadDecisionAtOnce(c) ==
  LET id == Len(log[Engine]) IN
  /\ api[c] = "deciding"
  /\ tx["decide"][c] \in {"sent", "success", "reverted"}
  /\ decisionId' = [decisionId EXCEPT ![c] = id]
  /\ tries' = [tries EXCEPT ![c] = 1]
  /\ Goto(c, IF id = 0 THEN "failed" ELSE "decryptingAction")
  /\ UNCHANGED <<answer, walletVars, chainVars, crashes>>

\* waitForTransactionReceipt returns a receipt, of a success or of a revert, and the
\* handler goes on to read decisionCount, the handles and the record under that id.
\* With no decision on record getDecision reverts.  (The node is not behind the receipt it
\* gave: NeverAnOlderDecision rests on that.)
ReadDecision(c) ==
  LET id == Len(log[Engine]) IN
  /\ api[c] = "deciding"
  /\ tx["decide"][c] \in {"success", "reverted"}
  /\ decisionId' = [decisionId EXCEPT ![c] = id]
  /\ tries' = [tries EXCEPT ![c] = 1]
  /\ Goto(c, IF id = 0 THEN "failed" ELSE "decryptingAction")
  /\ UNCHANGED <<answer, walletVars, chainVars, crashes>>

\* writeContract threw: decide() would revert, or its nonce was taken.
DecideRejected(c) ==
  /\ api[c] = "deciding"
  /\ tx["decide"][c] \in {"rejected", "nonceTaken"}
  /\ Goto(c, "failed")
  /\ UNCHANGED <<tries, decisionId, answer, walletVars, chainVars, crashes>>

\* Mutant: one of the two results is taken as a sign that the other is there.
ServedEither(c, out) == \E o \in Outputs : <<decisionId[c], o>> \in ready

\* withRetry: a result the gateway does not serve yet is asked for again, Tries times
Served(c, out) == <<decisionId[c], out>> \in ready

RetryForEver(c, out) ==
  /\ ~Served(c, out)
  /\ tries' = [tries EXCEPT ![c] = IF @ < Tries THEN @ + 1 ELSE 1]
  /\ UNCHANGED <<api, decisionId, answer, walletVars, chainVars, crashes>>

Retry(c, out) ==
  /\ ~Served(c, out)
  /\ IF tries[c] < Tries
     THEN tries' = [tries EXCEPT ![c] = @ + 1] /\ UNCHANGED api
     ELSE Goto(c, "failed") /\ UNCHANGED tries
  /\ UNCHANGED <<decisionId, answer, walletVars, chainVars, crashes>>

DecryptAction(c) ==
  /\ api[c] = "decryptingAction"
  /\ \/ Retry(c, "action")
     \/ /\ Served(c, "action")
        /\ Goto(c, "decryptingConfidence")
        /\ tries' = [tries EXCEPT ![c] = 1]
        /\ UNCHANGED <<decisionId, answer, walletVars, chainVars, crashes>>

\* With the confidence the handler answers 200.  The gate holds the answer back and
\* settles first.
DecryptConfidence(c) ==
  /\ api[c] = "decryptingConfidence"
  /\ \/ Retry(c, "confidence")
     \/ /\ Served(c, "confidence")
        /\ Goto(c, "settling")
        /\ answer' = [answer EXCEPT ![c] = [id |-> decisionId[c],
                        result |-> log[Engine][decisionId[c]].caller]]
        /\ SetTx("settle", c, "new")
        /\ UNCHANGED <<tries, decisionId, nonce, mempool, mined, chainVars, crashes>>

\* An encryption, an RPC request or a decryption throws.  In the handler that is a 500
\* and no settlement; in the facilitator /settle fails.
Unsent == {"new", "prepared"}

Fault(c) ==
  /\ \/ api[c] \in Computing /\ tx["decide"][c] # "sent" /\ Goto(c, "failed")
     \/ api[c] = "settling" /\ tx["settle"][c] \in Unsent /\ Goto(c, "unsettled")
  /\ tx' = [k \in Kinds |-> [tx[k] EXCEPT ![c] = IF @ \in Unsent THEN "rejected" ELSE @]]
  /\ UNCHANGED <<tries, decisionId, answer, nonce, mempool, mined, chainVars, crashes>>

\* waitForTransactionReceipt gives up; the transaction may still be mined.
ReceiptTimeout(c) ==
  /\ \/ api[c] = "deciding" /\ tx["decide"][c] = "sent" /\ Goto(c, "failed")
     \/ api[c] = "settling" /\ tx["settle"][c] = "sent" /\ Goto(c, "unsettled")
  /\ UNCHANGED <<tries, decisionId, answer, walletVars, chainVars, crashes>>

\* Mutants: a receipt is taken for a success; a failed settlement is metered too.
SettledUnchecked(c) ==
  /\ api[c] = "settling"
  /\ tx["settle"][c] \in {"success", "reverted"}
  /\ Goto(c, "delivered") \/ Goto(c, "unsettled")
  /\ SetTx("meter", c, "new")
  /\ UNCHANGED <<tries, decisionId, answer, nonce, mempool, mined, chainVars, crashes>>

NotSettledMetered(c) ==
  /\ api[c] = "settling"
  /\ tx["settle"][c] \in {"reverted", "rejected", "nonceTaken"}
  /\ Goto(c, "unsettled")
  /\ SetTx("meter", c, "new")
  /\ UNCHANGED <<tries, decisionId, answer, nonce, mempool, mined, chainVars, crashes>>

\* /settle answers.  On success the facilitator starts metering, without waiting for
\* it, and the answer held back goes out, unless the reply is lost on the way to the
\* gate; a gate without a success answers 402.
Settled(c) ==
  /\ api[c] = "settling"
  /\ tx["settle"][c] = "success"
  /\ Goto(c, "delivered") \/ Goto(c, "unsettled")
  /\ SetTx("meter", c, "new")
  /\ UNCHANGED <<tries, decisionId, answer, nonce, mempool, mined, chainVars, crashes>>

NotSettled(c) ==
  /\ api[c] = "settling"
  /\ tx["settle"][c] \in {"reverted", "rejected", "nonceTaken"}
  /\ Goto(c, "unsettled")
  /\ UNCHANGED <<tries, decisionId, answer, walletVars, chainVars, crashes>>

\* meter() fails before it has sent anything, for want of a meter, of the right to record or
\* of anything else: the catch logs and moves on.
MeterSkipped(c) ==
  /\ tx["meter"][c] = "new"
  /\ SetTx("meter", c, "rejected")
  /\ UNCHANGED <<callVars, nonce, mempool, mined, chainVars, crashes>>

-----------------------------------------------------------------------------
\* The environment: the TEE computes a result; somebody else calls decide(), which is
\* open to all; the owner revokes or reinstates the engine as recorder; an
\* authorization passes its validity or loses its cover.
TeeCompute(id, out) ==
  /\ <<id, out>> \notin ready
  /\ ready' = ready \cup {<<id, out>>}
  /\ UNCHANGED <<callVars, walletVars, log, recorder, recorderChanges, lapsed, charged,
                 metered, crashes>>

ForeignDecision ==
  /\ recorder
  /\ Cardinality({i \in 1..Len(log[Engine]) : log[Engine][i].caller = Foreign}) < MaxForeign
  /\ Decisions!Commit(Engine, [caller |-> Foreign, block |-> mined + 1])
  /\ UNCHANGED <<callVars, walletVars, ready, recorder, recorderChanges, lapsed, charged,
                 metered, crashes>>

SetRecorder ==
  /\ recorderChanges < MaxRecorderChanges
  /\ recorder' = ~recorder
  /\ recorderChanges' = recorderChanges + 1
  /\ UNCHANGED <<callVars, walletVars, log, ready, lapsed, charged, metered, crashes>>

Lapse(c) ==
  /\ c \notin lapsed \cup charged
  /\ lapsed' = lapsed \cup {c}
  /\ UNCHANGED <<callVars, walletVars, log, ready, recorder, recorderChanges, charged,
                 metered, crashes>>

\* The launcher takes API and facilitator down together and the host restarts the
\* pair.  Every call in flight is lost; what was already sent may still be mined.
Crash ==
  /\ crashes < MaxCrashes
  /\ crashes' = crashes + 1
  /\ api' = [c \in Calls |-> IF api[c] \in Ended \cup {"idle"} THEN api[c] ELSE "lost"]
  /\ tx' = [k \in Kinds |-> [c \in Calls |->
              IF tx[k][c] \in Unsent THEN "rejected" ELSE tx[k][c]]]
  /\ UNCHANGED <<tries, decisionId, answer, nonce, mempool, mined, chainVars>>

-----------------------------------------------------------------------------
\* The steps the two processes take for a call they have accepted
ServerStep(c) ==
  \/ Verify(c) \/ ReadDecision(c) \/ DecideRejected(c) \/ ReceiptTimeout(c)
  \/ DecryptAction(c) \/ DecryptConfidence(c) \/ Settled(c) \/ NotSettled(c)
  \/ \E k \in Kinds : Prepare(k, c) \/ Send(k, c)

Next ==
  \/ \E c \in Calls : Call(c) \/ ServerStep(c) \/ Fault(c) \/ MeterSkipped(c) \/ Lapse(c)
  \/ Mine
  \/ \E id \in 1..Len(log[Engine]), out \in Outputs : TeeCompute(id, out)
  \/ ForeignDecision
  \/ SetRecorder
  \/ Crash

Spec == Init /\ [][Next]_vars

\* node runs the promises and timers of every accepted call, and every wait of the
\* server has a deadline; nothing is assumed of clients, miners, the TEE or the owner.
Fairness == \A c \in Calls : WF_vars(ServerStep(c))
FairSpec == Spec /\ Fairness

-----------------------------------------------------------------------------
TypeOK ==
  /\ api \in [Calls -> Positions]
  /\ tries \in [Calls -> 0..Tries]
  /\ decisionId \in [Calls -> Nat]
  /\ answer \in [Calls -> [id : Nat, result : Requesters] \cup {NoAnswer}]
  /\ tx \in [Kinds -> [Calls -> TxStates]]
  /\ nonce \in [Kinds -> [Calls -> Nat]]
  /\ mempool \in Seq(Kinds \X Calls)
  /\ mined \in 0..Len(mempool)
  /\ log \in [{Engine} -> Seq([caller : Requesters, block : Nat])]
  /\ ready \subseteq Nat \X Outputs
  /\ recorder \in BOOLEAN
  /\ recorderChanges \in 0..MaxRecorderChanges
  /\ lapsed \subseteq Calls
  /\ charged \subseteq Calls
  /\ metered \in [Calls -> Nat]
  /\ crashes \in 0..MaxCrashes

\* Nobody pays for nothing: a payment is transferred only for a call whose handler had
\* produced its answer, and that answer is one real decision of the engine, its action
\* and its confidence both computed by the TEE and both of that one id, whatever other
\* calls, reverts, timeouts and restarts happened meanwhile.
ChargedForADecision ==
  \A c \in charged :
    /\ answer[c] # NoAnswer
    /\ answer[c].id \in 1..Len(log[Engine])
    /\ answer[c].result = log[Engine][answer[c].id].caller
    /\ \A out \in Outputs : <<answer[c].id, out>> \in ready

\* The gate holds the answer back until the payment is in: an answer that reached the
\* client was paid for, and a call that was refused or failed is never charged, not
\* even by a transaction mined later.  Of the other calls nothing is said: one whose
\* settlement timed out, or whose reply was lost, is told 402 and may be charged later
\* all the same (c402-server/index.ts:128), and so may one that a restart has lost.
PaymentMatchesOutcome ==
  \A c \in Calls : /\ api[c] = "delivered" => c \in charged
                   /\ api[c] \in {"refused", "failed"} => c \notin charged

\* The promise of any c402 endpoint: answer, payment and delivery come in this order, through
\* concurrent calls, lost replies and restarts.
Promise == INSTANCE PaidCall
             WITH answered <- {c \in Calls : answer[c] # NoAnswer},
                  delivered <- {c \in Calls : api[c] = "delivered"}
ImplementsPaidCall == Promise!Spec

\* The handler reads the decision count only after its own transaction: the decision
\* it answers is never one that was on record before its own was committed.
NeverAnOlderDecision ==
  \A c \in Calls : \A own \in 1..Len(log[Engine]) :
    answer[c] # NoAnswer /\ log[Engine][own].caller = c => answer[c].id >= own

\* The meter counts no payment that was not transferred, and none twice; a restart
\* may lose a record but never repeats one.
MeteredAtMostOnce ==
  \A c \in Calls : metered[c] <= IF c \in charged THEN 1 ELSE 0

\* Every call the server accepts ends: each wait has a bound (tries or a timeout), so
\* a TEE that never computes, a transaction that is never mined, a lost nonce race or
\* a restart cannot leave a handler waiting for ever.
EveryCallEnds ==
  \A c \in Calls : (api[c] \notin Ended \cup {"idle"}) ~> (api[c] \in Ended)

-----------------------------------------------------------------------------
\* The claims of the protocol's documents that concurrent calls put to the test.

\* "Transaction that performed the confidential computation" (c402-spec): the decision
\* an attestation names is the one its transaction made.
AttestedTxMadeTheDecision ==
  \A c \in Calls : answer[c] # NoAnswer /\ tx["decide"][c] = "success" => answer[c].result = c

\* "on a paid request it runs a REAL confidential decision ... records a public
\* commitment" (cde-api): what a call is charged for is a decision it caused.
ChargedForOwnDecision ==
  \A c \in charged : tx["decide"][c] = "success"

\* "Metering must never break settlement" (facilitator): no settlement is rejected
\* because a metering transaction took its nonce.
MeteringNeverBreaksSettlement ==
  \A c \in Calls : tx["settle"][c] = "nonceTaken"
    => mempool[nonce["settle"][c] + 1][1] # "meter"
=============================================================================
