# c402: a TLA+ verification project

c402 sells confidential decisions. A client pays for an HTTP call over x402; the server
runs the decision inside the iExec Nox TEE through an engine contract, the engine records a
public commitment, and the client gets the decision with an attestation. This project models
the parts of the repository whose behaviour is hard to test, checks them with TLC on small
instances and proves the central claims with TLAPS. Paths below are relative to the repository.

## Inventory

| part | source | state it keeps | operations |
|---|---|---|---|
| Confidential engines | `contracts/contracts/CDE.sol`, `PayrollCDE.sol` | encrypted thresholds, runtime, `decisionCount`, handles per id | `setPolicy`, `set…Runtime`, `decide` |
| DecisionRegistry | `contracts/contracts/DecisionRegistry.sol` | recorders, record per id, count | `setRecorder`, `record`, `getDecision` |
| Nox (external) | used through `Nox.sol` and `@iexec-nox/handle` | a ciphertext and an access list per handle | store, allow, compute later, decrypt |
| cde-api | `apps/cde-api/index.ts` | one handler per call in flight, the shared wallet | `runConfidentialDecision`, `withRetry` |
| guards | `apps/cde-api/guards.ts` | window per IP, daily count, cached balance | `rateLimit`, `dailyCap`, `gasGuard` |
| @c402/server | `packages/c402-server/src/index.ts` | none of its own | price, advertise, gate, run |
| facilitator | `apps/facilitator/index.ts` | the shared wallet, detached metering | `/verify`, `/settle`, `meter` |
| PaymentMeter | `contracts/contracts/PaymentMeter.sol`, `apps/cde-api/scripts/read-meter.ts` | encrypted count and total per payer, grand total | `record`, `setRecorder`, decrypt |
| launcher | `scripts/start-public-endpoint.ts` | two child processes, two ports | start, wait for health, shut down together |
| @c402/verify, @c402/spec | `packages/c402-verify`, `packages/c402-spec` | none; reads a chain that moves on | `verifyAttestation`, codecs |
| @c402/client | `packages/c402-client` | none | `c402Fetch` |
| EventBus, SDK, treasury loop | `contracts/contracts/EventBus.sol`, `packages/sdk`, `apps/runtime` | events, Safe balances, activity log | publish, consume, execute, append |
| adapters | `packages/adapters` | a deployed Safe's address | swap batches, Safe batches, demo script |
| control plane | `apps/control-plane` | wallet connection, Safe shown, inspector, polled state | connect, check, decode, pay, poll |
| command lines | `packages/cli`, `packages/c402-cli` | none | run, call, verify |
| examples | `examples/hello-c402`, `examples/payroll` | a decision handler each, on one account | compute |
| deployment | `contracts/scripts` | address files | four scripts of transactions and reads |

How they interact: a request passes the guards and the x402 gate; the gate asks the
facilitator to verify the payment; the handler sends `decide()`, reads the chain, waits for
the TEE and answers; the gate holds the answer back, has the facilitator settle, and lets it
out. Settlement starts metering without waiting for it. API and facilitator are two
processes that use ONE account and pick nonces independently. On the client's side a treasury
loop buys a decision, publishes it on the EventBus, reads it back and swaps from a Safe; the
control plane verifies, pays and polls in a browser whose wallet changes under it.

What is hard, and what has to hold:

* **Engines and registry.** The TEE computes after the transaction, from operands fixed in
  it, while the owner may replace thresholds, rotate the runtime or revoke the recorder. An id
  must name one decision for ever, its result must follow the policy of its own moment, and
  its action must be readable by the right accounts and no other.
* **Paid calls.** Concurrent handlers read `decisionCount` after their own receipt; receipts
  may be of reverts; the TEE, the miner and the RPC node may never answer; a restart loses
  handlers but not transactions. Nobody may pay for nothing or be answered without paying, and
  every call must end.
* **Guards and gas.** Windows and days turn while requests are in progress; balance reads
  overlap; several calls share one cached balance.
* **Meter.** Each sum is a new ciphertext that somebody has to be allowed to add to; sums wrap.
* **Processes.** One of two children ends, a port is still held, a launcher gives up or is
  killed, a deployment stops between two transactions and is run again.
* **Treasury loops.** Overlapping loops share a bus, a Safe and a log file.
* **Verification and pages.** Reads of a moving chain through nodes that lag; answers that
  arrive after newer ones, or after what they were asked for is gone.

## Modules

| module | models | depends on |
|---|---|---|
| `DecisionLog` | the promise of an engine: an append-only log of decisions | |
| `PaidCall` | the promise of a c402 endpoint: answer, then payment, then delivery | |
| `Policy` | the branchless select chains of both engines, and the documented decision table (`Expected`) | |
| `ConfidentialEngine` | CDE, PayrollCDE, DecisionRegistry and Nox | `Policy`, implements `DecisionLog` |
| `PaidDecision` | cde-api, @c402/server, facilitator, metering, restart, over an engine | composes `DecisionLog`, implements `PaidCall` |
| `ExampleServers` | hello-c402 and payroll side by side on one account | implements `PaidCall` |
| `Guards` | the three guards in front of the gate | |
| `Operator` | gas guard, account balance and the transactions of calls that go on for ever | |
| `AtomicPrice` | `toAtomic` | |
| `PaymentMeter` | the meter, its viewers, and `read-meter.ts` | |
| `Launcher` | the launcher, its children and their ports, over several runs | |
| `Deployment` | the four deployment scripts as plans | |
| `SafeDemo` | `deploySafe`, `execSafeBatch` and `phase3-demo.ts` | |
| `TreasuryLoop` | `xcat run`, `run-loop.ts`, agents, SDK, EventBus, Safe, log | |
| `Verification` | `verifyAttestation`, `c402Fetch`, `c402 verify`, `xcat verify`, the verify pages | |
| `Wallet` | `wallet.tsx` and `WalletButton.tsx` against a wallet | |
| `Onboarding` | `app/treasury/page.tsx` with `/api/safe` and the portfolio poll | composes `Wallet` |
| `Inspector` | `app/inspect/page.tsx` with its two routes | |
| `Dashboard` | the pages that poll, and the reads their routes make | |
| `Services` | the service side beside the paid call, one part at a time | composes `PaymentMeter`, `Launcher`, `Operator`, `ExampleServers`, `AtomicPrice`, `Deployment`, `SafeDemo` |
| `Clients` | the client side beside the paid call, one part at a time | composes `Verification`, `TreasuryLoop`, `Onboarding`, `Inspector`, `Dashboard` |
| `EngineProofs`, `PaidDecisionProofs`, `GuardsProofs`, `VerificationProofs`, `PaymentMeterProofs`, `TreasuryLoopProofs` | theorems about the module each is named for | |
| `ControlPlaneProofs` | theorems about `Wallet`, `Onboarding`, `Inspector` and `Dashboard`, and about `Clients` | |
| `ServicesProofs` | theorems about `ExampleServers`, `Operator`, `AtomicPrice`, `Launcher`, `Deployment` and `SafeDemo`, and about `Services` | |
| `MCEngine`, `MCTreasury`, `MCPaid`, `MCGuards`, `MCServices`, `MCClients` | instances for TLC | |

How state and actions correspond to the code:

**ConfidentialEngine.** One action is one successful transaction, with every call it makes; a
revert is the absence of a step. Handles are positions in two sequences: `sealed` for the
thresholds, `derived` for the results of `decide()`. A result carries the handles of the
thresholds it was made from, its access list, and `Pending` until `TeeCompute`. `history` is
what was true when an id was decided; it feeds properties and no guard. `onlyOwner` appears as
the set of senders: there is one owner and its actions have no sender parameter. The
commitment is the tuple of the hashed, fixed-width fields, that is, a hash without collisions.

**PaidDecision.** `api[c]` is where the server is with call `c`; `tx[k][c]` is the state of
the transaction of kind `k` (decide, settle, meter) it sent. `Prepare` reads the account's
pending nonce and simulates, `Send` submits; between the two any other transaction of the
account may take the nonce. `Mine` mines the account's next transaction and executes it, which
may revert although its simulation (viem's gas estimate) passed. A node could also let a
transaction replace a pending one of the same nonce at a higher fee; here it is refused.
`Fault` stands for every exception of an encryption, an RPC request or a decryption,
`ReceiptTimeout` for viem giving up on a receipt, `Lapse` for an authorization that expires or
loses its cover, `Crash` for the launcher's joint shutdown. The engine is its abstraction,
`DecisionLog`, which `EngineProofs` proves sound. The node that gave a receipt is not behind it in the
reads that follow (one RPC URL, one view of the chain): `NeverAnOlderDecision`, `ChargedForResults` and
`ActsOnNoOlderEvent` rest on that, while `Verification` has nodes that lag. Metering may revert when it is
mined, as `PaymentMeter.record` does for who is no recorder. `ExampleServers` has the same calls with the
examples' handlers in place of cde-api's, and settlement in one step.

**Guards and Operator.** Time is in ticks, so windows, cache and day are a few ticks long.
`rateLimit` and `dailyCap` are synchronous and form one action with the first half of
`gasGuard`; its await splits the rest into `ReadBalance` (the node reads), `BalanceAnswered`
and `BalanceFailed`. `MIN_GAS_WEI` is set (with 0 the gas guard is a no-op). `Guards` counts
requests and dates balances, `Operator` follows what a balance is spent on: there times are
ages and spending is counted up to the minimum, so that calls can go on for ever and liveness
can be stated.

**PaymentMeter.** A word is a value and its viewers; `record` makes three new words and allows
each to the meter and the owner, as `allowThis` and `allow` do. `reader` is where `read-meter.ts` is, and
"leak" where its stranger could decrypt. `calls`, `paid` and `revenue` are what
was recorded in clear; no action reads them.

**Launcher, Deployment, SafeDemo.** Runs are numbered and what they made carries the run's
number, so that a child, a contract or a transaction of an earlier run meets a later one. A
deployment script is a sequence of steps consumed from the front; every step may fail, and a
transaction may revert when it is mined (`lost`), which no script notices. `Callee` is whom a transaction
calls: what is sent to an address without code succeeds and does nothing.

**AtomicPrice.** A price is its parts, as `split(".")` gives them, and a part its characters, as numbers: a
hexadecimal digit is its value, and signs, white space, the letters of radix prefixes and anything else have
one each. `BigInt` is what ECMAScript makes of such a string.

**TreasuryLoop.** `pc[l]` is the await a loop stands at; `code`, `event`, `receipt` and
`snapshot` are its locals. The Safe's nonce, balances and the log file are shared. `Proceed` is
any step of the loop's own, `Stop` ends a process anywhere, also between truncating the log
and writing it (`Torn`). An event is its publisher and what the operator decrypts of it, which is
`Nothing` if its publisher did not name the operator a subscriber.

**Verification.** One action per read; the chain moves on between them and a read may fail or
come from a node that lags. An attestation is any record whose optional fields may be absent. It
declares a network; registries, transactions and the verifier's node have theirs (`NetworkOf`, `node`).
Coordinator and output handles, which no check reads either, are left out.

**Wallet, Onboarding, Inspector, Dashboard.** State is the React state, by its name, and what is
on its way: `wire` is the wallet's one message stream, requests and polls are answered in any
order. An effect's cleanup is the `live` flag of the code. A portfolio is represented by the
Safe it belongs to. Owners change on chain (`owners`); the page keeps those its check has read (`info`).

Operators commented "Mutant" are plausible bugs, one per property: put in the place of the
definition that follows, each makes TLC find its property violated.

## Runs

| run | question | bounds |
|---|---|---|
| `engines` (`MCEngine.cfg`) | do two engines with a registry each stay apart and agree? | one decision each, 4 ciphertexts, numbers {0, 1}: below, at and above a threshold |
| `treasury` (`MCTreasury.cfg`) | replaced thresholds, rotated runtime, revoked recorder between a decision and its computation | two decisions, two policies, two runtimes, two blocks |
| `paid` (`MCPaid.cfg`) | who is charged and for what; is a `PaidCall` implemented? | two calls, one foreign decision, one restart, one recorder change |
| `paid_ends` (`MCPaidLive.cfg`) | does every accepted call end? | two calls, two tries, one restart, one recorder change |
| `guards` (`MCGuards.cfg`) | what do rate limit, cap and gas guard bound? | two callers, four requests, limit 2, cap 2, windows and cache of one tick, a day of three |
| `services` (`MCServices.cfg`) | the service side's other parts, one per behaviour | see below |
| `clients` (`MCClients.cfg`) | the client side's parts, one per behaviour | see below |

Why the bounds are enough: two engines, two calls and two callers are what an interference
needs, and a second decision, window or day is what a stale value of the first needs. In
`guards` two requests in each of two windows are what the limit's bound needs: a minute that straddles them
holds three, and four if a window opened a tick early;
the cap is reached while the balance of an earlier request is being read, and the day turns
within the run. One try is enough in `paid`: a call that waits longer for the TEE is one whose
step is taken later, and the number of tries is read by nothing else; `paid_ends` uses two.
Deadlock is not checked: every model may stop at its bounds, and the system may be idle for
ever.

`services` and `clients` each run several parts. The parts share no state in the code and no
variable in the model; `part` says which of them moves, and does not change, so the behaviours
of such a run are those of its parts, put side by side. In the
instances a part that does not move is held in one initial state, which multiplies nothing; the
modules `Services` and `Clients` leave it open, and the theorems are about them. `MCClients` also starts the
verifier's node on one of two networks that are alike, and the wallet without its second account, whose
part the wallet's change can play. An invariant of a part holds of the run exactly
if it holds of the part; fairness and liveness are stated for the behaviours in which the part
moves.

| part of `services` | what is asked | bounds |
|---|---|---|
| meter | `WordsStayServiceable`, `SumsAreOfWhatWasPaid` | words of two bits, five settlements of 0, 1 or 3: sums wrap up to three times |
| launcher | `NobodyIsLeftBehind`, `ApiBehindFacilitator`, `HalfPairEnds` | four launchers, two checks each: an orphan, its successor that cannot listen, and a third |
| operator | `FailsOnlyWhenOthersSpent`, `FollowsTheBalance` | two callers for ever, minimum 2, refills up to 3, cache of one tick: one call's gas is covered, two are not |
| examples | `ChargedForResults`, `ImplementsPaidCall` | one call to each server, one decision of somebody else, two tries |
| price | `AmountIsThePrice` | parts of up to three of 0, 9, minus and a character that is in no number, and some with white space, a plus or a radix prefix; no point, one or two; up to two decimals: too few and too many digits, empty parts |
| deployment | `PublishedIsReady` | two runs of any scripts, overlapping or rerun, any transaction reverting, two decisions of others |
| demo | `UndisturbedVerdict` | three runs, two batches of others, a swap that gains two steps |

| part of `clients` | what is asked | bounds |
|---|---|---|
| loop | `ActsOnNoOlderEvent`, `LoneSwapSucceeds`, `LogKeepsRecent`, `EveryLoopEnds` | two overlapping loops, a publish that reverts, one event of somebody else with any payload, readable or not, a portfolio and prices that lead to every action, a Safe that must be topped up, a log of one |
| verification | `ValidIsSound`, `SoundIsValid` | two applications with an engine and a registry each, on two networks, two decisions each, one transaction, every shape of attestation |
| onboarding | `AtRestShowsTheWallet`, `NeverStuckConnecting`, `BelongsToShownSafe` | two accounts, two networks, two Safes with one owner each, one of which is changed, one change in the wallet, one click, two checks |
| inspector | `OnePaymentPerClick` | two presets and one typed endpoint, a bad URL, a body that is no JSON, three edits, two payments, a deployment with any of key and RPC URL |
| dashboard | `OneAnswerIsConsistent`, `Converges` | two polls that overtake each other, two decisions, one event, one redeployment, a list of one |

Five further runs show where the code departs from what its documents say:

* `attested_tx`: two calls' `decide()` are mined before either reads `decisionCount`; both answer the
  later decision, one of them under the transaction of the earlier (`apps/cde-api/index.ts:101`
  against `packages/c402-spec/src/index.ts:71`).
* `own_decision`: a `decide()` reverts when mined, because the recorder was revoked after its
  simulation; the handler goes on with the previous decision and its client is charged
  (`apps/cde-api/index.ts:99` against lines 6-8).
* `meter_nonce`: a detached metering transaction takes the nonce a settlement was prepared with
  (`apps/facilitator/index.ts:89` against line 77).
* `probes`: unpaid price requests use up the limit on "paid decisions" (`apps/cde-api/guards.ts:25`
  against line 30; the daily cap's message, line 49, has the same wording).
* `logged_swaps`: two loops sign under one Safe nonce, the second batch reverts when mined, and both
  are logged as executed (`packages/sdk/src/execute.ts:54` against `packages/sdk/src/activity.ts:29`).

Other divergences, met while modelling and kept in the models as the code has them:

* `packages/sdk/src/eventbus.ts:24` returns the current `eventCount` as the id of the event just
  published, and `contracts/scripts/deploy-and-verify.ts:113` the current `decisionCount` as its own
  decision: with somebody else's transaction in between both are another's. `eventbus.ts:29` decrypts the
  event under an id whoever published it, and `contracts/contracts/EventBus.sol:27` lets anybody name the
  operator a subscriber, so that the treasury agent may act on it.
* Receipts are awaited and their status is not looked at: `packages/sdk/src/eventbus.ts:23`, after whose
  reverted `publish` the agent acts on an older event; `contracts/scripts/deploy-and-verify.ts:52` and
  `:60`, after whose reverted `decide` somebody else's decision may be checked and published under the
  script's own `decideTx`; `contracts/scripts/deploy-payment-meter.ts:31` and `:36` and
  `deploy-eventbus.ts`, which print the address of a meter that has no recorder or of a contract that is
  not there.
* `packages/c402-server/src/index.ts:82`: a price is what JavaScript's `split` and `BigInt` make of it. "1.2.3" is
  charged as 1.2, "0x10" as 16, " 1 " as 1, "-0.5" as 0.5 and "-1.5" as -0.5 (the sign is the whole part's alone);
  only what `BigInt` does not read is refused.
* `contracts/contracts/CDE.sol:31` calls the present runtime "the only address permitted to decrypt decision
  actions" and line 40 the actions "treasuryRuntime only": a runtime that was rotated away keeps the access to
  the actions of its time (`SelectiveDecryption` says so).
* `packages/sdk/src/execute.ts:29`: the default step is 1 USDC, and 10^-12 WETH when hedging, although
  its comment says "(or equivalent)".
* `packages/c402-verify/src/index.ts:48` reads the RPC URL it is given whatever network the attestation
  declares, so that an attestation may be valid on another network than that, although lines 5 and 6 say
  "on the declared network"; coordinator and output handles are not checked at all; and
  `packages/c402-cli/src/index.ts:145` gives the registry for the contract when `--cde` is
  missing, so that a decision verified by its id alone is always called invalid.
* `apps/control-plane/lib/chain.ts:233` verifies an attestation without its tx, so one of the MUSTs of
  `packages/c402-spec/SPEC.md` 3.3 is skipped; `app/app/page.tsx:250` joins that verdict with the tx of
  the last logged loop, and line 72 joins log entries with decisions by id alone, across deployments;
  `components/HeroHandshake.tsx:48` says "verified on-chain" of every latest decision.
* `apps/control-plane/lib/wallet.tsx:45` reconnects on load what was disconnected before, as disconnecting
  is kept nowhere; `app/inspect/page.tsx:49` pays the URL in the address bar, not the one decoded;
  `app/api/inspect/route.ts:42` offers to pay for a key alone, where `pay/route.ts:20` wants an RPC URL too;
  `app/app/treasury/page.tsx:48` judges by the owners read at the check, however long ago that is.
* `packages/c402-server/src/index.ts:128`: a call whose settlement timed out, or whose settlement's reply was
  lost, is told 402 and may be charged all the same. `PaymentMatchesOutcome` says nothing of it.
* `apps/cde-api/scripts/read-meter.ts:35` reads three handles one after another while recording goes on,
  and line 57 takes any failure for the denial it is to show.
* `contracts/scripts/deploy-payroll.ts:106` writes its file before it checks the first decision, and
  `packages/adapters/scripts/phase3-demo.ts:91` judges its own swap by a balance others change.
* `apps/cde-api/guards.ts:71`: calls that share one cached balance may together spend more than it.
* `examples/hello-c402/server.ts:54` attests a decision before it is computed; `apps/cde-api/index.ts:64`
  keeps a failed Nox client for ever.

## Fairness

* `paid_ends`: weak fairness of the steps the two processes take for an accepted call
  (`ServerStep`), because node runs every promise and timer that is due. Tries and receipt
  timeouts are steps of the server, so nothing is assumed of the TEE, the miners, the clients or
  the owner, and that is the point of the run.
* `HalfPairEnds`: weak fairness of `OnExit`: the runtime delivers a child's exit event. Nothing is
  assumed of the children, which end when they like or never.
* `FollowsTheBalance`: time passes, and a balance read is answered or given up, as viem's transport
  times out. Callers, refills and transactions are not assumed to happen.
* `EveryLoopEnds`: a loop that runs proceeds (`Proceed`); retries, failures and receipts of reverts are
  among its steps, so neither Nox nor anybody's publishing is assumed to help.
* `Converges`: the page's timer fires and each read of a poll is answered or fails; the property itself
  says "once the node stays up".

Guards and engines are not claimed to progress, and no fairness is strong.

## Refinement

`DecisionLog` says what anybody may rely on about an engine: ids are given in order, once, and what is
recorded under an id stays. `ConfidentialEngine` implements it (`ImplementsLog`), `PaidDecision` is
composed with it. `PaidCall` says what an endpoint promises a caller: an answer before the charge, the
charge before the delivery, none undone. `PaidDecision` and `ExampleServers` implement it
(`ImplementsPaidCall`), through restarts, reverts and lost replies.

## Proofs

**`EngineProofs`**, for every set of engines, callers, runtimes and numbers and every bound:

* `Typing` and `PolicyStaysAccessible`. They are one induction (`TypeInv`): the thresholds
  recorded with a decision are numbers only because the policy's handles exist.
* `RecordsAlwaysAgree`: engine, registry and commitments agree. `LogSteps` splits every step into
  a `decide()` and a step that leaves the log alone; `OwnRegistry` keeps engines apart.
* `ImplementsDecisionLog`: refinement of `DecisionLog`. It needs `BlocksOrdered` (no decision is
  more recent than the current block) and reads the log through `RecordsAgree`.
* `DecryptionIsSelective` and `DecisionsFollowPolicy`, both from `OutputsInv`: the two handles of
  every decision are ciphertexts made for it, over the inputs and the threshold values of its
  transaction, and, once computed, hold the policy's outcome. Later thresholds only append
  ciphertexts, so the old ones keep their values. `OutcomeIsExpected` shows that the select chains
  compute the documented table for all numbers.

**`PaidDecisionProofs`**, for every set of calls and any number of tries, restarts, recorder changes
and decisions of others: `ChargesAreForDecisions`, `PaymentsMatchOutcomes`, `AnswersAreNoOlder`,
`MeteringIsAtMostOnce` and the refinement `KeepsThePromise`, that is, all safety properties of the run
`paid`. None is inductive alone. The invariant (`Invariance`) adds three parts to the types: `Phases`,
what the states of a call's three transactions allow its position in the server to be, which is what
survives a restart; `Pending`, that the account's transactions are different ones and those not yet
mined are as sent, without which one could be executed twice; and `Answers`, that the id a handler
decrypts and answers was on record once its own transaction was mined, with all outputs it needs
ready. A reverted `decide()` leaves no decision of its own, and so no older one to answer. Three
further sections rest on that invariant:

* *When the documents' claims hold.* Three runs refute what documents say; the theorems say what it takes
  to make it true. `OwnUntilTheRecorderChanges`: every charge is for a decision of the client's own call as
  long as the recorder has not been changed, whatever else interleaves. `LoneCallsKeepTheirNonces`: a call that
  is alone on the account loses no nonce, to its metering neither. `LoneAttestationsAreTheirOwn`: the
  transaction an attestation names made its decision where the call is alone and nobody else decides. A
  call is alone when every other is still idle (`Alone`); one that ended may have left transactions.
* *The log.* `PaidDecision` commits decisions through `DecisionLog`, whose guard could silently keep a
  transaction from being mined. `TheLogIsInOrder` shows that it never does, as blocks follow each other, and
  `PaidCallsKeepTheLog` that every step of `PaidDecision` is one of `DecisionLog` or leaves the log alone. The
  latter assumes finitely many calls: the log's bound on blocks is three transactions a call.
* *Why every call ends.* `StepsLeft` counts what the server may still have to do for a call: positions of the
  handler left to pass, tries left, and per transaction a `Prepare` and a `Send`. `StepsRunOut` shows that
  no step of anybody raises it and each `ServerStep` lowers it, `CallsTakeBoundedlyManySteps` that it
  starts at `2 * Tries + 10`, and `CallsAreNeverStuck` that a call which has not ended meets the conditions of
  one of the server's steps (`HasAStep`, the guards written out). A call whose server keeps
  stepping therefore ends. `EveryCallEnds` itself, which adds weak fairness and ENABLED, stays with TLC.

**`GuardsProofs`**, for every number of callers, limit, cap, window, cache time and day length:
`BalancesAreFresh`, `DaysAreCapped` and `MinutesAreBounded`, all properties of the run `guards`.
`FreshInv` dates answers that are on their way, since they overwrite the cache in any order. `DayInv`
bounds the requests of every day by the cap, those of the counter's own day by the counter, and
says that no later day has any. `WindowInv` counts a caller's requests in its current window and in as
long a time before it: the counter bounds the former, and the latter lies within the window before,
which a new one follows only after its end. A minute that reaches the present meets no third window,
and the request that opened the window before is older than the minute, hence fewer than twice the limit; one
that is past keeps its count. `PartsCountTogether` and `OneMoreCountsOne`
carry the counting over finite sets. `QuotaInv` is the converse of `WindowInv`: the counter counts no request
that was not made. So nobody is turned away but after the limit's number of its own requests within
a window before (`NobodyIsLimitedByOthers`), and the message that the run `probes` refutes is true of callers
that never ask for the price (`PayersAreLimitedByPaidDecisions`).

**`VerificationProofs`**, for all registries, transactions and attestations: `ValidVerdictsAreSound` and
`SoundAttestationsAreValid`. Both follow from one fact: decisions stay on record and receipts stay as they
are, so that what an attestation states, once true, is true at every later read (`FactsStay`). `Checked`
says what the reads so far have shown, `Kept` that what held when verification began still holds and that
the registry's check did not refuse it. Without the first a verdict could rest on a check that no longer
holds; without the second two checks could contradict each other.

**`PaymentMeterProofs`**, for all payers, recorders, amounts and word sizes: `TypeCorrect`,
`WordsServiceable`, `SumsCorrect`. Their conjunction is inductive: a sum stays a word because its
addends are, and no settlement is refused for want of viewers because every sum gave them anew.

**`TreasuryLoopProofs`**, for any number of loops and events, any portfolios, prices and any size of the
log: `LoopTypeCorrect`, `NoOlderEventIsActedOn`, `LoneSwapsSucceed`, `TheLogIsRecent`. The invariant adds three
parts to the types. `Heard`: the bus only grows, so between a loop's receipt and its read of `eventCount`
the top it reads is at its own event or above, if it has one; a loop whose `publish` reverted has none, and of
it nothing is said. `Alone`: a loop that
shares the Safe with none is the only one that executes, and the batch it sent still succeeds as it was
simulated. `Recent`: the log is the end of what was written, and of one writer the snapshot is the log,
as long as appends did not overlap and none was cut short; `LastOfProperties` carries the sequences.
`UnsharedSwapsHappened` bounds what the run `logged_swaps` refutes: only a loop that shared the Safe
while it executed can be logged as executed with a reverted batch. `LoopsRunOut` is for loops what
`StepsRunOut` is for calls: the steps a loop has left never grow, each `Proceed` lowers them, and a loop with
none left has ended.

**`ControlPlaneProofs`**, for any accounts, chains, Safes, endpoints, polls and clicks. `TheWalletIsShown`
and `TheButtonComesBack` rest on `WalletInv`: either the wire holds a message about the account, the
last of which tells the wallet's own, or the page shows it or none (`KnowsAccount`; `KnowsChain` likewise), and
a button that waits has an answer on the wire, a request open or a `finally` to come (`Waits`).
`TheSafeIsItsOwn` adds to it that a poll under the effect's present number asked for the Safe shown
(`PageInv`), and that the owners the page keeps are those of some time of its check (`OwnersInv`). `OneClickOnePayment` needs that of a payment under way none is made yet (`InspectorInv`), and
`AnswersAreOfOneMoment` that at each phase of a poll what it has read is of one count (`DashboardInv`).

**`ServicesProofs`**, one section a part:

* Example servers, for any calls: `ResultsAreCharged` and the refinement `ExamplesKeepThePromise`. `ServerInv`
  says that a call's transaction is sent once and mined once, and what each stage of a call has behind it:
  an id that is on record and no older than the caller's own decision, and, for the payroll, its result.
* The operator's gas, for any clients, minimum, balance and cache time: `FailuresAreOfSharedGas`. `GasInv`
  accounts for every transaction since a balance was read, whether the answer is under way, cached or judged by.
* Price, for prices of any length and any number of decimals: `TheAmountIsThePrice`. `Value` and `Pow10` are
  recursive functions; `Recursion` shows that such a definition has the values it says, by induction over
  numbers as subsets (`NatSetInduction`, from the library's well-foundedness of `<`, which takes no operator
  as a parameter). `BigInt` reads digits as their number (`BigIntOfDigits`), and nothing with a character that
  is in no number (`NoNumberIsRefused`). The rest is arithmetic of digits: a value of n digits is below the n-th
  power of ten, and the value of a cut price is the rounded quotient (`ValueBounded`, `ShortFraction`,
  `LongFraction`). Of other prices the theorem says nothing.
* Launcher, for any number of runs and health checks: `NobodyStays`, `TheApiStartsBehindIts`. All launchers
  but the last have ended, and one that ended with a child has told the other; contained, none
  of its children is left (`LauncherInv`).
* Deployment, for any number of runs, decisions, reverts and interleavings: `WhatIsPublishedIsReady`. What is
  left of a script is its plan after its first steps (`Progress`), of which each transaction took effect or is
  among those lost, and the id, once read, is no smaller than that of the script's own decision. An engine that
  has decided is ready, whatever came to nothing (`ScriptInv`), and one that has not is never published, since
  no action of it can be decrypted. What is on chain stays there (`Grows`); what remains is that each plan has its
  steps in the right order.
* Safe demo, for any number of runs, other batches and amounts: `TheVerdictIsRight`. Of the pending
  transactions at most one batch is the run's own (`Queued`); until it or another one is executed the
  balance is what the run read (`RunInv`); and a pending batch that buys undisturbed will be executed
  (`Bought`).

Types are theorems of every part, and together of the two compositions (`PartsTypeCorrect`): a step of
`Services` or `Clients` is a step of one part and leaves the variables of the others alone (`PartsBehave`),
so that whatever is proved of a part's own specification holds of the whole. `ServicesAreSafe` and
`ClientsAreSafe` say so of every safety property of the two runs, and of `ImplementsPaidCall`.

Assumptions: `EnginesAssumption` (an engine is a treasury or a payroll engine), `OwnRegistry`
(`docs/setup-deploy-usage.md:69` demands one registry per engine; with a shared one records would
overwrite each other), `CallsAssumption` (a decision of somebody else is none of the calls, and no
answer is not an answer), `MeterAssumption` (amounts are words, the owner may be a payer),
`AbsentAssumption` (an absent field is not an address), and those of the parts: `LoopAssumption` (prices,
units, tries and the size of the log are positive, a torn file is not a log), `PageAssumption` of
`Onboarding`, `Inspector` and `Dashboard` (Sepolia is a chain, a preset is an endpoint with a body, absence
is neither a request nor an attestation), `ServerAssumption` (a call goes to one server and is not somebody
else's; something is tried at least once), `GasAssumption`, `LauncherAssumption` and `DemoAssumption` (numbers
are natural, a swap gains something, a launcher checks health at least once), and `PriceAssumption` (prices
are decimal, a refusal is no amount). `BoundsAssumption` and
`NumbersAssumption` say that numeric parameters are natural numbers, and the values that stand for absence
none of those they stand beside. TLC evaluates all of them: those of the parts are hypotheses
of the theorems, and `PartsAssumption` of `Services` and `Clients` demands them of every instance.

Only model-checked: liveness (`EveryCallEnds`, `HalfPairEnds`, `FollowsTheBalance`, `EveryLoopEnds`,
`Converges`), as fairness and ENABLED are beyond the prover. Of the first and the fourth, the bound
on the steps and their availability, respectively their bound, are proved. Every invariant and action
property that a passing run checks is also a theorem.

## Not modelled

* Pages without state (docs, landing text, layout), styling, and what panels render beyond what
  `Dashboard` has: whose decision, checks and figures are shown together.
* `/supported`, `/health`, and the commands that print what they read (`inspect`, `status`, `market`,
  `deploy`).
* Encodings, headers and texts: an attestation is a record, a commitment a tuple.
* The x402 library, viem, Safe and Uniswap beyond how this code uses them; they are marked external.
* Widths of 256 bits (the meter's words have a parametric width; thresholds are compared, never
  added), and gas amounts (a transaction costs one).

## What is left

1. `PaidDecision` and `Operator` composed, so that a settlement fails for want of gas in the nonce-accurate
   model.
