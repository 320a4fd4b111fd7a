---------------------------- MODULE TreasuryLoop ----------------------------
(***************************************************************************)
(* The autonomous treasury: each loop (one `xcat run`) reads the market,   *)
(* buys a confidential decision, publishes it encrypted on the EventBus,   *)
(* reads it back as the treasury agent, moves the Safe accordingly and     *)
(* appends a record to the activity log.  Loops are separate processes of  *)
(* one operator: they share the bus, the Safe and the log file, and each   *)
(* may stop anywhere.                                                      *)
(*                                                                         *)
(* Which decision the paid call returns is PaidDecision's matter; here it  *)
(* is the one the treasury policy makes of the exposure and signal read.   *)
(* A transaction that is sent and mined after its process died is the same *)
(* as one mined just before.  Amounts are in token units, as on chain.     *)
(***************************************************************************)
EXTENDS Naturals, Sequences, FiniteSets

CONSTANTS Loops,        \* runs of the treasury loop
          Foreign,      \* other publishers on the bus
          Torn,         \* content of a log file whose write was cut short
          Nothing,      \* no receipt; no payload that the operator can decrypt
          Portfolios,   \* initial balances of the Safe, <<USDC, WETH>>
          Prices,       \* USDC per WETH
          Thresholds,   \* the engine's policy
          UsdcUnit,     \* units of a USDC (10^6)
          WethUnit,     \* units of a WETH (10^18)
          Step,         \* executeDecision's amountIn, in units of either token
          Tries,        \* consumeEvent's tries
          LogSize,      \* records kept (100)
          MaxForeign    \* bound: events of others

Policy == INSTANCE Policy

VARIABLES
  pc,          \* pc[l]: where loop l is
  code,        \* code[l]: the action of the decision it buys
  event,       \* event[l]: the event its treasury agent consumes
  tries,
  action,      \* action[l]: the action that agent decrypted
  top,         \* top[l]: the USDC it is about to add to the Safe
  txNonce,     \* txNonce[l]: the Safe nonce it signed
  receipt,     \* receipt[l]: its Safe transaction's status and what it received
  snapshot,    \* snapshot[l]: the log it is about to write back
  events,      \* EventBus: the publisher of each event, and what the operator decrypts of it
  safe,        \* the Safe's balances and nonce
  file,        \* the activity log
  overlapped,  \* history: loops that used the Safe while another did
  written,     \* history: the records written, in order
  clean        \* history: no append overlapped another or was cut short

agentVars == <<code, event, tries, action>>
execVars  == <<top, txNonce, receipt, overlapped>>
fileVars  == <<snapshot, file, written, clean>>
vars == <<pc, agentVars, execVars, fileVars, events, safe>>

ActionNames == <<"HOLD", "HEDGE", "ACCUMULATE">>
Executing   == {"toppingUp", "batching", "sending", "swapping"}
Acting      == Executing \cup {"funding", "swapped", "verifying", "appending", "writing", "done"}
Ended       == {"done", "failed"}
Running     == {"loading", "reading", "paying", "publishing", "published", "consuming",
                "funding", "swapped", "verifying", "appending", "writing"} \cup Executing
Largest(S)  == CHOOSE x \in S : \A y \in S : y <= x

\* readMarketState: the WETH share of the portfolio in basis points, rounded
Exposure(price) ==
  LET u == safe.usdc * WethUnit
      w == safe.weth * price * UsdcUnit
  IN  IF u + w > 0 THEN (20000 * w + u + w) \div (2 * (u + w)) ELSE 0

\* The codes of the actions, and one that stands for all numbers that are no code
Codes == 0..3
Action(c) == IF c < Len(ActionNames) THEN ActionNames[c + 1] ELSE "HOLD"

\* intentForAction
Intent(name) == CASE name = "ACCUMULATE" -> "USDC->WETH"
                  [] name = "HEDGE" -> "WETH->USDC"
                  [] OTHER -> "none"

Record(l) == [loop |-> l, action |-> Action(code[l]), direction |-> Intent(action[l]),
              executed |-> receipt[l] # Nothing]
LastOf(s) == SubSeq(s, Largest({1, Len(s) - LogSize + 1}), Len(s))

Init ==
  /\ pc = [l \in Loops |-> "idle"]
  /\ code = [l \in Loops |-> 0]
  /\ event = [l \in Loops |-> 0]
  /\ tries = [l \in Loops |-> 0]
  /\ action = [l \in Loops |-> "HOLD"]
  /\ top = [l \in Loops |-> 0]
  /\ txNonce = [l \in Loops |-> 0]
  /\ receipt = [l \in Loops |-> Nothing]
  /\ snapshot = [l \in Loops |-> << >>]
  /\ events = << >>
  /\ \E p \in Portfolios : safe = [usdc |-> p[1], weth |-> p[2], nonce |-> 0]
  /\ file = << >>
  /\ overlapped = {}
  /\ written = << >>
  /\ clean = TRUE

Goto(l, from, to) == pc[l] = from /\ pc' = [pc EXCEPT ![l] = to]

-----------------------------------------------------------------------------
\* The market agent
Start(l) ==
  /\ Goto(l, "idle", "loading")
  /\ UNCHANGED <<agentVars, execVars, fileVars, events, safe>>

LoadConfig(l) ==
  /\ Goto(l, "loading", "reading")
  /\ UNCHANGED <<agentVars, execVars, fileVars, events, safe>>

\* readMarketState: exposure and signal, of which the engine makes its decision.
ReadMarketState(l) ==
  /\ Goto(l, "reading", "paying")
  /\ \E p \in Prices :
       code' = [code EXCEPT ![l] = Policy!TreasuryAction(<<Exposure(p), p>>, Thresholds)]
  /\ UNCHANGED <<event, tries, action, execVars, fileVars, events, safe>>

\* askForDecision pays for it, and gets it (or throws).
PayForDecision(l) ==
  /\ Goto(l, "paying", "publishing")
  /\ UNCHANGED <<agentVars, execVars, fileVars, events, safe>>

\* EventBus.publish is mined, with this operator as the subscriber.  If it reverted nothing is
\* published, which nobody notices: the receipt's status is not looked at.
Publish(l) ==
  /\ Goto(l, "publishing", "published")
  /\ \/ events' = Append(events, [by |-> l, payload |-> code[l]])
     \/ UNCHANGED events
  /\ UNCHANGED <<agentVars, execVars, fileVars, safe>>

\* Mutant: the count is read before the event is mined.
ReadEventIdEarly(l) ==
  /\ Goto(l, "publishing", "consuming")
  /\ event' = [event EXCEPT ![l] = Len(events)]
  /\ tries' = [tries EXCEPT ![l] = 1]
  /\ events' = Append(events, [by |-> l, payload |-> code[l]])
  /\ UNCHANGED <<code, action, execVars, fileVars, safe>>

\* With the receipt in hand publishEncrypted reads eventCount, of a node that has that block,
\* and takes it for its id.
ReadEventId(l) ==
  /\ Goto(l, "published", "consuming")
  /\ event' = [event EXCEPT ![l] = Len(events)]
  /\ tries' = [tries EXCEPT ![l] = 1]
  /\ UNCHANGED <<code, action, execVars, fileVars, events, safe>>

\* Anybody publishes any number, and names whom he likes as subscribers, the operator or not.
ForeignPublish ==
  /\ Cardinality({i \in 1..Len(events) : events[i].by = Foreign}) < MaxForeign
  /\ \E c \in Codes \cup {Nothing} : events' = Append(events, [by |-> Foreign, payload |-> c])
  /\ UNCHANGED <<pc, agentVars, execVars, fileVars, safe>>

-----------------------------------------------------------------------------
\* The treasury agent
\* Mutant: a refused payload is asked for without end.
ConsumeRetryForEver(l) ==
  /\ pc[l] = "consuming"
  /\ tries' = [tries EXCEPT ![l] = (@ % Tries) + 1]
  /\ UNCHANGED <<pc, code, event, action, execVars, fileVars, events, safe>>

\* The gateway does not serve the payload, or not yet.
ConsumeRetry(l) ==
  /\ pc[l] = "consuming"
  /\ IF tries[l] < Tries
     THEN tries' = [tries EXCEPT ![l] = @ + 1] /\ UNCHANGED pc
     ELSE Goto(l, "consuming", "failed") /\ UNCHANGED tries
  /\ UNCHANGED <<code, event, action, execVars, fileVars, events, safe>>

\* The payload is decrypted, whoever published it; there is none under id 0.
Consume(l) ==
  /\ pc[l] = "consuming" /\ event[l] # 0 /\ events[event[l]].payload # Nothing
  /\ LET name == Action(events[event[l]].payload) IN
     /\ action' = [action EXCEPT ![l] = name]
     /\ Goto(l, "consuming", IF Intent(name) = "none" THEN "verifying" ELSE "funding")
  /\ UNCHANGED <<code, event, tries, execVars, fileVars, events, safe>>

\* executeDecision: read the Safe's balance of the token to sell.  Too little USDC is
\* topped up, too little WETH means no swap.
UsersOfSafe == {l \in Loops : pc[l] \in Executing}

EnsureFunds(l) ==
  /\ pc[l] = "funding"
  /\ IF Intent(action[l]) = "USDC->WETH"
     THEN IF safe.usdc < Step
          THEN /\ Goto(l, "funding", "toppingUp")
               /\ top' = [top EXCEPT ![l] = Step - safe.usdc + UsdcUnit]
          ELSE Goto(l, "funding", "batching") /\ UNCHANGED top
     ELSE /\ Goto(l, "funding", IF safe.weth < Step THEN "verifying" ELSE "batching")
          /\ UNCHANGED top
  /\ overlapped' = overlapped \cup
       (IF UsersOfSafe = {} THEN {} ELSE UsersOfSafe \cup {l})
  /\ UNCHANGED <<agentVars, txNonce, receipt, fileVars, events, safe>>

\* The transfer is mined.  It may revert (the operator pays from the same purse); its
\* receipt is not looked at.
TopUp(l) ==
  /\ Goto(l, "toppingUp", "batching")
  /\ \/ safe' = [safe EXCEPT !.usdc = @ + top[l]]
     \/ UNCHANGED safe
  /\ UNCHANGED <<agentVars, execVars, fileVars, events>>

\* execSafeBatch signs [approve, swap] under the Safe's nonce ...
SignBatch(l) ==
  /\ Goto(l, "batching", "sending")
  /\ txNonce' = [txNonce EXCEPT ![l] = safe.nonce]
  /\ UNCHANGED <<agentVars, top, receipt, overlapped, fileVars, events, safe>>

BatchSucceeds(l) ==
  /\ txNonce[l] = safe.nonce
  /\ Step <= IF Intent(action[l]) = "USDC->WETH" THEN safe.usdc ELSE safe.weth

\* Mutant: the transaction is sent with a gas limit of its own, hence not simulated.
SendUnsimulated(l) ==
  /\ Goto(l, "sending", "swapping")
  /\ UNCHANGED <<agentVars, execVars, fileVars, events, safe>>

\* ... and sends it, which throws if it would revert now.
SendBatch(l) ==
  /\ Goto(l, "sending", IF BatchSucceeds(l) THEN "swapping" ELSE "failed")
  /\ UNCHANGED <<agentVars, execVars, fileVars, events, safe>>

\* buildSwapBatch's two calls, in one Safe transaction, with no minimum for the output
MineBatch(l) ==
  /\ Goto(l, "swapping", "swapped")
  /\ \E p \in Prices :
       LET bought == IF Intent(action[l]) = "USDC->WETH"
                     THEN (Step * WethUnit) \div (p * UsdcUnit)
                     ELSE (Step * p * UsdcUnit) \div WethUnit
           ok     == BatchSucceeds(l)
       IN  /\ receipt' = [receipt EXCEPT ![l] =
                 [ok |-> ok, received |-> IF ok THEN bought ELSE 0]]
           /\ safe' = IF ~ok THEN safe
                      ELSE IF Intent(action[l]) = "USDC->WETH"
                      THEN [usdc |-> safe.usdc - Step, weth |-> safe.weth + bought,
                            nonce |-> safe.nonce + 1]
                      ELSE [usdc |-> safe.usdc + bought, weth |-> safe.weth - Step,
                            nonce |-> safe.nonce + 1]
  /\ UNCHANGED <<agentVars, top, txNonce, overlapped, fileVars, events>>

\* The receipt's status is not looked at: the result says executed.
BatchReceipt(l) ==
  /\ Goto(l, "swapped", "verifying")
  /\ UNCHANGED <<agentVars, execVars, fileVars, events, safe>>

-----------------------------------------------------------------------------
\* The decision's record is read from the registry, then the loop is logged.
VerifyDecision(l) ==
  /\ Goto(l, "verifying", "appending")
  /\ UNCHANGED <<agentVars, execVars, fileVars, events, safe>>

ReadActivity(l) ==
  /\ Goto(l, "appending", "writing")
  /\ snapshot' = [snapshot EXCEPT ![l] = IF file = Torn THEN << >> ELSE file]
  /\ clean' = (clean /\ \A m \in Loops : pc[m] # "writing")
  /\ UNCHANGED <<agentVars, execVars, file, written, events, safe>>

\* Mutant: the oldest records are kept.
WriteOldest(l) ==
  /\ Goto(l, "writing", "done")
  /\ LET s == Append(snapshot[l], Record(l))
     IN  file' = SubSeq(s, 1, IF Len(s) < LogSize THEN Len(s) ELSE LogSize)
  /\ written' = Append(written, Record(l))
  /\ UNCHANGED <<agentVars, execVars, snapshot, clean, events, safe>>

WriteActivity(l) ==
  /\ Goto(l, "writing", "done")
  /\ file' = LastOf(Append(snapshot[l], Record(l)))
  /\ written' = Append(written, Record(l))
  /\ UNCHANGED <<agentVars, execVars, snapshot, clean, events, safe>>

\* Anything awaited may throw or time out, and the process may be killed.
Stop(l) ==
  /\ pc[l] \in Running
  /\ pc' = [pc EXCEPT ![l] = "failed"]
  /\ IF pc[l] = "writing"
     THEN file' = Torn /\ clean' = FALSE ELSE UNCHANGED <<file, clean>>
  /\ UNCHANGED <<agentVars, execVars, snapshot, written, events, safe>>

-----------------------------------------------------------------------------
Proceed(l) ==
  \/ LoadConfig(l) \/ ReadMarketState(l) \/ PayForDecision(l) \/ Publish(l)
  \/ ReadEventId(l) \/ ConsumeRetry(l) \/ Consume(l) \/ EnsureFunds(l) \/ TopUp(l)
  \/ SignBatch(l) \/ SendBatch(l) \/ MineBatch(l) \/ BatchReceipt(l)
  \/ VerifyDecision(l) \/ ReadActivity(l) \/ WriteActivity(l) \/ Stop(l)

Next == ForeignPublish \/ \E l \in Loops : Start(l) \/ Proceed(l)

Spec == Init /\ [][Next]_vars

\* A started process keeps running: what it awaits answers or throws.
FairSpec == Spec /\ \A l \in Loops : WF_vars(Proceed(l))

-----------------------------------------------------------------------------
Records == [loop : Loops, action : {"HOLD", "HEDGE", "ACCUMULATE"},
            direction : {"none", "USDC->WETH", "WETH->USDC"}, executed : BOOLEAN]

\* What the proofs assume: amounts and limits are numbers, prices and units positive ones, and
\* a file cut short is no log, and the others are no loop.
LoopAssumption ==
  /\ Portfolios \subseteq Nat \X Nat /\ Prices \subseteq Nat \ {0}
  /\ {UsdcUnit, WethUnit, Tries, LogSize} \subseteq Nat \ {0} /\ Step \in Nat
  /\ Torn \notin Seq(Records) /\ Foreign \notin Loops

\* Types, the ids in range, and a log of bounded length.
TypeOK ==
  /\ pc \in [Loops -> {"idle"} \cup Running \cup Ended]
  /\ \A l \in Loops : event[l] \in 0..Len(events)
  /\ code \in [Loops -> 0..2]
  /\ tries \in [Loops -> 0..Tries]
  /\ action \in [Loops -> {"HOLD", "HEDGE", "ACCUMULATE"}]
  /\ top \in [Loops -> Nat] /\ txNonce \in [Loops -> Nat]
  /\ receipt \in [Loops -> [ok : BOOLEAN, received : Nat] \cup {Nothing}]
  /\ events \in Seq([by : Loops \cup {Foreign}, payload : Codes \cup {Nothing}])
  /\ safe \in [usdc : Nat, weth : Nat, nonce : Nat]
  /\ file = Torn \/ (file \in Seq(Records) /\ Len(file) <= LogSize)
  /\ overlapped \subseteq Loops /\ clean \in BOOLEAN

\* The treasury agent acts on no event older than its loop's own, whatever the others publish
\* between a receipt and the read of eventCount (eventbus.ts), and when it acts on its own, as
\* the decision bought says.  Without an event of its own, for its publish reverted, a loop
\* may act on any that the operator can decrypt, as it does on a newer one of somebody else.
ActsOnNoOlderEvent ==
  \A l \in Loops : tries[l] > 0 =>
    \A i \in 1..Len(events) : events[i].by = l =>
      /\ i <= event[l]
      /\ i = event[l] /\ pc[l] \in Acting => action[l] = Action(code[l])

\* A loop that has the Safe to itself from its balance check to its swap never reports
\* a swap that reverted, although no receipt is looked at (execute.ts).
LoneSwapSucceeds ==
  \A l \in Loops \ overlapped : receipt[l] # Nothing => receipt[l].ok

\* As long as no two loops append at the same time and no write is cut short, the log
\* holds the last LogSize finished loops in the order they finished (activity.ts).
LogKeepsRecent == clean => file = LastOf(written)

\* The loops that are started end, however often the payload is refused.
EveryLoopEnds == (\E l \in Loops : pc[l] \in Running) ~> (\A l \in Loops : pc[l] \notin Running)

\* What the code says and does not keep.  activity.ts: a "real, verifiable log of executed loops": executed means swapped.
LoggedSwapsHappened ==
  file # Torn => \A i \in 1..Len(file) :
                    file[i].executed => receipt[file[i].loop].ok
=============================================================================
