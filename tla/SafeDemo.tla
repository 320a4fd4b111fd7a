------------------------------ MODULE SafeDemo ------------------------------
(***************************************************************************)
(* The script that shows a decision drive a swap (phase3-demo.ts): deploy  *)
(* a Safe or find the one deployed before, top it up, swap from it, and    *)
(* judge the swap by the Safe's WETH.  The script stops anywhere, its      *)
(* transactions are mined all the same, in the order sent, and it is run   *)
(* again.  Treasury loops may use the same Safe meanwhile.                 *)
(*                                                                         *)
(* Balances: USDC in whole dollars; WETH in steps of what a hedging swap   *)
(* takes, too little to be worth any USDC.                                 *)
(***************************************************************************)
EXTENDS Naturals, Sequences

CONSTANTS Need,     \* USDC kept in the Safe (3)
          Gain,     \* WETH that a dollar buys
          None,
          MaxRuns, MaxForeign  \* bounds: runs, and batches of loops

VARIABLES
  safe,                \* the Safe: deployed, nonce, usdc, weth
  mempool,             \* the deployer's transactions not mined yet
  pc, action,          \* the script: its next step, and the decision it was given
  signed, wethBefore,
  runs, foreign,
  swapped,             \* history: this run's swap took place
  disturbed,           \* history: another batch was executed since this run began
  file                 \* the last run that passed: both of these

chain   == <<safe, mempool, foreign, swapped, disturbed>>
script  == <<pc, action, signed, wethBefore, runs, file>>
vars    == <<chain, script>>

Init ==
  /\ safe = [deployed |-> FALSE, nonce |-> 0, usdc |-> 0, weth |-> 0]
  /\ mempool = << >>
  /\ pc = "stopped" /\ action = None /\ signed = None /\ wethBefore = None
  /\ runs = 0 /\ foreign = 0 /\ swapped = FALSE /\ disturbed = FALSE /\ file = None

\* A batch of approval and swap, as mined: all of it, or nothing.
Executes(act, nonce) ==
  /\ safe.deployed /\ nonce = safe.nonce
  /\ IF act = "ACCUMULATE" THEN safe.usdc >= 1 ELSE safe.weth >= 1
After(act) ==
  IF act = "ACCUMULATE"
  THEN [safe EXCEPT !.nonce = @ + 1, !.usdc = @ - 1, !.weth = @ + Gain]
  ELSE [safe EXCEPT !.nonce = @ + 1, !.weth = @ - 1]

Tx(kind, act, amount, nonce) == [kind |-> kind, action |-> act, amount |-> amount, nonce |-> nonce, run |-> runs]
Sent(t) == mempool' = Append(mempool, t)

-----------------------------------------------------------------------------
\* The chain
Mine ==
  /\ mempool # << >> /\ mempool' = Tail(mempool)
  /\ LET t == Head(mempool)
         ok == t.kind = "batch" /\ Executes(t.action, t.nonce)
     IN  /\ safe' = CASE t.kind = "deploy"   -> [safe EXCEPT !.deployed = TRUE]
                      [] t.kind = "transfer" -> [safe EXCEPT !.usdc = @ + t.amount]
                      [] ok                  -> After(t.action)
                      [] OTHER               -> safe
         /\ swapped' = (swapped \/ (ok /\ t.run = runs))
         /\ disturbed' = (disturbed \/ (ok /\ t.run # runs))
  /\ UNCHANGED <<foreign, script>>

ForeignBatch ==
  /\ foreign < MaxForeign /\ foreign' = foreign + 1 /\ disturbed' = TRUE
  /\ \E a \in {"ACCUMULATE", "HEDGE"} : Executes(a, safe.nonce) /\ safe' = After(a)
  /\ UNCHANGED <<mempool, swapped, script>>

-----------------------------------------------------------------------------
\* The script.  HOLD is no swap, and the script ends at once.
Start ==
  /\ pc = "stopped" /\ runs < MaxRuns /\ runs' = runs + 1
  /\ \E a \in {"ACCUMULATE", "HEDGE", "HOLD"} :
       action' = a /\ pc' = IF a = "HOLD" THEN "stopped" ELSE "deploy"
  /\ signed' = None /\ wethBefore' = None
  /\ swapped' = FALSE /\ disturbed' = FALSE
  /\ UNCHANGED <<safe, mempool, foreign, file>>

Stop ==
  /\ pc # "stopped" /\ pc' = "stopped"
  /\ UNCHANGED <<chain, action, signed, wethBefore, runs, file>>

\* deploySafe: the address is predicted, so that a Safe deployed before is found again.
DeploySafe ==
  /\ pc = "deploy"
  /\ IF safe.deployed
     THEN pc' = "fund" /\ UNCHANGED mempool
     ELSE pc' = "deploying" /\ Sent(Tx("deploy", None, 0, 0))
  /\ UNCHANGED <<safe, foreign, swapped, disturbed, action, signed, wethBefore, runs, file>>

Fund ==
  /\ pc = "fund"
  /\ IF safe.usdc >= Need
     THEN pc' = "before" /\ UNCHANGED mempool
     ELSE pc' = "funding" /\ Sent(Tx("transfer", None, Need - safe.usdc, 0))
  /\ UNCHANGED <<safe, foreign, swapped, disturbed, action, signed, wethBefore, runs, file>>

\* Mutant: the script goes on once a transaction is sent.
ReceiptAtOnce ==
  /\ \/ pc = "deploying" /\ pc' = "fund"
     \/ pc = "funding" /\ pc' = "before"
     \/ pc = "swapping" /\ pc' = "after"
  /\ UNCHANGED <<chain, action, signed, wethBefore, runs, file>>

\* waitForTransactionReceipt: what the deployer sent last is mined, and all before it.
Receipt ==
  /\ mempool = << >>
  /\ \/ pc = "deploying" /\ pc' = "fund"
     \/ pc = "funding" /\ pc' = "before"
     \/ pc = "swapping" /\ pc' = "after"
  /\ UNCHANGED <<chain, action, signed, wethBefore, runs, file>>

ReadBefore ==
  /\ pc = "before" /\ pc' = "sign"
  /\ wethBefore' = safe.weth
  /\ UNCHANGED <<chain, action, signed, runs, file>>

\* execSafeBatch: signed under the nonce read now, and sent if it would succeed now.
Sign ==
  /\ pc = "sign" /\ pc' = "send"
  /\ signed' = safe.nonce
  /\ UNCHANGED <<chain, action, wethBefore, runs, file>>

Send ==
  /\ pc = "send" /\ Executes(action, signed) /\ pc' = "swapping"
  /\ Sent(Tx("batch", action, 0, signed))
  /\ UNCHANGED <<safe, foreign, swapped, disturbed, action, signed, wethBefore, runs, file>>

Judge ==
  /\ pc = "after"
  /\ IF safe.weth > wethBefore
     THEN pc' = "stopped" /\ file' = [swapped |-> swapped, disturbed |-> disturbed]
     ELSE pc' = "failed" /\ UNCHANGED file
  /\ UNCHANGED <<chain, action, signed, wethBefore, runs>>

-----------------------------------------------------------------------------
Next ==
  \/ Mine \/ ForeignBatch
  \/ Start \/ Stop \/ DeploySafe \/ Fund \/ Receipt \/ ReadBefore \/ Sign \/ Send \/ Judge

Spec == Init /\ [][Next]_vars

-----------------------------------------------------------------------------
\* What the proofs assume: amounts are numbers, and a dollar buys some WETH.
DemoAssumption == {Need, MaxRuns, MaxForeign} \subseteq Nat /\ Gain \in Nat \ {0}

Used == {"fund", "funding", "before", "sign", "send", "swapping", "after", "failed"}

\* Types; neither a balance nor a transfer goes below zero.
TypeOK ==
  /\ safe.deployed \in BOOLEAN /\ {safe.nonce, safe.usdc, safe.weth} \subseteq Nat
  /\ \A i \in 1..Len(mempool) : mempool[i].amount \in Nat
  /\ pc \in Used \cup {"stopped", "deploy", "deploying"}
  /\ signed \in Nat \cup {None} /\ wethBefore \in Nat \cup {None}

\* The verdict is right for a run that accumulates, unless somebody else's batch was executed
\* while it ran: passing means that its swap took place, failing happens to hedging runs only.
UndisturbedVerdict ==
  /\ file # None /\ ~file.disturbed => file.swapped
  /\ pc = "failed" /\ ~disturbed => action = "HEDGE"
=============================================================================
