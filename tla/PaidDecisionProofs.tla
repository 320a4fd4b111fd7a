------------------------ MODULE PaidDecisionProofs -------------------------
(***************************************************************************)
(* Theorems about paid decisions, for any number of calls, tries, restarts,*)
(* recorder changes and decisions of others.                               *)
(*                                                                         *)
(* The inductive invariant says what the history of a call's transactions  *)
(* allows its position in the server to be (Phases), that a transaction    *)
(* waiting to be mined is waiting once (Pending), and what a decision that *)
(* is being decrypted, or was answered, has to do with the log (Answers).  *)
(* On it rest the sections at the end: when the claims hold that the code  *)
(* breaks in general, that the log keeps its promise, and why calls end.   *)
(***************************************************************************)
EXTENDS PaidDecision, FiniteSetTheorems, FunctionTheorems, TLAPS

Before     == {"idle", "verifying", "refused"}
Unanswered == Before \cup {"failed"} \cup Computing
Decrypting == {"decryptingAction", "decryptingConfidence"}
OnChain    == {"success", "reverted"}

\* A call's answer, payment, delivery and metering come in this order.
Phase(c) ==
  /\ api[c] \in Before => tx["decide"][c] = "idle"
  /\ api[c] \in Unanswered => tx["settle"][c] = "idle" /\ answer[c] = NoAnswer
  /\ api[c] \in Unanswered \cup {"settling"} => tx["meter"][c] = "idle"
  /\ tx["settle"][c] # "idle" => answer[c] # NoAnswer
  /\ c \in charged <=> tx["settle"][c] = "success"
  /\ tx["meter"][c] # "idle" => c \in charged
  /\ api[c] = "delivered" => c \in charged
  /\ metered[c] = IF tx["meter"][c] = "success" THEN 1 ELSE 0

Phases == \A c \in Calls : Phase(c)

\* The account's transactions are different ones, and those not mined are as sent.
State(t) == tx[t[1]][t[2]]

Pending ==
  /\ \A i \in 1..Len(mempool) :
       /\ State(mempool[i]) \in {"sent"} \cup OnChain
       /\ i > mined => State(mempool[i]) = "sent"
  /\ \A i, j \in 1..Len(mempool) : i # j => mempool[i] # mempool[j]

\* The id i of a decision on record, and none before c's own
NoOlder(c, i) ==
  /\ i \in 1..Len(log[Engine])
  /\ \A own \in 1..Len(log[Engine]) : log[Engine][own].caller = c => i >= own

\* What a call decrypts and answers was on record once its own transaction was mined.
Answers ==
  \A c \in Calls :
    /\ api[c] \in Decrypting => tx["decide"][c] \in OnChain /\ NoOlder(c, decisionId[c])
    /\ api[c] = "decryptingConfidence" => <<decisionId[c], "action">> \in ready
    /\ answer[c] # NoAnswer =>
         /\ tx["decide"][c] \in OnChain /\ NoOlder(c, answer[c].id)
         /\ answer[c].result = log[Engine][answer[c].id].caller
         /\ \A out \in Outputs : <<answer[c].id, out>> \in ready
    /\ \A own \in 1..Len(log[Engine]) :
         log[Engine][own].caller = c => tx["decide"][c] = "success"

IInv == TypeOK /\ Phases /\ Pending /\ Answers

-----------------------------------------------------------------------------
(***************************************************************************)
(* What the two helpers and a commitment do to a well-typed state.         *)
(***************************************************************************)

\* Goto moves one call.
LEMMA GotoMoves ==
  ASSUME TypeOK, NEW c \in Calls, NEW p \in Positions, Goto(c, p)
  PROVE  /\ api' \in [Calls -> Positions]
         /\ api'[c] = p /\ \A d \in Calls : d # c => api'[d] = api[d]
BY DEF TypeOK, Goto

\* SetTx changes the state of one transaction.
LEMMA SetTxSets ==
  ASSUME TypeOK, NEW k \in Kinds, NEW c \in Calls, NEW s \in TxStates, SetTx(k, c, s)
  PROVE  /\ tx' \in [Kinds -> [Calls -> TxStates]]
         /\ tx'[k][c] = s
         /\ \A l \in Kinds, d \in Calls : l # k \/ d # c => tx'[l][d] = tx[l][d]
BY DEF TypeOK, SetTx

\* A commitment appends one entry.
LEMMA CommitAppends ==
  ASSUME TypeOK, NEW r \in Requesters,
         Decisions!Commit(Engine, [caller |-> r, block |-> mined + 1])
  PROVE  /\ log' \in [{Engine} -> Seq([caller : Requesters, block : Nat])]
         /\ Len(log'[Engine]) = Len(log[Engine]) + 1
         /\ \A i \in 1..Len(log[Engine]) : log'[Engine][i] = log[Engine][i]
         /\ log'[Engine][Len(log[Engine]) + 1].caller = r
<1> DEFINE entry == [caller |-> r, block |-> mined + 1]
           Entries == [caller : Requesters, block : Nat]
<1>1. log[Engine] \in Seq(Entries) /\ entry \in Entries
  BY DEF TypeOK
<1>2. log'[Engine] = Append(log[Engine], entry) /\ log' = [log EXCEPT ![Engine] = Append(@, entry)]
  BY DEF TypeOK, Decisions!Commit
<1>3. Append(log[Engine], entry) \in Seq(Entries)
  BY <1>1
<1> HIDE DEF entry, Entries
<1>4. /\ Len(Append(log[Engine], entry)) = Len(log[Engine]) + 1
      /\ \A i \in 1..Len(log[Engine]) : Append(log[Engine], entry)[i] = log[Engine][i]
      /\ Append(log[Engine], entry)[Len(log[Engine]) + 1] = entry
  BY <1>1
<1>5. log' \in [{Engine} -> Seq(Entries)]
  BY <1>2, <1>3 DEF TypeOK, Entries
<1> QED
  BY <1>2, <1>4, <1>5 DEF entry, Entries

\* Entries name their callers.
LEMMA CallersAreRequesters ==
  ASSUME TypeOK, NEW i \in 1..Len(log[Engine])
  PROVE  log[Engine][i].caller \in Requesters
<1> DEFINE Entries == [caller : Requesters, block : Nat]
<1>1. log[Engine] \in Seq(Entries)
  BY DEF TypeOK
<1> HIDE DEF Entries
<1>2. log[Engine][i] \in Entries
  BY <1>1
<1> QED
  BY <1>2 DEF Entries

\* What DecryptConfidence answers is an answer.
LEMMA AnswerIsAnAnswer ==
  ASSUME TypeOK, Answers, NEW c \in Calls, api[c] = "decryptingConfidence"
  PROVE  LET a == [id |-> decisionId[c], result |-> log[Engine][decisionId[c]].caller]
         IN  a \in [id : Nat, result : Requesters] /\ a # NoAnswer
<1>1. decisionId[c] \in 1..Len(log[Engine])
  BY DEF Answers, NoOlder, Decrypting
<1>2. log[Engine][decisionId[c]].caller \in Requesters /\ decisionId[c] \in Nat
  BY <1>1, CallersAreRequesters
<1> QED
  BY <1>2, CallsAssumption DEF Requesters

-----------------------------------------------------------------------------
\* The invariant holds when the servers start.
LEMMA InitInv == Init => IInv
<1> SUFFICES ASSUME Init
             PROVE  IInv
  OBVIOUS
<1>1. TypeOK
  BY BoundsAssumption DEF Init, TypeOK, Positions, TxStates, Decisions!Init
<1>2. Phases
  BY DEF Init, Phases, Phase, Before, Unanswered, Computing, Kinds
<1>3. Pending
  BY DEF Init, Pending
<1>4. Answers
  BY DEF Init, Answers, Decrypting, Decisions!Init
<1> QED
  BY <1>1, <1>2, <1>3, <1>4 DEF IInv

-----------------------------------------------------------------------------
(***************************************************************************)
(* Types                                                                   *)
(***************************************************************************)

\* Types are kept; that an id being decrypted is in the log is needed for its answer.
LEMMA TypeStep == ASSUME TypeOK, Answers, [Next]_vars PROVE TypeOK'
<1> USE DEF TypeOK, vars, callVars, walletVars, chainVars
<1>1. ASSUME NEW k \in Kinds, NEW c \in Calls, Prepare(k, c)
      PROVE  TypeOK'
  <2>1. tx' \in [Kinds -> [Calls -> TxStates]]
    BY <1>1, SetTxSets DEF Prepare, TxStates
  <2>2. Len(mempool) \in Nat
    OBVIOUS
  <2>3. nonce' \in [Kinds -> [Calls -> Nat]]
    BY <1>1, <2>2 DEF Prepare
  <2> QED
    BY <1>1, <2>1, <2>3 DEF Prepare
<1>2. ASSUME NEW k \in Kinds, NEW c \in Calls, Send(k, c)
      PROVE  TypeOK'
  <2>1. tx' \in [Kinds -> [Calls -> TxStates]]
    BY <1>2, SetTxSets DEF Send, TxStates
  <2>2. mempool' \in Seq(Kinds \X Calls) /\ mined \in 0..Len(mempool')
    <3>1. CASE mempool' = mempool
      BY <3>1
    <3>2. CASE mempool' = Append(mempool, <<k, c>>)
      <4>1. <<k, c>> \in Kinds \X Calls
        OBVIOUS
      <4> HIDE DEF Kinds
      <4>2. mempool' \in Seq(Kinds \X Calls) /\ Len(mempool') = Len(mempool) + 1
        BY <3>2, <4>1
      <4> QED
        BY <4>2
    <3> QED
      BY <1>2, <3>1, <3>2 DEF Send
  <2> QED
    BY <1>2, <2>1, <2>2 DEF Send
<1>3. CASE Mine
  <2>1. PICK c \in Calls : MineDecide(c) \/ MineSettle(c) \/ MineMeter(c)
    BY <1>3 DEF Mine
  <2>2. tx' \in [Kinds -> [Calls -> TxStates]]
    BY <2>1, SetTxSets DEF MineDecide, MineSettle, MineMeter, TxStates, Kinds
  <2>3. log' \in [{Engine} -> Seq([caller : Requesters, block : Nat])]
    BY <2>1, CommitAppends DEF MineDecide, MineSettle, MineMeter, Requesters
  <2>4. charged' \subseteq Calls
    BY <2>1 DEF MineDecide, MineSettle, MineMeter
  <2>5. metered' \in [Calls -> Nat]
    <3>1. CASE UNCHANGED metered
      BY <3>1
    <3>2. CASE metered' = [metered EXCEPT ![c] = @ + 1]
      BY <3>2
    <3> QED
      BY <2>1, <3>1, <3>2 DEF MineDecide, MineSettle, MineMeter
  <2>6. mined' \in 0..Len(mempool)
    BY <1>3 DEF Mine
  <2> QED
    BY <1>3, <2>2, <2>3, <2>4, <2>5, <2>6 DEF Mine
<1>4. ASSUME NEW c \in Calls, Call(c) \/ DecideRejected(c) \/ ReceiptTimeout(c) \/ NotSettled(c)
      PROVE  TypeOK'
  <2>1. api' \in [Calls -> Positions]
    BY <1>4, GotoMoves DEF Call, DecideRejected, ReceiptTimeout, NotSettled, Positions, Ended
  <2> QED
    BY <1>4, <2>1 DEF Call, DecideRejected, ReceiptTimeout, NotSettled
<1>5. ASSUME NEW c \in Calls, Verify(c) \/ Settled(c)
      PROVE  TypeOK'
  <2>1. api' \in [Calls -> Positions]
    BY <1>5, GotoMoves DEF Verify, Settled, Positions, Ended, Computing
  <2>2. tx' \in [Kinds -> [Calls -> TxStates]]
    BY <1>5, SetTxSets DEF Verify, Settled, TxStates, Kinds
  <2> QED
    BY <1>5, <2>1, <2>2 DEF Verify, Settled
<1>6. ASSUME NEW c \in Calls, ReadDecision(c)
      PROVE  TypeOK'
  <2>1. api' \in [Calls -> Positions]
    BY <1>6, GotoMoves DEF ReadDecision, Positions, Ended, Computing
  <2>2. Len(log[Engine]) \in Nat /\ 1 \in 0..Tries
    BY BoundsAssumption
  <2> QED
    BY <1>6, <2>1, <2>2 DEF ReadDecision
<1>7. ASSUME NEW c \in Calls, NEW out \in Outputs, Retry(c, out)
      PROVE  TypeOK'
  <2>1. api' \in [Calls -> Positions]
    BY <1>7, GotoMoves DEF Retry, Positions, Ended
  <2>2. tries' \in [Calls -> 0..Tries]
    BY <1>7, BoundsAssumption DEF Retry
  <2> QED
    BY <1>7, <2>1, <2>2 DEF Retry
<1>8. ASSUME NEW c \in Calls, DecryptAction(c)
      PROVE  TypeOK'
  <2>1. CASE Retry(c, "action")
    BY <1>7, <2>1 DEF Outputs
  <2>2. CASE ~Retry(c, "action")
    <3>1. api' \in [Calls -> Positions]
      BY <1>8, <2>2, GotoMoves DEF DecryptAction, Positions, Computing
    <3>2. 1 \in 0..Tries
      BY BoundsAssumption
    <3> QED
      BY <1>8, <2>2, <3>1, <3>2 DEF DecryptAction
  <2> QED
    BY <2>1, <2>2
<1>9. ASSUME NEW c \in Calls, DecryptConfidence(c)
      PROVE  TypeOK'
  <2>1. CASE Retry(c, "confidence")
    BY <1>7, <2>1 DEF Outputs
  <2>2. CASE ~Retry(c, "confidence")
    <3>1. api' \in [Calls -> Positions]
      BY <1>9, <2>2, GotoMoves DEF DecryptConfidence, Positions
    <3>2. tx' \in [Kinds -> [Calls -> TxStates]]
      BY <1>9, <2>2, SetTxSets DEF DecryptConfidence, TxStates, Kinds
    <3>3. PICK a \in [id : Nat, result : Requesters] : answer' = [answer EXCEPT ![c] = a]
      BY <1>9, <2>2, AnswerIsAnAnswer, Zenon DEF DecryptConfidence
    <3>4. answer' \in [Calls -> [id : Nat, result : Requesters] \cup {NoAnswer}]
      BY <3>3
    <3> QED
      BY <1>9, <2>2, <3>1, <3>2, <3>4 DEF DecryptConfidence
  <2> QED
    BY <2>1, <2>2
<1>10. ASSUME NEW c \in Calls, Fault(c)
       PROVE  TypeOK'
  <2>1. api' \in [Calls -> Positions]
    BY <1>10, GotoMoves DEF Fault, Positions, Ended
  <2>2. tx' \in [Kinds -> [Calls -> TxStates]]
    BY <1>10 DEF Fault, TxStates
  <2> QED
    BY <1>10, <2>1, <2>2 DEF Fault
<1>11. ASSUME NEW c \in Calls, MeterSkipped(c)
       PROVE  TypeOK'
  <2>1. tx' \in [Kinds -> [Calls -> TxStates]]
    BY <1>11, SetTxSets DEF MeterSkipped, TxStates, Kinds
  <2> QED
    BY <1>11, <2>1 DEF MeterSkipped
<1>12. ASSUME NEW c \in Calls, Lapse(c)
       PROVE  TypeOK'
  BY <1>12 DEF Lapse
<1>13. ASSUME NEW id \in 1..Len(log[Engine]), NEW out \in Outputs, TeeCompute(id, out)
       PROVE  TypeOK'
  BY <1>13 DEF TeeCompute
<1>14. CASE ForeignDecision
  <2>1. log' \in [{Engine} -> Seq([caller : Requesters, block : Nat])]
    BY <1>14, CommitAppends DEF ForeignDecision, Requesters
  <2> QED
    BY <1>14, <2>1 DEF ForeignDecision
<1>15. CASE SetRecorder
  BY <1>15, BoundsAssumption DEF SetRecorder
<1>16. CASE Crash
  BY <1>16, BoundsAssumption DEF Crash, Positions, Ended, TxStates
<1>17. CASE UNCHANGED vars
  BY <1>17
<1> QED
  BY <1>1, <1>2, <1>3, <1>4, <1>5, <1>6, <1>8, <1>9, <1>10, <1>11, <1>12, <1>13, <1>14, <1>15,
     <1>16, <1>17 DEF Next, ServerStep

-----------------------------------------------------------------------------
(***************************************************************************)
(* Phases                                                                  *)
(***************************************************************************)

\* The transaction that is mined next was sent, and was not mined before.
LEMMA MinedWasSent ==
  ASSUME TypeOK, Pending, mined < Len(mempool), NEW k \in Kinds, NEW c \in Calls,
         mempool[mined + 1] = <<k, c>>
  PROVE  tx[k][c] = "sent"
<1>1. mined + 1 \in 1..Len(mempool) /\ mined + 1 > mined
  BY DEF TypeOK
<1>2. State(mempool[mined + 1]) = "sent"
  BY <1>1 DEF Pending
<1> QED
  BY <1>2 DEF State

\* Steps that leave all a phase speaks of alone
LEMMA PhasesKept ==
  ASSUME Phases, UNCHANGED <<api, answer, tx, charged, metered>>
  PROVE  Phases'
BY DEF Phases, Phase

\* Every step keeps the phases: a transaction that a phase rules out was never asked for.
LEMMA PhasesStep == ASSUME TypeOK, Phases, Pending, Answers, [Next]_vars PROVE Phases'
<1> USE DEF Before, Unanswered, Computing, callVars, walletVars, chainVars
<1>1. ASSUME NEW k \in Kinds, NEW c \in Calls, Prepare(k, c)
      PROVE  Phases'
  BY <1>1, SetTxSets DEF Prepare, Phases, Phase, TxStates, Kinds
<1>2. ASSUME NEW k \in Kinds, NEW c \in Calls, Send(k, c)
      PROVE  Phases'
  BY <1>2, SetTxSets DEF Send, Phases, Phase, TxStates, Kinds
<1>3. CASE Mine
  <2>1. mined < Len(mempool) /\ UNCHANGED <<api, answer>>
    BY <1>3 DEF Mine
  <2>2. ASSUME NEW c \in Calls, MineDecide(c)
        PROVE  Phases'
    <3>1. tx["decide"][c] = "sent"
      BY <2>1, <2>2, MinedWasSent DEF MineDecide, Kinds
    <3> QED
      BY <2>1, <2>2, <3>1, SetTxSets DEF MineDecide, Phases, Phase, TxStates, Kinds
  <2>3. ASSUME NEW c \in Calls, MineSettle(c)
        PROVE  Phases'
    <3>1. tx["settle"][c] = "sent"
      BY <2>1, <2>3, MinedWasSent DEF MineSettle, Kinds
    <3> QED
      BY <2>1, <2>3, <3>1, SetTxSets DEF MineSettle, Phases, Phase, TxStates, Kinds
  <2>4. ASSUME NEW c \in Calls, MineMeter(c)
        PROVE  Phases'
    <3>1. tx["meter"][c] = "sent"
      BY <2>1, <2>4, MinedWasSent DEF MineMeter, Kinds
    <3>2. metered[c] = 0
      BY <3>1 DEF Phases, Phase
    <3>3. PICK state \in {"success", "reverted"} :
            /\ SetTx("meter", c, state)
            /\ metered'[c] = IF state = "success" THEN 1 ELSE 0
            /\ \A d \in Calls : d # c => metered'[d] = metered[d]
      <4>1. CASE SetTx("meter", c, "success") /\ metered' = [metered EXCEPT ![c] = @ + 1]
        BY <3>2, <4>1 DEF TypeOK
      <4>2. CASE SetTx("meter", c, "reverted") /\ UNCHANGED metered
        BY <3>2, <4>2
      <4> QED
        BY <2>4, <4>1, <4>2 DEF MineMeter
    <3>4. UNCHANGED charged
      BY <2>4 DEF MineMeter
    <3>5. /\ tx'["meter"][c] = state
          /\ \A l \in Kinds, d \in Calls : l # "meter" \/ d # c => tx'[l][d] = tx[l][d]
      BY <3>3, SetTxSets DEF TxStates, Kinds
    <3> QED
      BY <2>1, <3>1, <3>3, <3>4, <3>5 DEF Phases, Phase, Kinds
  <2> QED
    BY <1>3, <2>2, <2>3, <2>4 DEF Mine
<1>4. ASSUME NEW c \in Calls, Call(c) \/ DecideRejected(c) \/ ReceiptTimeout(c) \/ NotSettled(c)
      PROVE  Phases'
  BY <1>4, GotoMoves
     DEF Call, DecideRejected, ReceiptTimeout, NotSettled, Phases, Phase, Positions, Ended
<1>5. ASSUME NEW c \in Calls, Verify(c)
      PROVE  Phases'
  BY <1>5, GotoMoves, SetTxSets DEF Verify, Phases, Phase, Positions, Ended, TxStates, Kinds
<1>6. ASSUME NEW c \in Calls, ReadDecision(c)
      PROVE  Phases'
  BY <1>6, GotoMoves DEF ReadDecision, Phases, Phase, Positions, Ended
<1>7. ASSUME NEW c \in Calls, NEW out \in Outputs, Retry(c, out), api[c] \in Computing
      PROVE  Phases'
  BY <1>7, GotoMoves DEF Retry, Phases, Phase, Positions, Ended
<1>8. ASSUME NEW c \in Calls, DecryptAction(c)
      PROVE  Phases'
  <2>1. CASE Retry(c, "action")
    BY <1>7, <1>8, <2>1 DEF Outputs, DecryptAction
  <2>2. CASE ~Retry(c, "action")
    BY <1>8, <2>2, GotoMoves DEF DecryptAction, Phases, Phase, Positions, Ended
  <2> QED
    BY <2>1, <2>2
<1>9. ASSUME NEW c \in Calls, DecryptConfidence(c)
      PROVE  Phases'
  <2>1. CASE Retry(c, "confidence")
    BY <1>7, <1>9, <2>1 DEF Outputs, DecryptConfidence
  <2>2. CASE ~Retry(c, "confidence")
    <3>1. /\ answer'[c] # NoAnswer
          /\ \A d \in Calls : d # c => answer'[d] = answer[d]
      BY <1>9, <2>2, AnswerIsAnAnswer DEF DecryptConfidence, TypeOK
    <3> QED
      BY <1>9, <2>2, <3>1, GotoMoves, SetTxSets
         DEF DecryptConfidence, Phases, Phase, Positions, TxStates, Kinds
  <2> QED
    BY <2>1, <2>2
<1>10. ASSUME NEW c \in Calls, Fault(c)
       PROVE  Phases'
  <2>1. \A k \in Kinds, d \in Calls :
          tx'[k][d] = IF d = c /\ tx[k][d] \in Unsent THEN "rejected" ELSE tx[k][d]
    BY <1>10 DEF Fault, TypeOK
  <2>2. UNCHANGED <<answer, charged, metered>>
    BY <1>10 DEF Fault
  <2>3. CASE api[c] \in Computing /\ Goto(c, "failed")
    BY <2>1, <2>2, <2>3, GotoMoves DEF Phases, Phase, Positions, Ended, Kinds, Unsent
  <2>4. CASE api[c] = "settling" /\ Goto(c, "unsettled")
    BY <2>1, <2>2, <2>4, GotoMoves DEF Phases, Phase, Positions, Ended, Kinds, Unsent
  <2> QED
    BY <1>10, <2>3, <2>4 DEF Fault
<1>11. ASSUME NEW c \in Calls, Settled(c)
       PROVE  Phases'
  BY <1>11, GotoMoves, SetTxSets DEF Settled, Phases, Phase, Positions, Ended, TxStates, Kinds
<1>12. ASSUME NEW c \in Calls, MeterSkipped(c)
       PROVE  Phases'
  BY <1>12, SetTxSets DEF MeterSkipped, Phases, Phase, TxStates, Kinds
<1>13. ASSUME NEW c \in Calls, Lapse(c)
       PROVE  Phases'
  BY <1>13, PhasesKept DEF Lapse
<1>14. ASSUME NEW id \in 1..Len(log[Engine]), NEW out \in Outputs, TeeCompute(id, out)
       PROVE  Phases'
  BY <1>14, PhasesKept DEF TeeCompute
<1>15. CASE ForeignDecision \/ SetRecorder
  BY <1>15, PhasesKept DEF ForeignDecision, SetRecorder
<1>16. CASE Crash
  <2>1. \A k \in Kinds, d \in Calls :
          tx'[k][d] = IF tx[k][d] \in Unsent THEN "rejected" ELSE tx[k][d]
    BY <1>16 DEF Crash
  <2>2. \A d \in Calls : api'[d] = IF api[d] \in Ended \cup {"idle"} THEN api[d] ELSE "lost"
    BY <1>16 DEF Crash
  <2>3. UNCHANGED <<answer, charged, metered>>
    BY <1>16 DEF Crash
  <2> QED
    BY <2>1, <2>2, <2>3 DEF Phases, Phase, Ended, Kinds, Unsent
<1>17. CASE UNCHANGED vars
  BY <1>17, PhasesKept DEF vars
<1> QED
  BY <1>1, <1>2, <1>3, <1>4, <1>5, <1>6, <1>8, <1>9, <1>10, <1>11, <1>12, <1>13, <1>14, <1>15,
     <1>16, <1>17 DEF Next, ServerStep

-----------------------------------------------------------------------------
(***************************************************************************)
(* Pending                                                                 *)
(***************************************************************************)

\* Steps that submit nothing and mine nothing
LEMMA PendingKept ==
  ASSUME TypeOK, Pending, UNCHANGED <<mempool, mined>>,
         \A k \in Kinds, c \in Calls :
           tx[k][c] \in {"sent"} \cup OnChain => tx'[k][c] = tx[k][c]
  PROVE  Pending'
<1>1. \A i \in 1..Len(mempool) : mempool[i] \in Kinds \X Calls
  <2> HIDE DEF Kinds
  <2> QED
    BY DEF TypeOK
<1>2. \A i \in 1..Len(mempool) : State(mempool[i])' = State(mempool[i])
  BY <1>1 DEF Pending, State
<1> QED
  BY <1>2 DEF Pending

\* Every step keeps the pending transactions apart: what is sent anew was never sent before.
LEMMA PendingStep == ASSUME TypeOK, Phases, Pending, [Next]_vars PROVE Pending'
<1> USE DEF callVars, walletVars, chainVars, OnChain
<1>1. ASSUME NEW k \in Kinds, NEW c \in Calls, Prepare(k, c)
      PROVE  Pending'
  BY <1>1, SetTxSets, PendingKept DEF Prepare, TxStates
<1>2. ASSUME NEW k \in Kinds, NEW c \in Calls, Send(k, c)
      PROVE  Pending'
  <2>1. CASE nonce[k][c] # Len(mempool)
    BY <1>2, <2>1, SetTxSets, PendingKept DEF Send, TxStates
  <2>2. CASE nonce[k][c] = Len(mempool)
    <3>1. /\ tx'[k][c] = "sent" /\ tx[k][c] = "prepared"
          /\ \A l \in Kinds, d \in Calls : l # k \/ d # c => tx'[l][d] = tx[l][d]
      BY <1>2, <2>2, SetTxSets DEF Send, TxStates
    <3>2. mempool' = Append(mempool, <<k, c>>) /\ mined' = mined
      BY <1>2, <2>2 DEF Send
    <3>3. <<k, c>> \in Kinds \X Calls /\ mempool \in Seq(Kinds \X Calls)
      BY DEF TypeOK
    <3>4. /\ Len(mempool) \in Nat /\ Len(mempool') = Len(mempool) + 1
          /\ \A i \in 1..Len(mempool) : mempool'[i] = mempool[i] /\ mempool[i] \in Kinds \X Calls
          /\ mempool'[Len(mempool) + 1] = <<k, c>>
      <4> HIDE DEF Kinds
      <4> QED
        BY <3>2, <3>3
    <3>5. \A i \in 1..Len(mempool) : mempool[i] # <<k, c>>
      BY <3>1 DEF Pending, State
    <3>6. \A i \in 1..Len(mempool) : State(mempool[i])' = State(mempool[i])
      <4>1. SUFFICES ASSUME NEW i \in 1..Len(mempool)
                     PROVE  tx'[mempool'[i][1]][mempool'[i][2]] = tx[mempool[i][1]][mempool[i][2]]
        BY DEF State
      <4>2. PICK l \in Kinds, d \in Calls : mempool[i] = <<l, d>>
        BY <3>4
      <4> QED
        BY <3>1, <3>4, <3>5, <4>2
    <3>7. State(<<k, c>>)' = "sent"
      BY <3>1 DEF State
    <3>8. \A i \in 1..Len(mempool') : i \in 1..Len(mempool) \/ i = Len(mempool) + 1
      BY <3>4
    <3>9. \A i \in 1..Len(mempool') : /\ State(mempool[i])' \in {"sent"} \cup OnChain
                                      /\ i > mined' => State(mempool[i])' = "sent"
      BY <3>2, <3>4, <3>6, <3>7, <3>8 DEF Pending, State
    <3>10. \A i, j \in 1..Len(mempool') : i # j => mempool'[i] # mempool'[j]
      BY <3>4, <3>5, <3>8 DEF Pending
    <3> QED
      BY <3>9, <3>10 DEF Pending
  <2> QED
    BY <2>1, <2>2
<1>3. CASE Mine
  <2>1. /\ mined < Len(mempool) /\ mined' = mined + 1 /\ mempool' = mempool
        /\ mined \in Nat /\ Len(mempool) \in Nat
    BY <1>3 DEF Mine, TypeOK
  <2>2. PICK k \in Kinds, c \in Calls :
          /\ mempool[mined + 1] = <<k, c>>
          /\ SetTx(k, c, "success") \/ SetTx(k, c, "reverted")
    BY <1>3 DEF Mine, MineDecide, MineSettle, MineMeter, Kinds
  <2>3. /\ tx'[k][c] \in OnChain
        /\ \A l \in Kinds, d \in Calls : l # k \/ d # c => tx'[l][d] = tx[l][d]
    BY <2>2, SetTxSets DEF TxStates
  <2>4. \A i \in 1..Len(mempool) : mempool[i] \in Kinds \X Calls
    <3> HIDE DEF Kinds
    <3> QED
      BY DEF TypeOK
  <2>5. \A i \in 1..Len(mempool) : i # mined + 1 => State(mempool[i])' = State(mempool[i])
    <3>1. SUFFICES ASSUME NEW i \in 1..Len(mempool), i # mined + 1
                   PROVE  tx'[mempool[i][1]][mempool[i][2]] = tx[mempool[i][1]][mempool[i][2]]
      BY <2>1 DEF State
    <3>2. mempool[i] # <<k, c>>
      BY <2>1, <2>2, <3>1 DEF Pending
    <3>3. PICK l \in Kinds, d \in Calls : mempool[i] = <<l, d>>
      BY <2>4
    <3> QED
      BY <2>3, <3>2, <3>3
  <2>6. \A i \in 1..Len(mempool) : i = mined + 1 => State(mempool[i])' \in OnChain
    BY <2>1, <2>2, <2>3 DEF State
  <2> QED
    BY <2>1, <2>5, <2>6 DEF Pending
<1>4. ASSUME NEW c \in Calls, Verify(c) \/ DecryptConfidence(c) \/ Settled(c) \/ MeterSkipped(c)
      PROVE  Pending'
  <2>1. CASE UNCHANGED tx
    BY <1>4, <2>1, PendingKept DEF Verify, DecryptConfidence, Settled, MeterSkipped, Retry
  <2>2. CASE \E k \in Kinds :
               /\ tx[k][c] \in {"idle", "new"}
               /\ SetTx(k, c, "new") \/ SetTx(k, c, "rejected")
    BY <1>4, <2>2, SetTxSets, PendingKept
       DEF Verify, DecryptConfidence, Settled, MeterSkipped, Retry, TxStates
  <2>3. tx["decide"][c] = "idle" \/ ~Verify(c)
    BY DEF Verify, Phases, Phase, Before
  <2>4. tx["settle"][c] = "idle" \/ ~DecryptConfidence(c)
    BY DEF DecryptConfidence, Phases, Phase, Unanswered, Computing
  <2>5. tx["meter"][c] = "idle" \/ ~Settled(c)
    BY DEF Settled, Phases, Phase
  <2> QED
    BY <1>4, <2>1, <2>2, <2>3, <2>4, <2>5
       DEF Verify, DecryptConfidence, Settled, MeterSkipped, Retry, Kinds
<1>5. ASSUME NEW c \in Calls, Fault(c)
      PROVE  Pending'
  <2>1. \A k \in Kinds, d \in Calls : tx[k][d] \notin Unsent => tx'[k][d] = tx[k][d]
    BY <1>5 DEF Fault, TypeOK
  <2> QED
    BY <1>5, <2>1, PendingKept DEF Fault, Unsent
<1>6. CASE Crash
  BY <1>6, PendingKept DEF Crash, Unsent
<1>7. CASE UNCHANGED walletVars
  BY <1>7, PendingKept
<1>8. ASSUME NEW c \in Calls,
             \/ Call(c) \/ ReadDecision(c) \/ DecideRejected(c) \/ ReceiptTimeout(c)
             \/ DecryptAction(c) \/ NotSettled(c) \/ Lapse(c)
      PROVE  UNCHANGED walletVars
  BY <1>8 DEF Call, ReadDecision, DecideRejected, ReceiptTimeout, DecryptAction, Retry,
              NotSettled, Lapse
<1>9. ASSUME \/ \E id \in 1..Len(log[Engine]), out \in Outputs : TeeCompute(id, out)
             \/ ForeignDecision \/ SetRecorder \/ UNCHANGED vars
      PROVE  UNCHANGED walletVars
  BY <1>9 DEF TeeCompute, ForeignDecision, SetRecorder, vars
<1> QED
  BY <1>1, <1>2, <1>3, <1>4, <1>5, <1>6, <1>7, <1>8, <1>9 DEF Next, ServerStep

-----------------------------------------------------------------------------
(***************************************************************************)
(* Answers                                                                 *)
(***************************************************************************)

\* Steps that leave the log, ids and answers alone, and start no decryption
LEMMA AnswersKept ==
  ASSUME Answers, UNCHANGED <<log, decisionId, answer>>, ready \subseteq ready',
         \A c \in Calls : /\ api'[c] \in Decrypting => api'[c] = api[c]
                          /\ tx["decide"][c] \in OnChain => tx'["decide"][c] = tx["decide"][c]
  PROVE  Answers'
BY DEF Answers, NoOlder, Decrypting, OnChain

\* The log grows by an entry of r's, and r, if it is a call, has its transaction mined.
LEMMA AnswersGrown ==
  ASSUME TypeOK, Answers, NEW r \in Requesters,
         Decisions!Commit(Engine, [caller |-> r, block |-> mined + 1]),
         UNCHANGED <<api, decisionId, answer, ready>>,
         \A c \in Calls : IF c = r
                          THEN tx["decide"][c] \notin OnChain /\ tx'["decide"][c] = "success"
                          ELSE tx'["decide"][c] = tx["decide"][c]
  PROVE  Answers'
<1>1. /\ Len(log'[Engine]) = Len(log[Engine]) + 1 /\ Len(log[Engine]) \in Nat
      /\ \A i \in 1..Len(log[Engine]) : log'[Engine][i] = log[Engine][i]
      /\ log'[Engine][Len(log[Engine]) + 1].caller = r
  <2>1. Len(log[Engine]) \in Nat
    BY DEF TypeOK
  <2> QED
    BY <2>1, CommitAppends
<1>2. \A i \in 1..Len(log'[Engine]) : i \in 1..Len(log[Engine]) \/ i = Len(log[Engine]) + 1
  BY <1>1
<1>3. ASSUME NEW c \in Calls, c # r, NEW i \in 1..Len(log[Engine]), NoOlder(c, i)
      PROVE  /\ i \in 1..Len(log'[Engine])
             /\ \A own \in 1..Len(log'[Engine]) : log'[Engine][own].caller = c => i >= own
             /\ log'[Engine][i] = log[Engine][i]
  BY <1>1, <1>2, <1>3 DEF NoOlder
<1>4. ASSUME NEW c \in Calls, NEW own \in 1..Len(log'[Engine]), log'[Engine][own].caller = c
      PROVE  tx'["decide"][c] = "success"
  BY <1>1, <1>2, <1>4 DEF Answers
<1>5. ASSUME NEW c \in Calls, c = r
      PROVE  api[c] \notin Decrypting /\ answer[c] = NoAnswer
  BY <1>5 DEF Answers
<1>6. SUFFICES ASSUME NEW c \in Calls
               PROVE  /\ api[c] \in Decrypting => /\ tx'["decide"][c] \in OnChain
                                                  /\ NoOlder(c, decisionId[c])'
                      /\ answer[c] # NoAnswer =>
                           /\ tx'["decide"][c] \in OnChain /\ NoOlder(c, answer[c].id)'
                           /\ answer[c].result = log'[Engine][answer[c].id].caller
  BY <1>4, <1>6 DEF Answers, Decrypting
<1>7. CASE c = r
  BY <1>5, <1>7
<1>8. CASE c # r
  <2>1. ASSUME api[c] \in Decrypting
        PROVE  tx'["decide"][c] \in OnChain /\ NoOlder(c, decisionId[c])'
    <3>1. NoOlder(c, decisionId[c]) /\ decisionId[c] \in 1..Len(log[Engine])
      BY <2>1 DEF Answers, NoOlder
    <3> QED
      BY <1>3, <1>8, <2>1, <3>1 DEF Answers, NoOlder
  <2>2. ASSUME answer[c] # NoAnswer
        PROVE  /\ tx'["decide"][c] \in OnChain /\ NoOlder(c, answer[c].id)'
               /\ answer[c].result = log'[Engine][answer[c].id].caller
    <3>1. NoOlder(c, answer[c].id) /\ answer[c].id \in 1..Len(log[Engine])
      BY <2>2 DEF Answers, NoOlder
    <3> QED
      BY <1>3, <1>8, <2>2, <3>1 DEF Answers, NoOlder
  <2> QED
    BY <2>1, <2>2
<1> QED
  BY <1>7, <1>8

\* Every step keeps the answers: the log only grows, and after a call's receipt not by its own.
LEMMA AnswersStep == ASSUME TypeOK, Phases, Pending, Answers, [Next]_vars PROVE Answers'
<1> USE DEF callVars, walletVars, chainVars
<1>1. ASSUME NEW k \in Kinds, NEW c \in Calls, Prepare(k, c) \/ Send(k, c)
      PROVE  Answers'
  <2>1. /\ tx[k][c] \notin OnChain
        /\ \A l \in Kinds, d \in Calls : l # k \/ d # c => tx'[l][d] = tx[l][d]
    BY <1>1, SetTxSets DEF Prepare, Send, TxStates, OnChain
  <2> QED
    BY <1>1, <2>1, AnswersKept DEF Prepare, Send, Kinds
<1>2. CASE Mine
  <2>1. mined < Len(mempool) /\ UNCHANGED <<api, decisionId, answer, ready>>
    BY <1>2 DEF Mine
  <2>2. ASSUME NEW c \in Calls, MineDecide(c)
        PROVE  Answers'
    <3>1. tx["decide"][c] = "sent"
      BY <2>1, <2>2, MinedWasSent DEF MineDecide, Kinds
    <3>2. CASE recorder
      <4>1. /\ tx'["decide"][c] = "success"
            /\ \A d \in Calls : d # c => tx'["decide"][d] = tx["decide"][d]
        BY <2>2, <3>2, SetTxSets DEF MineDecide, TxStates, Kinds
      <4> QED
        BY <2>1, <2>2, <3>1, <3>2, <4>1, AnswersGrown DEF MineDecide, Requesters, OnChain
    <3>3. CASE ~recorder
      <4>1. \A d \in Calls : d # c => tx'["decide"][d] = tx["decide"][d]
        BY <2>2, <3>3, SetTxSets DEF MineDecide, TxStates, Kinds
      <4> QED
        BY <2>1, <2>2, <3>1, <3>3, <4>1, AnswersKept DEF MineDecide, OnChain
    <3> QED
      BY <3>2, <3>3
  <2>3. ASSUME NEW c \in Calls, MineSettle(c) \/ MineMeter(c)
        PROVE  Answers'
    <3>1. \A d \in Calls : tx'["decide"][d] = tx["decide"][d]
      BY <2>3, SetTxSets DEF MineSettle, MineMeter, TxStates, Kinds
    <3> QED
      BY <2>1, <2>3, <3>1, AnswersKept DEF MineSettle, MineMeter
  <2> QED
    BY <1>2, <2>2, <2>3 DEF Mine
<1>3. ASSUME NEW c \in Calls, Call(c) \/ DecideRejected(c) \/ ReceiptTimeout(c) \/ NotSettled(c)
      PROVE  Answers'
  <2>1. \A d \in Calls : api'[d] \in Decrypting => api'[d] = api[d]
    BY <1>3, GotoMoves
       DEF Call, DecideRejected, ReceiptTimeout, NotSettled, Positions, Ended, Decrypting
  <2> QED
    BY <1>3, <2>1, AnswersKept DEF Call, DecideRejected, ReceiptTimeout, NotSettled
<1>4. ASSUME NEW c \in Calls, Verify(c) \/ Settled(c) \/ MeterSkipped(c)
      PROVE  Answers'
  <2>1. \A d \in Calls : api'[d] \in Decrypting => api'[d] = api[d]
    BY <1>4, GotoMoves DEF Verify, Settled, MeterSkipped, Positions, Ended, Computing, Decrypting
  <2>2. \A d \in Calls : tx["decide"][d] \in OnChain => tx'["decide"][d] = tx["decide"][d]
    BY <1>4, SetTxSets
       DEF Verify, Settled, MeterSkipped, TxStates, Kinds, OnChain, Phases, Phase, Before
  <2> QED
    BY <1>4, <2>1, <2>2, AnswersKept DEF Verify, Settled, MeterSkipped
<1>5. ASSUME NEW c \in Calls, ReadDecision(c)
      PROVE  Answers'
  <2>1. PICK p \in {"failed", "decryptingAction"} :
          Goto(c, p) /\ (p = "decryptingAction" => Len(log[Engine]) # 0)
    BY <1>5 DEF ReadDecision
  <2>2. /\ api'[c] = p /\ \A d \in Calls : d # c => api'[d] = api[d]
    BY <2>1, GotoMoves DEF Positions, Ended, Computing
  <2>3. /\ decisionId'[c] = Len(log[Engine])
        /\ \A d \in Calls : d # c => decisionId'[d] = decisionId[d]
        /\ UNCHANGED <<answer, tx, log, ready>> /\ tx["decide"][c] \in OnChain
    BY <1>5 DEF ReadDecision, TypeOK, OnChain
  <2>4. Len(log[Engine]) \in Nat
    BY DEF TypeOK
  <2>5. p = "decryptingAction" => NoOlder(c, Len(log[Engine]))
    BY <2>1, <2>4 DEF NoOlder
  <2>6. \A d \in Calls : \A i : NoOlder(d, i)' <=> NoOlder(d, i)
    BY <2>3 DEF NoOlder
  <2>7. \A d \in Calls : api'[d] \in Decrypting =>
          tx["decide"][d] \in OnChain /\ NoOlder(d, decisionId'[d])
    BY <2>1, <2>2, <2>3, <2>5 DEF Answers, Decrypting
  <2>8. \A d \in Calls : api'[d] = "decryptingConfidence" => <<decisionId'[d], "action">> \in ready
    BY <2>1, <2>2, <2>3 DEF Answers
  <2> QED
    BY <2>3, <2>6, <2>7, <2>8 DEF Answers
<1>6. ASSUME NEW c \in Calls, NEW out \in Outputs, Retry(c, out)
      PROVE  Answers'
  <2>1. \A d \in Calls : api'[d] \in Decrypting => api'[d] = api[d]
    BY <1>6, GotoMoves DEF Retry, Positions, Ended, Decrypting
  <2> QED
    BY <1>6, <2>1, AnswersKept DEF Retry
<1>7. ASSUME NEW c \in Calls, DecryptAction(c)
      PROVE  Answers'
  <2>1. CASE Retry(c, "action")
    BY <1>6, <2>1 DEF Outputs
  <2>2. CASE ~Retry(c, "action")
    <3>1. /\ api[c] = "decryptingAction" /\ api'[c] = "decryptingConfidence"
          /\ \A d \in Calls : d # c => api'[d] = api[d]
      BY <1>7, <2>2, GotoMoves DEF DecryptAction, Positions, Computing
    <3>2. <<decisionId[c], "action">> \in ready
      BY <1>7, <2>2 DEF DecryptAction, Served
    <3>3. UNCHANGED <<decisionId, answer, tx, log, ready>>
      BY <1>7, <2>2 DEF DecryptAction
    <3> QED
      BY <3>1, <3>2, <3>3 DEF Answers, NoOlder, Decrypting
  <2> QED
    BY <2>1, <2>2
<1>8. ASSUME NEW c \in Calls, DecryptConfidence(c)
      PROVE  Answers'
  <2>1. CASE Retry(c, "confidence")
    BY <1>6, <2>1 DEF Outputs
  <2>2. CASE ~Retry(c, "confidence")
    <3>1. /\ api[c] = "decryptingConfidence" /\ api'[c] = "settling"
          /\ \A d \in Calls : d # c => api'[d] = api[d]
      BY <1>8, <2>2, GotoMoves DEF DecryptConfidence, Positions
    <3>2. \A out \in Outputs : <<decisionId[c], out>> \in ready
      BY <1>8, <2>2, <3>1 DEF DecryptConfidence, Served, Answers, Outputs
    <3>3. UNCHANGED <<decisionId, log, ready>>
      BY <1>8, <2>2 DEF DecryptConfidence
    <3>4. \A d \in Calls : tx'["decide"][d] = tx["decide"][d]
      BY <1>8, <2>2, SetTxSets DEF DecryptConfidence, TxStates, Kinds
    <3>5. /\ answer'[c] = [id |-> decisionId[c],
                           result |-> log[Engine][decisionId[c]].caller]
          /\ \A d \in Calls : d # c => answer'[d] = answer[d]
      BY <1>8, <2>2 DEF DecryptConfidence, TypeOK
    <3>6. answer'[c].id = decisionId[c] /\ answer'[c].result = log[Engine][decisionId[c]].caller
      BY <3>5
    <3> QED
      BY <3>1, <3>2, <3>3, <3>4, <3>5, <3>6 DEF Answers, NoOlder, Decrypting
  <2> QED
    BY <2>1, <2>2
<1>9. ASSUME NEW c \in Calls, Fault(c)
      PROVE  Answers'
  <2>1. \A d \in Calls : api'[d] \in Decrypting => api'[d] = api[d]
    BY <1>9, GotoMoves DEF Fault, Positions, Ended, Decrypting
  <2>2. \A d \in Calls : tx["decide"][d] \in OnChain => tx'["decide"][d] = tx["decide"][d]
    BY <1>9 DEF Fault, TypeOK, Kinds, OnChain, Unsent
  <2> QED
    BY <1>9, <2>1, <2>2, AnswersKept DEF Fault
<1>10. ASSUME NEW c \in Calls, Lapse(c)
       PROVE  Answers'
  BY <1>10, AnswersKept DEF Lapse
<1>11. ASSUME NEW id \in 1..Len(log[Engine]), NEW out \in Outputs, TeeCompute(id, out)
       PROVE  Answers'
  BY <1>11, AnswersKept DEF TeeCompute
<1>12. CASE ForeignDecision
  BY <1>12, AnswersGrown, CallsAssumption DEF ForeignDecision, Requesters
<1>13. CASE SetRecorder
  BY <1>13, AnswersKept DEF SetRecorder
<1>14. CASE Crash
  <2>1. \A d \in Calls : api'[d] \in Decrypting => api'[d] = api[d]
    BY <1>14 DEF Crash, Ended, Decrypting
  <2>2. \A d \in Calls : tx["decide"][d] \in OnChain => tx'["decide"][d] = tx["decide"][d]
    BY <1>14 DEF Crash, Kinds, OnChain, Unsent
  <2> QED
    BY <1>14, <2>1, <2>2, AnswersKept DEF Crash
<1>15. CASE UNCHANGED vars
  BY <1>15, AnswersKept DEF vars
<1> QED
  BY <1>1, <1>2, <1>3, <1>4, <1>5, <1>7, <1>8, <1>9, <1>10, <1>11, <1>12, <1>13, <1>14, <1>15
     DEF Next, ServerStep

-----------------------------------------------------------------------------
(***************************************************************************)
(* The theorems                                                            *)
(***************************************************************************)

\* The inductive invariant holds in every reachable state.
THEOREM Invariance == Spec => []IInv
<1>1. IInv /\ [Next]_vars => IInv'
  BY TypeStep, PhasesStep, PendingStep, AnswersStep DEF IInv
<1> QED
  BY InitInv, <1>1, PTL DEF Spec

\* The state is well typed, for any number of calls.
THEOREM Typing == Spec => []TypeOK
<1>1. IInv => TypeOK
  BY DEF IInv
<1> QED
  BY Invariance, <1>1, PTL

\* Nobody pays for nothing (runConfidentialDecision, and the gate that settles after it).
THEOREM ChargesAreForDecisions == Spec => []ChargedForADecision
<1>1. ASSUME IInv, NEW c \in charged
      PROVE  /\ answer[c] # NoAnswer
             /\ answer[c].id \in 1..Len(log[Engine])
             /\ answer[c].result = log[Engine][answer[c].id].caller
             /\ \A out \in Outputs : <<answer[c].id, out>> \in ready
  <2>1. c \in Calls
    BY <1>1 DEF IInv, TypeOK
  <2>2. answer[c] # NoAnswer
    BY <1>1, <2>1 DEF IInv, Phases, Phase
  <2> QED
    BY <1>1, <2>1, <2>2 DEF IInv, Answers, NoOlder
<1>2. IInv => ChargedForADecision
  BY <1>1 DEF ChargedForADecision
<1> QED
  BY Invariance, <1>2, PTL

\* Answers go out once they are paid for, and what was refused or failed never costs.  (A call
\* whose settlement timed out is neither, and may be charged after it was told 402.)
THEOREM PaymentsMatchOutcomes == Spec => []PaymentMatchesOutcome
<1>1. IInv => PaymentMatchesOutcome
  BY DEF IInv, Phases, Phase, PaymentMatchesOutcome, Unanswered, Before
<1> QED
  BY Invariance, <1>1, PTL

\* No handler answers a decision older than its own (decisionCount after the receipt).
THEOREM AnswersAreNoOlder == Spec => []NeverAnOlderDecision
<1>1. IInv => NeverAnOlderDecision
  BY DEF IInv, Answers, NoOlder, NeverAnOlderDecision
<1> QED
  BY Invariance, <1>1, PTL

\* The meter records a payment once or never (the facilitator's detached meter).
THEOREM MeteringIsAtMostOnce == Spec => []MeteredAtMostOnce
<1>1. IInv => MeteredAtMostOnce
  BY DEF IInv, Phases, Phase, MeteredAtMostOnce
<1> QED
  BY Invariance, <1>1, PTL

-----------------------------------------------------------------------------
\* Steps that answer, charge and deliver nothing are stutters of the promise.
LEMMA OtherStepsStutter ==
  ASSUME UNCHANGED <<answer, charged>>,
         \A c \in Calls : api'[c] = "delivered" <=> api[c] = "delivered"
  PROVE  UNCHANGED Promise!vars
BY DEF Promise!vars

\* Each step is one of the promise's, or a stutter.
LEMMA PromiseStep ==
  ASSUME IInv, [Next]_vars
  PROVE  [Promise!Next]_Promise!vars
<1> USE DEF callVars, walletVars, chainVars
<1>0. TypeOK /\ Phases /\ Pending /\ Answers
  BY DEF IInv
<1>1. ASSUME NEW c \in Calls, DecryptConfidence(c)
      PROVE  [Promise!Next]_Promise!vars
  <2>1. CASE Retry(c, "confidence")
    <3>1. \A d \in Calls : api'[d] = "delivered" <=> api[d] = "delivered"
      BY <1>0, <1>1, <2>1, GotoMoves DEF DecryptConfidence, Retry, Positions, Ended
    <3> QED
      BY <2>1, <3>1, OtherStepsStutter DEF Retry
  <2>2. CASE ~Retry(c, "confidence")
    <3>1. /\ answer'[c] # NoAnswer /\ \A d \in Calls : d # c => answer'[d] = answer[d]
      BY <1>0, <1>1, <2>2, AnswerIsAnAnswer DEF DecryptConfidence, TypeOK
    <3>2. answer[c] = NoAnswer
      BY <1>0, <1>1 DEF DecryptConfidence, Phases, Phase, Unanswered, Computing
    <3>3. /\ UNCHANGED charged
          /\ \A d \in Calls : api'[d] = "delivered" <=> api[d] = "delivered"
      BY <1>0, <1>1, <2>2, GotoMoves DEF DecryptConfidence, Positions
    <3>4. Promise!Answer(c)
      BY <3>1, <3>2, <3>3 DEF Promise!Answer
    <3> QED
      BY <3>4 DEF Promise!Next
  <2> QED
    BY <2>1, <2>2
<1>2. CASE Mine
  <2>1. mined < Len(mempool) /\ UNCHANGED <<api, answer>>
    BY <1>2 DEF Mine
  <2>2. ASSUME NEW c \in Calls, MineSettle(c)
        PROVE  [Promise!Next]_Promise!vars
    <3>1. tx["settle"][c] = "sent"
      BY <1>0, <2>1, <2>2, MinedWasSent DEF MineSettle, Kinds
    <3>2. answer[c] # NoAnswer /\ c \notin charged
      BY <1>0, <3>1 DEF Phases, Phase
    <3>3. CASE charged' = charged \cup {c}
      <4>1. Promise!Charge(c)
        BY <2>1, <3>2, <3>3 DEF Promise!Charge
      <4> QED
        BY <4>1 DEF Promise!Next
    <3>4. CASE UNCHANGED charged
      BY <2>1, <3>4, OtherStepsStutter
    <3> QED
      BY <2>2, <3>3, <3>4 DEF MineSettle
  <2>3. ASSUME NEW c \in Calls, MineDecide(c) \/ MineMeter(c)
        PROVE  [Promise!Next]_Promise!vars
    BY <2>1, <2>3, OtherStepsStutter DEF MineDecide, MineMeter
  <2> QED
    BY <1>2, <2>2, <2>3 DEF Mine
<1>3. ASSUME NEW c \in Calls, Settled(c)
      PROVE  [Promise!Next]_Promise!vars
  <2>1. api[c] = "settling" /\ c \in charged /\ UNCHANGED <<answer, charged>>
    BY <1>0, <1>3 DEF Settled, Phases, Phase
  <2>2. CASE Goto(c, "delivered")
    <3>1. api'[c] = "delivered" /\ \A d \in Calls : d # c => api'[d] = api[d]
      BY <1>0, <2>2, GotoMoves DEF Positions, Ended
    <3>2. Promise!Deliver(c)
      BY <2>1, <3>1 DEF Promise!Deliver
    <3> QED
      BY <3>2 DEF Promise!Next
  <2>3. CASE Goto(c, "unsettled")
    <3>1. \A d \in Calls : api'[d] = "delivered" <=> api[d] = "delivered"
      BY <1>0, <2>1, <2>3, GotoMoves DEF Positions, Ended
    <3> QED
      BY <2>1, <3>1, OtherStepsStutter
  <2> QED
    BY <1>3, <2>2, <2>3 DEF Settled
<1>4. ASSUME NEW c \in Calls,
             \/ Call(c) \/ Verify(c) \/ ReadDecision(c) \/ DecideRejected(c) \/ ReceiptTimeout(c)
             \/ DecryptAction(c) \/ NotSettled(c) \/ Fault(c)
      PROVE  [Promise!Next]_Promise!vars
  <2>1. /\ UNCHANGED <<answer, charged>>
        /\ \E p \in Positions \ {"delivered"} : Goto(c, p) \/ UNCHANGED api
        /\ api[c] # "delivered"
    BY <1>4 DEF Call, Verify, ReadDecision, DecideRejected, ReceiptTimeout, DecryptAction, Retry,
                NotSettled, Fault, Positions, Ended, Computing
  <2>2. \A d \in Calls : api'[d] = "delivered" <=> api[d] = "delivered"
    BY <1>0, <2>1, GotoMoves
  <2> QED
    BY <2>1, <2>2, OtherStepsStutter
<1>5. CASE Crash
  <2>1. \A d \in Calls : api'[d] = "delivered" <=> api[d] = "delivered"
    BY <1>5 DEF Crash, Ended
  <2> QED
    BY <1>5, <2>1, OtherStepsStutter DEF Crash
<1>6. CASE UNCHANGED <<api, answer, charged>>
  BY <1>6, OtherStepsStutter
<1>7. ASSUME NEW c \in Calls,
             MeterSkipped(c) \/ Lapse(c) \/ \E k \in Kinds : Prepare(k, c) \/ Send(k, c)
      PROVE  UNCHANGED <<api, answer, charged>>
  BY <1>7 DEF MeterSkipped, Lapse, Prepare, Send
<1>8. ASSUME \/ \E id \in 1..Len(log[Engine]), out \in Outputs : TeeCompute(id, out)
             \/ ForeignDecision \/ SetRecorder \/ UNCHANGED vars
      PROVE  UNCHANGED <<api, answer, charged>>
  BY <1>8 DEF TeeCompute, ForeignDecision, SetRecorder, vars
<1> QED
  BY <1>1, <1>2, <1>3, <1>4, <1>5, <1>6, <1>7, <1>8 DEF Next, ServerStep

\* cde-api keeps what every c402 endpoint promises: answer, payment and delivery come in this
\* order, and none is undone.
THEOREM KeepsThePromise == Spec => ImplementsPaidCall
<1>1. Init => Promise!Init
  BY DEF Init, Promise!Init
<1>2. IInv /\ [Next]_vars => [Promise!Next]_Promise!vars
  BY PromiseStep
<1> QED
  BY Invariance, <1>1, <1>2, PTL DEF Spec, ImplementsPaidCall, Promise!Spec

-----------------------------------------------------------------------------
(***************************************************************************)
(* When the documents' claims hold                                         *)
(*                                                                         *)
(* The claims that concurrent calls refute hold of a call that is alone    *)
(* (nobody else has called yet), and, of the recorder, for as long as the  *)
(* owner leaves it alone.                                                  *)
(***************************************************************************)
Alone(c) == \A d \in Calls \ {c} : api[d] = "idle"

\* No decide() reverts before the owner has touched the recorder.
Untouched ==
  recorderChanges = 0 => recorder /\ \A c \in Calls : tx["decide"][c] # "reverted"

\* Nobody takes the nonce of a call that is alone: its transactions go out one by one.
LoneNonces ==
  \A c \in Calls : Alone(c) => \A k \in Kinds :
    /\ tx[k][c] = "prepared" => nonce[k][c] = Len(mempool)
    /\ tx[k][c] # "nonceTaken"

\* Steps that leave the recorder alone, and revert no decide()
LEMMA UntouchedKept ==
  ASSUME Untouched, UNCHANGED <<recorder, recorderChanges>>,
         \A c \in Calls : tx'["decide"][c] = "reverted" => tx["decide"][c] = "reverted"
  PROVE  Untouched'
BY DEF Untouched

\* Only mining reverts a transaction, and decide() only when the recorder was revoked.
LEMMA UntouchedStep == ASSUME TypeOK, Untouched, [Next]_vars PROVE Untouched'
<1> USE DEF callVars, walletVars, chainVars
<1>1. ASSUME NEW c \in Calls,
             \/ Verify(c) \/ DecryptConfidence(c) \/ Settled(c) \/ MeterSkipped(c)
             \/ \E k \in Kinds : Prepare(k, c) \/ Send(k, c)
      PROVE  Untouched'
  <2>1. /\ UNCHANGED <<recorder, recorderChanges>>
        /\ UNCHANGED tx \/ \E k \in Kinds, s \in TxStates \ {"reverted"} : SetTx(k, c, s)
    BY <1>1 DEF Verify, DecryptConfidence, Retry, Settled, MeterSkipped, Prepare, Send, Kinds, TxStates
  <2>2. CASE \E k \in Kinds, s \in TxStates \ {"reverted"} : SetTx(k, c, s)
    <3>1. PICK k \in Kinds, s \in TxStates \ {"reverted"} : SetTx(k, c, s)
      BY <2>2
    <3>2. \A d \in Calls : tx'["decide"][d] = "reverted" => tx["decide"][d] = "reverted"
      BY <3>1, SetTxSets DEF Kinds
    <3> QED
      BY <2>1, <3>2, UntouchedKept
  <2> QED
    BY <2>1, <2>2, UntouchedKept
<1>2. ASSUME NEW c \in Calls,
             \/ Call(c) \/ ReadDecision(c) \/ DecideRejected(c) \/ ReceiptTimeout(c)
             \/ DecryptAction(c) \/ NotSettled(c) \/ Lapse(c)
      PROVE  UNCHANGED <<tx, recorder, recorderChanges>>
  BY <1>2 DEF Call, ReadDecision, DecideRejected, ReceiptTimeout, DecryptAction, Retry, NotSettled,
              Lapse
<1>3. CASE Mine
  <2>1. UNCHANGED <<recorder, recorderChanges>>
    BY <1>3 DEF Mine
  <2>2. ASSUME NEW c \in Calls, MineDecide(c)
        PROVE  Untouched'
    <3>1. CASE recorder
      <4>1. \A d \in Calls : tx'["decide"][d] = "reverted" => tx["decide"][d] = "reverted"
        BY <2>2, <3>1, SetTxSets DEF MineDecide, Kinds, TxStates
      <4> QED
        BY <2>1, <4>1, UntouchedKept
    <3>2. CASE ~recorder
      BY <2>1, <3>2 DEF Untouched
    <3> QED
      BY <3>1, <3>2
  <2>3. ASSUME NEW c \in Calls, MineSettle(c) \/ MineMeter(c)
        PROVE  Untouched'
    <3>1. \A d \in Calls : tx'["decide"][d] = tx["decide"][d]
      BY <2>3, SetTxSets DEF MineSettle, MineMeter, Kinds, TxStates
    <3> QED
      BY <2>1, <3>1, UntouchedKept
  <2> QED
    BY <1>3, <2>2, <2>3 DEF Mine
<1>4. ASSUME NEW c \in Calls, Fault(c)
      PROVE  Untouched'
  <2>1. \A d \in Calls : tx'["decide"][d] = "reverted" => tx["decide"][d] = "reverted"
    BY <1>4 DEF Fault, TypeOK, Kinds, Unsent
  <2> QED
    BY <1>4, <2>1, UntouchedKept DEF Fault
<1>5. CASE Crash
  <2>1. \A d \in Calls : tx'["decide"][d] = "reverted" => tx["decide"][d] = "reverted"
    BY <1>5 DEF Crash, Kinds, Unsent
  <2> QED
    BY <1>5, <2>1, UntouchedKept DEF Crash
<1>6. CASE SetRecorder
  BY <1>6 DEF SetRecorder, Untouched, TypeOK
<1>7. ASSUME \/ \E id \in 1..Len(log[Engine]), out \in Outputs : TeeCompute(id, out)
             \/ ForeignDecision \/ UNCHANGED vars
      PROVE  UNCHANGED <<tx, recorder, recorderChanges>>
  BY <1>7 DEF TeeCompute, ForeignDecision, vars
<1>8. CASE UNCHANGED <<tx, recorder, recorderChanges>>
  BY <1>8, UntouchedKept
<1> QED
  BY <1>1, <1>2, <1>3, <1>4, <1>5, <1>6, <1>7, <1>8 DEF Next, ServerStep

\* A call is charged for a decision it caused, until the owner touches the recorder
\* (setRecorder): its decide() was mined, and reverts only for an engine that was revoked.
THEOREM OwnUntilTheRecorderChanges == Spec => [](recorderChanges = 0 => ChargedForOwnDecision)
<1>1. Init => Untouched
  BY DEF Init, Untouched, Kinds
<1>2. IInv /\ Untouched /\ [Next]_vars => Untouched'
  BY UntouchedStep DEF IInv
<1>3. IInv /\ Untouched => (recorderChanges = 0 => ChargedForOwnDecision)
  <2> SUFFICES ASSUME IInv, Untouched, recorderChanges = 0, NEW c \in charged
               PROVE  tx["decide"][c] = "success"
    BY DEF ChargedForOwnDecision
  <2>1. c \in Calls
    BY DEF IInv, TypeOK
  <2>2. answer[c] # NoAnswer
    BY <2>1 DEF IInv, Phases, Phase
  <2>3. tx["decide"][c] \in OnChain
    BY <2>1, <2>2 DEF IInv, Answers
  <2> QED
    BY <2>1, <2>3 DEF Untouched, OnChain
<1> QED
  BY Invariance, <1>1, <1>2, <1>3, PTL DEF Spec

\* A call that has not been made has sent nothing.
LEMMA UnmadeCallsAreQuiet ==
  ASSUME Phases, NEW d \in Calls, api[d] = "idle", NEW k \in Kinds
  PROVE  tx[k][d] = "idle"
BY DEF Phases, Phase, Before, Unanswered, Kinds

\* The server sends one transaction of a call after the other.
LEMMA OneAtATime ==
  ASSUME Phases, Answers, NEW c \in Calls, NEW k \in Kinds, tx[k][c] \in Unsent,
         NEW l \in Kinds, l # k
  PROVE  tx[l][c] \notin Unsent
<1>1. tx["settle"][c] # "idle" => tx["decide"][c] \in OnChain
  BY DEF Phases, Phase, Answers
<1>2. tx["meter"][c] # "idle" => tx["settle"][c] = "success"
  BY DEF Phases, Phase
<1> QED
  BY <1>1, <1>2 DEF Kinds, Unsent, OnChain

\* Steps that submit nothing and prepare nothing
LEMMA NoncesKept ==
  ASSUME LoneNonces, UNCHANGED <<nonce, mempool>>,
         \A c \in Calls : api'[c] = "idle" => api[c] = "idle",
         \A k \in Kinds, c \in Calls :
           tx'[k][c] \in {"prepared", "nonceTaken"} => tx'[k][c] = tx[k][c]
  PROVE  LoneNonces'
<1> SUFFICES ASSUME NEW c \in Calls, Alone(c)', NEW k \in Kinds
             PROVE  /\ tx'[k][c] = "prepared" => nonce[k][c] = Len(mempool)
                    /\ tx'[k][c] # "nonceTaken"
  BY DEF LoneNonces
<1>1. Alone(c)
  BY DEF Alone
<1> QED
  BY <1>1 DEF LoneNonces

\* No step makes a call unmade.
LEMMA CallsStayMade ==
  ASSUME TypeOK, [Next]_vars, NEW d \in Calls, api'[d] = "idle"
  PROVE  api[d] = "idle"
<1> USE DEF callVars, walletVars, chainVars
<1>1. ASSUME NEW c \in Calls,
             \/ Call(c) \/ Verify(c) \/ ReadDecision(c) \/ DecideRejected(c) \/ ReceiptTimeout(c)
             \/ DecryptAction(c) \/ DecryptConfidence(c) \/ Settled(c) \/ NotSettled(c) \/ Fault(c)
      PROVE  api[d] = "idle"
  <2>1. UNCHANGED api \/ \E p \in Positions \ {"idle"} : Goto(c, p)
    BY <1>1 DEF Call, Verify, ReadDecision, DecideRejected, ReceiptTimeout, DecryptAction,
                DecryptConfidence, Retry, Settled, NotSettled, Fault, Positions, Ended, Computing
  <2> QED
    BY <2>1, GotoMoves
<1>2. CASE Crash
  BY <1>2 DEF Crash
<1>3. ASSUME NEW c \in Calls,
             MeterSkipped(c) \/ Lapse(c) \/ \E k \in Kinds : Prepare(k, c) \/ Send(k, c)
      PROVE  UNCHANGED api
  BY <1>3 DEF MeterSkipped, Lapse, Prepare, Send
<1>4. ASSUME \/ \E id \in 1..Len(log[Engine]), out \in Outputs : TeeCompute(id, out)
             \/ Mine \/ ForeignDecision \/ SetRecorder \/ UNCHANGED vars
      PROVE  UNCHANGED api
  BY <1>4 DEF Mine, TeeCompute, ForeignDecision, SetRecorder, vars
<1> QED
  BY <1>1, <1>2, <1>3, <1>4 DEF Next, ServerStep

\* A call that is alone prepares a transaction only when its last one has gone out, and
\* nobody sends between the two.
LEMMA LoneNoncesStep ==
  ASSUME TypeOK, Phases, Pending, Answers, LoneNonces, [Next]_vars
  PROVE  LoneNonces'
<1> USE DEF callVars, walletVars, chainVars
<1>0. \A d \in Calls : api'[d] = "idle" => api[d] = "idle"
  BY CallsStayMade
<1>1. ASSUME NEW k \in Kinds, NEW d \in Calls, Prepare(k, d) \/ Send(k, d)
      PROVE  LoneNonces'
  <2> SUFFICES ASSUME NEW c \in Calls, Alone(c)', NEW l \in Kinds
               PROVE  /\ tx'[l][c] = "prepared" => nonce'[l][c] = Len(mempool')
                      /\ tx'[l][c] # "nonceTaken"
    BY DEF LoneNonces
  <2>1. Alone(c)
    BY <1>0 DEF Alone
  <2>2. tx[k][d] \in Unsent
    BY <1>1 DEF Prepare, Send, Unsent
  <2>3. d = c
    BY <2>1, <2>2, UnmadeCallsAreQuiet DEF Alone, Unsent
  <2>4. \A m \in Kinds : m # k => tx[m][c] \notin Unsent
    BY <2>2, <2>3, OneAtATime
  <2>5. \A m \in Kinds : m # k => tx'[m][c] = tx[m][c]
    BY <1>1, <2>3, SetTxSets DEF Prepare, Send, TxStates
  <2>6. CASE l # k
    BY <2>1, <2>4, <2>5, <2>6 DEF LoneNonces, Unsent
  <2>7. CASE l = k /\ Prepare(k, d)
    <3>1. tx'[k][c] \in {"prepared", "rejected"}
      BY <2>3, <2>7, SetTxSets DEF Prepare, TxStates
    <3>2. nonce'[k][c] = Len(mempool) /\ mempool' = mempool
      BY <2>3, <2>7 DEF Prepare, TypeOK
    <3> QED
      BY <2>7, <3>1, <3>2
  <2>8. CASE l = k /\ Send(k, d)
    <3>1. nonce[k][c] = Len(mempool)
      BY <2>1, <2>3, <2>8 DEF LoneNonces, Send
    <3>2. tx'[k][c] = "sent"
      BY <2>3, <2>8, <3>1, SetTxSets DEF Send, TxStates
    <3> QED
      BY <2>8, <3>2
  <2> QED
    BY <1>1, <2>6, <2>7, <2>8
<1>2. ASSUME NEW c \in Calls,
             \/ Verify(c) \/ DecryptConfidence(c) \/ Settled(c) \/ MeterSkipped(c)
      PROVE  LoneNonces'
  <2>1. /\ UNCHANGED <<nonce, mempool>>
        /\ UNCHANGED tx \/ \E k \in Kinds, s \in {"new", "rejected"} : SetTx(k, c, s)
    BY <1>2 DEF Verify, DecryptConfidence, Retry, Settled, MeterSkipped, Kinds
  <2>2. CASE UNCHANGED tx
    BY <1>0, <2>1, <2>2, NoncesKept
  <2>3. CASE \E k \in Kinds, s \in {"new", "rejected"} : SetTx(k, c, s)
    <3>1. \A k \in Kinds, d \in Calls :
            tx'[k][d] \in {"prepared", "nonceTaken"} => tx'[k][d] = tx[k][d]
      BY <2>3, SetTxSets DEF TxStates
    <3> QED
      BY <1>0, <2>1, <3>1, NoncesKept
  <2> QED
    BY <2>1, <2>2, <2>3
<1>3. CASE Mine
  <2>1. UNCHANGED <<nonce, mempool>>
    BY <1>3 DEF Mine
  <2>2. \E k \in Kinds, c \in Calls, s \in OnChain : SetTx(k, c, s)
    BY <1>3 DEF Mine, MineDecide, MineSettle, MineMeter, Kinds, OnChain
  <2>3. \A k \in Kinds, d \in Calls :
          tx'[k][d] \in {"prepared", "nonceTaken"} => tx'[k][d] = tx[k][d]
    BY <2>2, SetTxSets DEF TxStates, OnChain
  <2> QED
    BY <1>0, <2>1, <2>3, NoncesKept
<1>4. CASE Crash \/ \E c \in Calls : Fault(c)
  <2>1. \A k \in Kinds, d \in Calls : tx'[k][d] \in {"rejected", tx[k][d]}
    BY <1>4 DEF Crash, Fault, TypeOK
  <2>2. UNCHANGED <<nonce, mempool>>
    BY <1>4 DEF Crash, Fault
  <2> QED
    BY <1>0, <2>1, <2>2, NoncesKept
<1>5. ASSUME NEW c \in Calls,
             \/ Call(c) \/ ReadDecision(c) \/ DecideRejected(c) \/ ReceiptTimeout(c)
             \/ DecryptAction(c) \/ NotSettled(c) \/ Lapse(c)
      PROVE  UNCHANGED <<tx, nonce, mempool>>
  BY <1>5 DEF Call, ReadDecision, DecideRejected, ReceiptTimeout, DecryptAction, Retry, NotSettled,
              Lapse
<1>6. ASSUME \/ \E id \in 1..Len(log[Engine]), out \in Outputs : TeeCompute(id, out)
             \/ ForeignDecision \/ SetRecorder \/ UNCHANGED vars
      PROVE  UNCHANGED <<tx, nonce, mempool>>
  BY <1>6 DEF TeeCompute, ForeignDecision, SetRecorder, vars
<1>7. CASE UNCHANGED <<tx, nonce, mempool>>
  BY <1>0, <1>7, NoncesKept
<1> QED
  BY <1>1, <1>2, <1>3, <1>4, <1>5, <1>6, <1>7 DEF Next, ServerStep

\* The transactions of a call that is alone never lose a race for a nonce, metering and
\* settlement included (writeContract on an account used by two processes).
THEOREM LoneCallsKeepTheirNonces ==
  Spec => [](\A c \in Calls : Alone(c) => MeteringNeverBreaksSettlement
                                          /\ \A k \in Kinds : tx[k][c] # "nonceTaken")
<1>1. Init => LoneNonces
  BY DEF Init, LoneNonces
<1>2. IInv /\ LoneNonces /\ [Next]_vars => LoneNonces'
  BY LoneNoncesStep DEF IInv
<1>3. IInv /\ LoneNonces =>
        \A c \in Calls : Alone(c) => MeteringNeverBreaksSettlement
                                     /\ \A k \in Kinds : tx[k][c] # "nonceTaken"
  <2> SUFFICES ASSUME IInv, LoneNonces, NEW c \in Calls, Alone(c), NEW d \in Calls
               PROVE  tx["settle"][d] # "nonceTaken"
    BY DEF MeteringNeverBreaksSettlement, LoneNonces
  <2>1. "settle" \in Kinds
    BY DEF Kinds
  <2>2. CASE d = c
    BY <2>1, <2>2 DEF LoneNonces
  <2>3. CASE d # c
    BY <2>1, <2>3, UnmadeCallsAreQuiet DEF IInv, Alone
  <2> QED
    BY <2>2, <2>3
<1> QED
  BY Invariance, <1>1, <1>2, <1>3, PTL DEF Spec

\* The decision an attestation names is the one its transaction made (decisionCount after the
\* receipt), while the call is alone and nobody else has called decide().
THEOREM LoneAttestationsAreTheirOwn ==
  Spec => []((\E c \in Calls : Alone(c))
               /\ (\A i \in 1..Len(log[Engine]) : log[Engine][i].caller # Foreign)
             => AttestedTxMadeTheDecision)
<1>1. ASSUME IInv, NEW c \in Calls, Alone(c),
             \A i \in 1..Len(log[Engine]) : log[Engine][i].caller # Foreign,
             NEW d \in Calls, answer[d] # NoAnswer
      PROVE  answer[d].result = d
  <2>1. PICK i \in 1..Len(log[Engine]) : answer[d].result = log[Engine][i].caller
    BY <1>1 DEF IInv, Answers, NoOlder
  <2>2. log[Engine][i].caller \in Calls
    BY <1>1, CallersAreRequesters DEF IInv, Requesters
  <2>3. tx["decide"][log[Engine][i].caller] = "success"
    BY <1>1, <2>2 DEF IInv, Answers
  <2>4. api[d] # "idle"
    BY <1>1 DEF IInv, Phases, Phase, Unanswered, Before
  <2>5. api[log[Engine][i].caller] # "idle"
    BY <1>1, <2>2, <2>3 DEF IInv, Phases, Phase, Before
  <2> QED
    BY <1>1, <2>1, <2>2, <2>4, <2>5 DEF Alone
<1>2. IInv => ((\E c \in Calls : Alone(c))
                 /\ (\A i \in 1..Len(log[Engine]) : log[Engine][i].caller # Foreign)
               => AttestedTxMadeTheDecision)
  BY <1>1 DEF AttestedTxMadeTheDecision
<1> QED
  BY Invariance, <1>2, PTL

-----------------------------------------------------------------------------
(***************************************************************************)
(* The log                                                                 *)
(***************************************************************************)

\* No entry is of a later block than the one being mined.
InOrder == \A i \in 1..Len(log[Engine]) : log[Engine][i].block <= mined + 1

\* Entries carry the number of their block.
LEMMA EntriesHaveBlocks ==
  ASSUME TypeOK, NEW i \in 1..Len(log[Engine])
  PROVE  log[Engine][i].block \in Nat
<1> DEFINE Entries == [caller : Requesters, block : Nat]
<1>1. log[Engine] \in Seq(Entries)
  BY DEF TypeOK
<1> HIDE DEF Entries
<1>2. log[Engine][i] \in Entries
  BY <1>1
<1> QED
  BY <1>2 DEF Entries

\* A commitment appends an entry of the block being mined.
LEMMA CommitKeepsOrder ==
  ASSUME TypeOK, InOrder, NEW r \in Requesters, mined' \in {mined, mined + 1},
         Decisions!Commit(Engine, [caller |-> r, block |-> mined + 1])
  PROVE  InOrder'
<1> DEFINE entry == [caller |-> r, block |-> mined + 1]
           Entries == [caller : Requesters, block : Nat]
<1>1. log[Engine] \in Seq(Entries) /\ entry \in Entries /\ entry.block = mined + 1 /\ mined \in Nat
  BY DEF TypeOK
<1>2. log'[Engine] = Append(log[Engine], entry)
  BY DEF TypeOK, Decisions!Commit
<1>3. \A i \in 1..Len(log[Engine]) : log[Engine][i].block \in Nat
  BY EntriesHaveBlocks
<1> HIDE DEF entry, Entries
<1>4. \A i \in 1..Len(log'[Engine]) :
        \/ i \in 1..Len(log[Engine]) /\ log'[Engine][i] = log[Engine][i]
        \/ log'[Engine][i] = entry
  BY <1>1, <1>2
<1>5. ASSUME NEW i \in 1..Len(log'[Engine])
      PROVE  log'[Engine][i].block <= mined' + 1
  <2>1. CASE i \in 1..Len(log[Engine]) /\ log'[Engine][i] = log[Engine][i]
    <3>1. log[Engine][i].block \in Nat /\ log[Engine][i].block <= mined + 1
      BY <1>3, <2>1 DEF InOrder
    <3> QED
      BY <1>1, <2>1, <3>1
  <2>2. CASE log'[Engine][i] = entry
    BY <1>1, <2>2
  <2> QED
    BY <1>4, <2>1, <2>2
<1> QED
  BY <1>5 DEF InOrder

\* Steps that commit nothing leave the log as it is, or let a block pass.
LEMMA InOrderKept ==
  ASSUME TypeOK, InOrder, UNCHANGED log, mined' \in {mined, mined + 1}
  PROVE  InOrder'
<1>1. \A i \in 1..Len(log[Engine]) : log[Engine][i].block \in Nat
  BY EntriesHaveBlocks
<1>2. mined \in Nat
  BY DEF TypeOK
<1> QED
  BY <1>1, <1>2 DEF InOrder

\* What a step does to the log: nothing, or it commits one entry.
LEMMA LogStep ==
  ASSUME TypeOK, [Next]_vars
  PROVE  /\ mined' \in {mined, mined + 1}
         /\ \/ UNCHANGED log
            \/ \E r \in Requesters : Decisions!Commit(Engine, [caller |-> r, block |-> mined + 1])
<1> USE DEF callVars, walletVars, chainVars, Requesters
<1>1. ASSUME NEW c \in Calls,
             \/ Call(c) \/ Verify(c) \/ ReadDecision(c) \/ DecideRejected(c) \/ ReceiptTimeout(c)
             \/ DecryptAction(c) \/ DecryptConfidence(c) \/ Settled(c) \/ NotSettled(c) \/ Fault(c)
             \/ MeterSkipped(c) \/ Lapse(c) \/ \E k \in Kinds : Prepare(k, c) \/ Send(k, c)
      PROVE  UNCHANGED <<log, mined>>
  BY <1>1 DEF Call, Verify, ReadDecision, DecideRejected, ReceiptTimeout, DecryptAction,
              DecryptConfidence, Retry, Settled, NotSettled, Fault, MeterSkipped, Lapse, Prepare, Send
<1>2. CASE Mine
  BY <1>2 DEF Mine, MineDecide, MineSettle, MineMeter
<1>3. CASE ForeignDecision
  BY <1>3 DEF ForeignDecision
<1>4. ASSUME \/ \E id \in 1..Len(log[Engine]), out \in Outputs : TeeCompute(id, out)
             \/ SetRecorder \/ Crash \/ UNCHANGED vars
      PROVE  UNCHANGED <<log, mined>>
  BY <1>4 DEF TeeCompute, SetRecorder, Crash, vars
<1> QED
  BY <1>1, <1>2, <1>3, <1>4 DEF Next, ServerStep

\* The account never sends more than three transactions for a call.
LEMMA MempoolIsBounded ==
  ASSUME IsFiniteSet(Calls), TypeOK, Pending
  PROVE  Len(mempool) <= MaxTxs
<1> DEFINE T == Kinds \X Calls
<1>1. IsFiniteSet(Kinds) /\ Cardinality(Kinds) = 3
  <2>1. IsFiniteSet({"decide"}) /\ Cardinality({"decide"}) = 1
    BY FS_Singleton
  <2>2. /\ IsFiniteSet({"decide"} \cup {"settle"})
        /\ Cardinality({"decide"} \cup {"settle"}) = 2
    BY <2>1, FS_AddElement
  <2>3. /\ IsFiniteSet(({"decide"} \cup {"settle"}) \cup {"meter"})
        /\ Cardinality(({"decide"} \cup {"settle"}) \cup {"meter"}) = 3
    BY <2>2, FS_AddElement
  <2>4. Kinds = ({"decide"} \cup {"settle"}) \cup {"meter"}
    BY DEF Kinds
  <2> QED
    BY <2>3, <2>4
<1>2. IsFiniteSet(T) /\ Cardinality(T) = MaxTxs
  <2> HIDE DEF Kinds
  <2>1. Cardinality(Calls) \in Nat
    BY FS_CardinalityType
  <2>2. IsFiniteSet(T) /\ Cardinality(T) = Cardinality(Kinds) * Cardinality(Calls)
    BY <1>1, FS_Product
  <2> QED
    BY <1>1, <2>1, <2>2 DEF MaxTxs
<1> HIDE DEF T
<1>3. mempool \in Seq(T) /\ Len(mempool) \in Nat
  BY DEF TypeOK, T
<1>4. mempool \in [1..Len(mempool) -> T]
  BY <1>3
<1>5. \A i, j \in 1..Len(mempool) : i # j => mempool[i] # mempool[j]
  BY DEF Pending
<1>6. mempool \in Injection(1..Len(mempool), T)
  BY <1>4, <1>5 DEF Injection, IsInjective
<1>7. Cardinality(1..Len(mempool)) <= Cardinality(T)
  BY <1>2, <1>6, FS_Injection
<1>8. Cardinality(1..Len(mempool)) = Len(mempool)
  <2>1. \A n \in Nat : Cardinality(1..n) = n
    <3>1. ASSUME NEW n \in Nat PROVE Cardinality(1..n) = n
      <4>1. Cardinality(1..n) = IF 1 > n THEN 0 ELSE n - 1 + 1
        BY FS_Interval
      <4> QED BY <4>1
    <3> QED BY <3>1
  <2> QED BY <1>3, <2>1
<1> QED
  BY <1>2, <1>7, <1>8

\* Decisions are always recorded in block order: the condition a commitment puts on the log
\* (the ids of an engine's decisions grow with the blocks) holds whenever one is mined.
THEOREM TheLogIsInOrder == Spec => []InOrder
<1>1. Init => InOrder
  BY DEF Init, InOrder, Decisions!Init
<1>2. ASSUME TypeOK, InOrder, [Next]_vars
      PROVE  InOrder'
  BY <1>2, LogStep, CommitKeepsOrder, InOrderKept
<1> QED
  BY Typing, <1>1, <1>2, PTL DEF Spec

\* The engine that concurrent paid calls, reverts and restarts decide on keeps the log that
\* the contracts implement: what the server reads under an id is one decision for ever.
THEOREM PaidCallsKeepTheLog ==
  ASSUME IsFiniteSet(Calls)
  PROVE  Spec => Decisions!Spec
<1>1. Init => Decisions!Init
  BY DEF Init
<1>2. ASSUME IInv, [Next]_vars
      PROVE  [Decisions!Next]_log
  <2>1. Len(mempool) <= MaxTxs /\ mined \in Nat /\ mined <= Len(mempool) /\ MaxTxs \in Nat
    BY <1>2, MempoolIsBounded, FS_CardinalityType DEF IInv, TypeOK, MaxTxs
  <2>2. mined + 1 \in 1..MaxTxs + 1
    BY <2>1
  <2>3. ASSUME NEW r \in Requesters,
               Decisions!Commit(Engine, [caller |-> r, block |-> mined + 1])
        PROVE  Decisions!Next
    <3>1. [caller |-> r, block |-> mined + 1] \in Decisions!Entry
      BY <2>2 DEF Decisions!Entry
    <3> QED
      BY <2>3, <3>1 DEF Decisions!Next
  <2> QED
    BY <1>2, <2>3, LogStep DEF IInv
<1> QED
  BY Invariance, <1>1, <1>2, PTL DEF Spec, Decisions!Spec

-----------------------------------------------------------------------------
(***************************************************************************)
(* Why every call ends                                                     *)
(*                                                                         *)
(* StepsLeft(c) bounds the steps the server has left for a call: its place *)
(* on the way to an end, the tries left of the decryption it waits for, and*)
(* the sends left of its transactions.  No step of anybody raises it, each *)
(* step of the server for c lowers it, and a call that has not ended has a *)
(* step to take.  Weak fairness of those steps then ends every call.       *)
(***************************************************************************)
Place == [p \in Positions |->
           CASE p = "idle"                 -> 2 * Tries + 10
             [] p = "verifying"            -> 2 * Tries + 9
             [] p = "deciding"             -> 2 * Tries + 6
             [] p = "decryptingAction"     -> Tries + 6
             [] p = "decryptingConfidence" -> 6
             [] p = "settling"             -> 3
             [] OTHER                      -> 0]

SendsLeft == [s \in TxStates |-> CASE s = "new" -> 2 [] s = "prepared" -> 1 [] OTHER -> 0]

TriesLeft(c) == IF api[c] \in Decrypting THEN Tries - tries[c] ELSE 0

StepsLeft(c) ==
  Place[api[c]] + TriesLeft(c)
    + SendsLeft[tx["decide"][c]] + SendsLeft[tx["settle"][c]] + SendsLeft[tx["meter"][c]]

\* The guard of one of the server's steps for c holds.
HasAStep(c) ==
  \/ api[c] \in {"verifying"} \cup Decrypting
  \/ api[c] = "deciding" /\ tx["decide"][c] # "idle"
  \/ api[c] = "settling" /\ tx["settle"][c] # "idle"

\* Places and sends are numbers.
LEMMA PlacesAreNumbers ==
  (\A p \in Positions : Place[p] \in Nat) /\ (\A s \in TxStates : SendsLeft[s] \in Nat)
BY BoundsAssumption DEF Place, SendsLeft

\* So are the steps left of a call.
LEMMA StepsAreNumbers ==
  ASSUME TypeOK, NEW c \in Calls
  PROVE  /\ Place[api[c]] \in Nat /\ TriesLeft(c) \in Nat
         /\ \A k \in Kinds : SendsLeft[tx[k][c]] \in Nat
         /\ StepsLeft(c) \in Nat
<1>1. Tries \in Nat /\ tries[c] \in 0..Tries
  BY BoundsAssumption DEF TypeOK
<1>2. TriesLeft(c) \in Nat
  BY <1>1 DEF TriesLeft
<1>3. Place[api[c]] \in Nat /\ \A k \in Kinds : SendsLeft[tx[k][c]] \in Nat
  BY PlacesAreNumbers DEF TypeOK
<1> QED
  BY <1>2, <1>3 DEF StepsLeft, Kinds

\* The places in their order.
LEMMA Places ==
  /\ Place["idle"] = 2 * Tries + 10 /\ Place["verifying"] = 2 * Tries + 9
  /\ Place["deciding"] = 2 * Tries + 6 /\ Place["decryptingAction"] = Tries + 6
  /\ Place["decryptingConfidence"] = 6 /\ Place["settling"] = 3
  /\ \A p \in Ended : Place[p] = 0
BY DEF Place, Positions, Computing, Ended

\* The sends a transaction still needs.
LEMMA Sends ==
  /\ SendsLeft["new"] = 2 /\ SendsLeft["prepared"] = 1
  /\ \A s \in TxStates \ Unsent : SendsLeft[s] = 0
BY DEF SendsLeft, TxStates, Unsent

\* A step that leaves a call and its transactions alone leaves it its steps.
LEMMA StepsKept ==
  ASSUME NEW c \in Calls, UNCHANGED <<api[c], tries[c]>>,
         \A k \in Kinds : UNCHANGED tx[k][c]
  PROVE  StepsLeft(c)' = StepsLeft(c)
BY DEF StepsLeft, TriesLeft, Kinds

\* Each step the server takes for a call is one less that it has left.
LEMMA ServerStepsFall ==
  ASSUME TypeOK, NEW c \in Calls, ServerStep(c)
  PROVE  StepsLeft(c)' < StepsLeft(c)
<1> USE DEF callVars, walletVars, chainVars
<1> DEFINE D == SendsLeft[tx["decide"][c]]
           S == SendsLeft[tx["settle"][c]]
           M == SendsLeft[tx["meter"][c]]
<1>1. /\ D \in Nat /\ S \in Nat /\ M \in Nat /\ TriesLeft(c) \in Nat
      /\ Tries \in Nat \ {0} /\ tries[c] \in 0..Tries
      /\ StepsLeft(c) = Place[api[c]] + TriesLeft(c) + D + S + M
  BY StepsAreNumbers, BoundsAssumption DEF StepsLeft, TypeOK, Kinds
<1>2. ASSUME NEW p \in Positions, Goto(c, p), UNCHANGED tx
      PROVE  StepsLeft(c)' = Place[p] + TriesLeft(c)' + D + S + M
  <2>1. api'[c] = p
    BY <1>2, GotoMoves
  <2> QED
    BY <1>2, <2>1 DEF StepsLeft
<1>3. ASSUME NEW p \in Ended, Goto(c, p), UNCHANGED tx, api[c] \notin Ended \cup {"idle"}
      PROVE  StepsLeft(c)' < StepsLeft(c)
  <2>1. api'[c] = p /\ p \in Positions /\ p \notin Decrypting
    BY <1>3, GotoMoves DEF Positions, Ended, Decrypting
  <2>2. StepsLeft(c)' = D + S + M
    BY <1>1, <1>2, <1>3, <2>1, Places DEF TriesLeft
  <2>3. Place[api[c]] \in Nat /\ Place[api[c]] > 0
    <3>1. api[c] \in {"verifying", "settling"} \cup Computing
      BY <1>3 DEF TypeOK, Positions
    <3> QED
      BY <1>1, <3>1, Places DEF Computing
  <2> QED
    BY <1>1, <2>2, <2>3
<1>4. CASE Verify(c)
  <2>1. CASE Goto(c, "deciding") /\ SetTx("decide", c, "new")
    <3>1. api'[c] = "deciding" /\ api[c] = "verifying"
      BY <1>4, <2>1, GotoMoves DEF Verify, Positions, Computing
    <3>2. /\ tx'["decide"][c] = "new" /\ tx'["settle"][c] = tx["settle"][c]
          /\ tx'["meter"][c] = tx["meter"][c]
      BY <2>1, SetTxSets DEF Kinds, TxStates
    <3>3. StepsLeft(c)' = (2 * Tries + 6) + 0 + 2 + S + M
      BY <3>1, <3>2, Places, Sends DEF StepsLeft, TriesLeft, Decrypting
    <3>4. Place[api[c]] = 2 * Tries + 9
      BY <3>1, Places
    <3> QED
      BY <1>1, <3>3, <3>4
  <2> QED
    BY <1>3, <1>4, <2>1 DEF Verify, Ended
<1>5. CASE ReadDecision(c)
  <2>1. CASE Goto(c, "decryptingAction")
    <3>1. api'[c] = "decryptingAction" /\ tries'[c] = 1 /\ api[c] = "deciding"
      BY <1>5, <2>1, GotoMoves DEF ReadDecision, Positions, Computing, TypeOK
    <3>2. StepsLeft(c)' = (Tries + 6) + (Tries - 1) + D + S + M
      BY <1>5, <3>1, Places DEF ReadDecision, StepsLeft, TriesLeft, Decrypting
    <3>3. Place[api[c]] = 2 * Tries + 6
      BY <3>1, Places
    <3> QED
      BY <1>1, <3>2, <3>3
  <2> QED
    BY <1>3, <1>5, <2>1 DEF ReadDecision, Ended
<1>6. CASE DecideRejected(c) \/ ReceiptTimeout(c) \/ NotSettled(c)
  BY <1>3, <1>6 DEF DecideRejected, ReceiptTimeout, NotSettled, Ended
<1>7. ASSUME NEW out \in Outputs, Retry(c, out), api[c] \in Decrypting
      PROVE  StepsLeft(c)' < StepsLeft(c)
  <2>1. CASE tries[c] < Tries
    <3>1. tries'[c] = tries[c] + 1 /\ UNCHANGED <<api, tx>>
      BY <1>7, <2>1 DEF Retry, TypeOK
    <3>2. StepsLeft(c)' = Place[api[c]] + (Tries - (tries[c] + 1)) + D + S + M
      BY <1>7, <3>1 DEF StepsLeft, TriesLeft
    <3>3. TriesLeft(c) = Tries - tries[c]
      BY <1>7 DEF TriesLeft
    <3>4. Place[api[c]] \in Nat
      BY StepsAreNumbers
    <3> QED
      BY <1>1, <2>1, <3>2, <3>3, <3>4
  <2>2. CASE ~(tries[c] < Tries)
    BY <1>3, <1>7, <2>2 DEF Retry, Ended, Decrypting
  <2> QED
    BY <2>1, <2>2
<1>8. CASE DecryptAction(c)
  <2>1. CASE Retry(c, "action")
    BY <1>7, <1>8, <2>1 DEF DecryptAction, Outputs, Decrypting
  <2>2. CASE ~Retry(c, "action")
    <3>1. api'[c] = "decryptingConfidence" /\ tries'[c] = 1 /\ api[c] = "decryptingAction"
      BY <1>8, <2>2, GotoMoves DEF DecryptAction, Positions, Computing, TypeOK
    <3>2. StepsLeft(c)' = 6 + (Tries - 1) + D + S + M
      BY <1>8, <2>2, <3>1, Places DEF DecryptAction, StepsLeft, TriesLeft, Decrypting
    <3>3. Place[api[c]] = Tries + 6
      BY <3>1, Places
    <3> QED
      BY <1>1, <3>2, <3>3
  <2> QED
    BY <2>1, <2>2
<1>9. CASE DecryptConfidence(c)
  <2>1. CASE Retry(c, "confidence")
    BY <1>7, <1>9, <2>1 DEF DecryptConfidence, Outputs, Decrypting
  <2>2. CASE ~Retry(c, "confidence")
    <3>1. api'[c] = "settling" /\ api[c] = "decryptingConfidence"
      BY <1>9, <2>2, GotoMoves DEF DecryptConfidence, Positions
    <3>2. /\ tx'["settle"][c] = "new" /\ tx'["decide"][c] = tx["decide"][c]
          /\ tx'["meter"][c] = tx["meter"][c]
      BY <1>9, <2>2, SetTxSets DEF DecryptConfidence, Kinds, TxStates
    <3>3. StepsLeft(c)' = 3 + 0 + D + 2 + M
      BY <3>1, <3>2, Places, Sends DEF StepsLeft, TriesLeft, Decrypting
    <3>4. Place[api[c]] = 6
      BY <3>1, Places
    <3> QED
      BY <1>1, <3>3, <3>4
  <2> QED
    BY <2>1, <2>2
<1>10. CASE Settled(c)
  <2>1. api'[c] \in Ended /\ api'[c] \notin Decrypting /\ api[c] = "settling"
    BY <1>10, GotoMoves DEF Settled, Positions, Ended, Decrypting
  <2>2. /\ tx'["meter"][c] = "new" /\ tx'["decide"][c] = tx["decide"][c]
        /\ tx'["settle"][c] = tx["settle"][c]
    BY <1>10, SetTxSets DEF Settled, Kinds, TxStates
  <2>3. StepsLeft(c)' = 0 + 0 + D + S + 2
    BY <2>1, <2>2, Places, Sends DEF StepsLeft, TriesLeft
  <2>4. Place[api[c]] = 3
    BY <2>1, Places
  <2> QED
    BY <1>1, <2>3, <2>4
<1>11. ASSUME NEW k \in Kinds, Prepare(k, c) \/ Send(k, c)
       PROVE  StepsLeft(c)' < StepsLeft(c)
  <2>1. UNCHANGED <<api, tries>> /\ Place[api[c]] \in Nat
    BY <1>11, StepsAreNumbers DEF Prepare, Send
  <2>2. \A l \in Kinds : l # k => tx'[l][c] = tx[l][c]
    BY <1>11, SetTxSets DEF Prepare, Send, TxStates
  <2>3. SendsLeft[tx'[k][c]] \in Nat /\ SendsLeft[tx'[k][c]] < SendsLeft[tx[k][c]]
    <3>1. CASE Prepare(k, c)
      <4>1. tx[k][c] = "new" /\ tx'[k][c] \in {"rejected", "prepared"}
        BY <3>1, SetTxSets DEF Prepare, TxStates
      <4> QED
        BY <4>1, Sends DEF TxStates, Unsent
    <3>2. CASE Send(k, c)
      <4>1. tx[k][c] = "prepared" /\ tx'[k][c] \in {"sent", "nonceTaken"}
        BY <3>2, SetTxSets DEF Send, TxStates
      <4> QED
        BY <4>1, Sends DEF TxStates, Unsent
    <3> QED
      BY <1>11, <3>1, <3>2
  <2>4. StepsLeft(c)' = Place[api[c]] + TriesLeft(c) + SendsLeft[tx'["decide"][c]]
                          + SendsLeft[tx'["settle"][c]] + SendsLeft[tx'["meter"][c]]
    BY <2>1 DEF StepsLeft, TriesLeft
  <2> QED
    BY <1>1, <2>1, <2>2, <2>3, <2>4 DEF Kinds
<1> QED
  BY <1>4, <1>5, <1>6, <1>8, <1>9, <1>10, <1>11 DEF ServerStep

\* A call whose transactions are as before, or given up, and which stays where it is, ends
\* or is made, has no more steps left than before.
LEMMA StepsGivenUp ==
  ASSUME TypeOK, NEW c \in Calls,
         \/ UNCHANGED <<api[c], tries[c]>>
         \/ api[c] = "idle" /\ api'[c] = "verifying"
         \/ api'[c] \in Ended,
         \A k \in Kinds : tx'[k][c] = tx[k][c] \/ tx'[k][c] \in TxStates \ Unsent
  PROVE  StepsLeft(c)' <= StepsLeft(c)
<1>1. Tries \in Nat
  BY BoundsAssumption
<1>2. \A k \in Kinds : /\ SendsLeft[tx[k][c]] \in Nat /\ SendsLeft[tx'[k][c]] \in Nat
                       /\ SendsLeft[tx'[k][c]] <= SendsLeft[tx[k][c]]
  BY StepsAreNumbers, Sends
<1>3. Place[api[c]] \in Nat /\ TriesLeft(c) \in Nat
  BY StepsAreNumbers
<1>4. CASE UNCHANGED <<api[c], tries[c]>>
  <2>1. Place[api'[c]] = Place[api[c]] /\ TriesLeft(c)' = TriesLeft(c)
    BY <1>4 DEF TriesLeft
  <2> QED
    BY <1>2, <1>3, <2>1 DEF StepsLeft, Kinds
<1>5. CASE api[c] = "idle" /\ api'[c] = "verifying"
  <2>1. /\ Place[api'[c]] = 2 * Tries + 9 /\ Place[api[c]] = 2 * Tries + 10
        /\ TriesLeft(c)' = 0 /\ TriesLeft(c) = 0
    BY <1>5, Places DEF TriesLeft, Decrypting
  <2> QED
    BY <1>1, <1>2, <2>1 DEF StepsLeft, Kinds
<1>6. CASE api'[c] \in Ended
  <2>1. Place[api'[c]] = 0 /\ TriesLeft(c)' = 0
    BY <1>6, Places DEF TriesLeft, Decrypting, Ended
  <2> QED
    BY <1>2, <1>3, <2>1 DEF StepsLeft, Kinds
<1> QED
  BY <1>4, <1>5, <1>6

\* The steps of one call are none of another's.
LEMMA CallsStepAlone ==
  ASSUME TypeOK, NEW c \in Calls, NEW d \in Calls, d # c,
         \/ Call(c) \/ ServerStep(c) \/ Fault(c) \/ MeterSkipped(c) \/ Lapse(c)
  PROVE  StepsLeft(d)' = StepsLeft(d)
<1> USE DEF callVars, walletVars, chainVars
<1>1. UNCHANGED api \/ \E p \in Positions : Goto(c, p)
  BY DEF Call, ServerStep, Verify, ReadDecision, DecideRejected, ReceiptTimeout, DecryptAction,
         DecryptConfidence, Retry, Settled, NotSettled, Fault, MeterSkipped, Lapse, Prepare, Send,
         Positions, Ended, Computing
<1>2. tries'[d] = tries[d]
  BY DEF Call, ServerStep, Verify, ReadDecision, DecideRejected, ReceiptTimeout, DecryptAction,
         DecryptConfidence, Retry, Settled, NotSettled, Fault, MeterSkipped, Lapse, Prepare, Send,
         TypeOK
<1>3. \A k \in Kinds : tx'[k][d] = tx[k][d]
  <2>1. CASE Fault(c)
    BY <2>1 DEF Fault, TypeOK
  <2>2. CASE ~Fault(c)
    <3>1. UNCHANGED tx \/ \E k \in Kinds, s \in TxStates : SetTx(k, c, s)
      BY <2>2 DEF Call, ServerStep, Verify, ReadDecision, DecideRejected, ReceiptTimeout,
                  DecryptAction, DecryptConfidence, Retry, Settled, NotSettled, MeterSkipped, Lapse,
                  Prepare, Send, Kinds, TxStates
    <3> QED
      BY <3>1, SetTxSets
  <2> QED
    BY <2>1, <2>2
<1>4. api'[d] = api[d]
  BY <1>1, GotoMoves
<1> QED
  BY <1>2, <1>3, <1>4, StepsKept

\* The steps left after a step are a number too.
LEMMA NextStepsAreNumbers ==
  ASSUME TypeOK, Answers, [Next]_vars, NEW c \in Calls
  PROVE  StepsLeft(c)' \in Nat
<1>1. TypeOK'
  BY TypeStep
<1>2. Tries \in Nat /\ tries'[c] \in 0..Tries
  BY <1>1, BoundsAssumption DEF TypeOK
<1>3. TriesLeft(c)' \in Nat
  BY <1>2 DEF TriesLeft
<1>4. Place[api'[c]] \in Nat /\ \A k \in Kinds : SendsLeft[tx'[k][c]] \in Nat
  BY <1>1, PlacesAreNumbers DEF TypeOK
<1> QED
  BY <1>3, <1>4 DEF StepsLeft, Kinds

\* No step of anybody gives the server more to do for a call.
LEMMA StepsNeverRise ==
  ASSUME TypeOK, Answers, [Next]_vars, NEW c \in Calls
  PROVE  StepsLeft(c)' <= StepsLeft(c)
<1> USE DEF callVars, walletVars, chainVars
<1>0. StepsLeft(c) \in Nat
  BY StepsAreNumbers
<1>1. ASSUME NEW d \in Calls, d # c,
             Call(d) \/ ServerStep(d) \/ Fault(d) \/ MeterSkipped(d) \/ Lapse(d)
      PROVE  StepsLeft(c)' <= StepsLeft(c)
  <2>1. StepsLeft(c)' = StepsLeft(c)
    BY <1>1, CallsStepAlone
  <2> QED
    BY <1>0, <2>1
<1>2. CASE ServerStep(c)
  <2>1. StepsLeft(c)' < StepsLeft(c)
    BY <1>2, ServerStepsFall
  <2>2. StepsLeft(c)' \in Nat
    BY NextStepsAreNumbers
  <2> QED
    BY <1>0, <2>1, <2>2
<1>3. CASE Call(c)
  <2>1. api[c] = "idle" /\ api'[c] = "verifying" /\ UNCHANGED tx
    BY <1>3, GotoMoves DEF Call, Positions
  <2> QED
    BY <2>1, StepsGivenUp
<1>4. CASE Fault(c)
  <2>1. api'[c] \in Ended
    BY <1>4, GotoMoves DEF Fault, Positions, Ended
  <2>2. \A k \in Kinds : tx'[k][c] = tx[k][c] \/ tx'[k][c] \in TxStates \ Unsent
    BY <1>4 DEF Fault, TypeOK, TxStates, Unsent
  <2> QED
    BY <2>1, <2>2, StepsGivenUp
<1>5. CASE MeterSkipped(c)
  <2>1. \A k \in Kinds : tx'[k][c] = tx[k][c] \/ tx'[k][c] \in TxStates \ Unsent
    BY <1>5, SetTxSets DEF MeterSkipped, Kinds, TxStates, Unsent
  <2>2. UNCHANGED <<api[c], tries[c]>>
    BY <1>5 DEF MeterSkipped
  <2> QED
    BY <2>1, <2>2, StepsGivenUp
<1>6. CASE Mine
  <2>1. \E k \in Kinds, d \in Calls, s \in OnChain : SetTx(k, d, s)
    BY <1>6 DEF Mine, MineDecide, MineSettle, MineMeter, Kinds, OnChain
  <2>2. \A k \in Kinds : tx'[k][c] = tx[k][c] \/ tx'[k][c] \in TxStates \ Unsent
    BY <2>1, SetTxSets DEF OnChain, TxStates, Unsent
  <2>3. UNCHANGED <<api[c], tries[c]>>
    BY <1>6 DEF Mine
  <2> QED
    BY <2>2, <2>3, StepsGivenUp
<1>7. CASE Crash
  <2>1. api'[c] \in Ended \/ api'[c] = api[c]
    BY <1>7 DEF Crash, Ended
  <2>2. \A k \in Kinds : tx'[k][c] = tx[k][c] \/ tx'[k][c] \in TxStates \ Unsent
    BY <1>7 DEF Crash, TypeOK, TxStates, Unsent
  <2>3. UNCHANGED tries[c]
    BY <1>7 DEF Crash
  <2> QED
    BY <2>1, <2>2, <2>3, StepsGivenUp
<1>8. ASSUME \/ \E id \in 1..Len(log[Engine]), out \in Outputs : TeeCompute(id, out)
             \/ ForeignDecision \/ SetRecorder \/ Lapse(c) \/ UNCHANGED vars
      PROVE  StepsLeft(c)' <= StepsLeft(c)
  <2>1. UNCHANGED <<api[c], tries[c]>> /\ \A k \in Kinds : UNCHANGED tx[k][c]
    BY <1>8 DEF TeeCompute, ForeignDecision, SetRecorder, Lapse, vars
  <2>2. StepsLeft(c)' = StepsLeft(c)
    BY <2>1, StepsKept
  <2> QED
    BY <1>0, <2>2
<1> QED
  BY <1>1, <1>2, <1>3, <1>4, <1>5, <1>6, <1>7, <1>8 DEF Next

\* A call whose server waits for a transaction has asked for that transaction.
NoDeadEnd ==
  \A c \in Calls : /\ api[c] = "deciding" => tx["decide"][c] # "idle"
                   /\ api[c] = "settling" => tx["settle"][c] # "idle"

\* Every step keeps what a call waits for.
LEMMA NoDeadEndStep ==
  ASSUME TypeOK, Pending, NoDeadEnd, [Next]_vars
  PROVE  NoDeadEnd'
<1> USE DEF callVars, walletVars, chainVars
<1>1. ASSUME \A c \in Calls : api'[c] \in {"deciding", "settling"} => api'[c] = api[c],
             \A k \in Kinds, c \in Calls : tx'[k][c] = "idle" => tx[k][c] = "idle"
      PROVE  NoDeadEnd'
  BY <1>1 DEF NoDeadEnd, Kinds
<1>2. ASSUME UNCHANGED tx \/ \E k \in Kinds, c \in Calls, s \in TxStates \ {"idle"} : SetTx(k, c, s)
      PROVE  \A k \in Kinds, c \in Calls : tx'[k][c] = "idle" => tx[k][c] = "idle"
  BY <1>2, SetTxSets
<1>3. ASSUME \/ UNCHANGED api
             \/ \E p \in Positions \ {"deciding", "settling"}, c \in Calls : Goto(c, p)
      PROVE  \A c \in Calls : api'[c] \in {"deciding", "settling"} => api'[c] = api[c]
  BY <1>3, GotoMoves
<1>4. ASSUME NEW c \in Calls, Verify(c)
      PROVE  NoDeadEnd'
  <2>1. CASE Goto(c, "refused") /\ UNCHANGED tx
    BY <1>1, <1>2, <1>3, <2>1 DEF Positions, Ended
  <2>2. CASE Goto(c, "deciding") /\ SetTx("decide", c, "new")
    BY <2>2, GotoMoves, SetTxSets DEF NoDeadEnd, Positions, Computing, Kinds, TxStates
  <2> QED
    BY <1>4, <2>1, <2>2 DEF Verify
<1>5. ASSUME NEW c \in Calls, DecryptConfidence(c)
      PROVE  NoDeadEnd'
  <2>1. CASE Retry(c, "confidence")
    <3>1. UNCHANGED tx /\ (UNCHANGED api \/ Goto(c, "failed"))
      BY <2>1 DEF Retry
    <3> QED
      BY <1>1, <1>2, <1>3, <3>1 DEF Positions, Ended
  <2>2. CASE ~Retry(c, "confidence")
    <3>1. Goto(c, "settling") /\ SetTx("settle", c, "new")
      BY <1>5, <2>2 DEF DecryptConfidence
    <3> QED
      BY <3>1, GotoMoves, SetTxSets DEF NoDeadEnd, Positions, Kinds, TxStates
  <2> QED
    BY <2>1, <2>2
<1>6. ASSUME NEW c \in Calls,
             \/ Call(c) \/ ReadDecision(c) \/ DecideRejected(c) \/ ReceiptTimeout(c)
             \/ DecryptAction(c) \/ Settled(c) \/ NotSettled(c) \/ MeterSkipped(c) \/ Lapse(c)
             \/ \E k \in Kinds : Prepare(k, c) \/ Send(k, c)
      PROVE  NoDeadEnd'
  <2>1. UNCHANGED tx \/ \E k \in Kinds, s \in TxStates \ {"idle"} : SetTx(k, c, s)
    BY <1>6 DEF Call, ReadDecision, DecideRejected, ReceiptTimeout, DecryptAction, Retry, Settled,
                NotSettled, MeterSkipped, Lapse, Prepare, Send, Kinds, TxStates
  <2>2. UNCHANGED api \/ \E p \in Positions \ {"deciding", "settling"} : Goto(c, p)
    BY <1>6 DEF Call, ReadDecision, DecideRejected, ReceiptTimeout, DecryptAction, Retry, Settled,
                NotSettled, MeterSkipped, Lapse, Prepare, Send, Positions, Computing, Ended
  <2> QED
    BY <1>1, <1>2, <1>3, <2>1, <2>2
<1>7. ASSUME NEW c \in Calls, Fault(c)
      PROVE  NoDeadEnd'
  <2>1. \A k \in Kinds, d \in Calls : tx'[k][d] = "idle" => tx[k][d] = "idle"
    BY <1>7 DEF Fault, TypeOK
  <2>2. Goto(c, "failed") \/ Goto(c, "unsettled")
    BY <1>7 DEF Fault
  <2> QED
    BY <1>1, <1>3, <2>1, <2>2 DEF Positions, Ended
<1>8. CASE Mine
  <2>1. \E k \in Kinds, c \in Calls, s \in OnChain : SetTx(k, c, s)
    BY <1>8 DEF Mine, MineDecide, MineSettle, MineMeter, Kinds, OnChain
  <2>2. UNCHANGED api
    BY <1>8 DEF Mine
  <2> QED
    BY <1>1, <1>2, <1>3, <2>1, <2>2 DEF OnChain, TxStates
<1>9. CASE Crash
  <2>1. \A k \in Kinds, c \in Calls : tx'[k][c] = "idle" => tx[k][c] = "idle"
    BY <1>9 DEF Crash
  <2>2. \A c \in Calls : api'[c] \in {"deciding", "settling"} => api'[c] = api[c]
    BY <1>9 DEF Crash
  <2> QED
    BY <1>1, <2>1, <2>2
<1>10. CASE \/ \E id \in 1..Len(log[Engine]), out \in Outputs : TeeCompute(id, out)
            \/ ForeignDecision \/ SetRecorder \/ UNCHANGED vars
  <2>1. UNCHANGED <<api, tx>>
    BY <1>10 DEF TeeCompute, ForeignDecision, SetRecorder, vars
  <2> QED
    BY <1>1, <1>2, <1>3, <2>1
<1> QED
  BY <1>4, <1>5, <1>6, <1>7, <1>8, <1>9, <1>10 DEF Next, ServerStep

\* A call the server has accepted and not ended is never stuck: verifying, a transaction asked
\* for, a receipt or its timeout, a try of the decryption, one of them is the next step.
THEOREM CallsAreNeverStuck ==
  Spec => [](\A c \in Calls : api[c] \notin Ended \cup {"idle"} => HasAStep(c))
<1>1. Init => NoDeadEnd
  BY DEF Init, NoDeadEnd
<1>2. IInv /\ NoDeadEnd /\ [Next]_vars => NoDeadEnd'
  BY NoDeadEndStep DEF IInv
<1>3. IInv /\ NoDeadEnd =>
        \A c \in Calls : api[c] \notin Ended \cup {"idle"} => HasAStep(c)
  <2> SUFFICES ASSUME IInv, NoDeadEnd, NEW c \in Calls, api[c] \notin Ended \cup {"idle"}
               PROVE  HasAStep(c)
    OBVIOUS
  <2>1. api[c] \in {"verifying", "settling"} \cup Computing
    BY DEF IInv, TypeOK, Positions
  <2> QED
    BY <2>1 DEF NoDeadEnd, HasAStep, Computing, Decrypting
<1> QED
  BY Invariance, <1>1, <1>2, <1>3, PTL DEF Spec

\* The steps of a call run out: nothing anybody does gives the server more to do for it, and
\* each step of the server leaves it less (bounded retries, timeouts, no resubmission).
THEOREM StepsRunOut ==
  Spec => [][\A c \in Calls : /\ StepsLeft(c)' <= StepsLeft(c)
                              /\ ServerStep(c) => StepsLeft(c)' < StepsLeft(c)]_vars
<1>1. ASSUME IInv, [Next]_vars, NEW c \in Calls
      PROVE  /\ StepsLeft(c)' <= StepsLeft(c)
             /\ ServerStep(c) => StepsLeft(c)' < StepsLeft(c)
  BY <1>1, StepsNeverRise, ServerStepsFall DEF IInv
<1>2. IInv /\ [Next]_vars =>
        [\A c \in Calls : /\ StepsLeft(c)' <= StepsLeft(c)
                          /\ ServerStep(c) => StepsLeft(c)' < StepsLeft(c)]_vars
  BY <1>1
<1> QED
  BY Invariance, <1>2, PTL DEF Spec

\* A call takes at most 2 * Tries + 10 steps of the server, however the calls interleave.
THEOREM CallsTakeBoundedlyManySteps ==
  Spec => [](\A c \in Calls : StepsLeft(c) \in 0..2 * Tries + 10)
<1> DEFINE Inv == \A c \in Calls : StepsLeft(c) <= 2 * Tries + 10
<1>1. Init => Inv
  <2> SUFFICES ASSUME Init, NEW c \in Calls
               PROVE  StepsLeft(c) <= 2 * Tries + 10
    OBVIOUS
  <2>1. StepsLeft(c) = (2 * Tries + 10) + 0 + 0 + 0 + 0
    BY Places, Sends DEF Init, StepsLeft, TriesLeft, Decrypting, TxStates, Unsent, Kinds
  <2> QED
    BY <2>1, BoundsAssumption
<1>2. ASSUME IInv, Inv, [Next]_vars, NEW c \in Calls
      PROVE  StepsLeft(c)' <= 2 * Tries + 10
  <2>1. StepsLeft(c)' <= StepsLeft(c) /\ StepsLeft(c) \in Nat /\ StepsLeft(c) <= 2 * Tries + 10
    BY <1>2, StepsNeverRise, StepsAreNumbers DEF IInv
  <2>2. StepsLeft(c)' \in Nat
    BY <1>2, NextStepsAreNumbers DEF IInv
  <2> QED
    BY <2>1, <2>2, BoundsAssumption
<1>3. IInv /\ Inv => \A c \in Calls : StepsLeft(c) \in 0..2 * Tries + 10
  BY StepsAreNumbers, BoundsAssumption DEF IInv
<1>4. IInv /\ Inv /\ [Next]_vars => Inv'
  BY <1>2
<1> HIDE DEF Inv
<1> QED
  BY Invariance, <1>1, <1>3, <1>4, PTL DEF Spec
=============================================================================
