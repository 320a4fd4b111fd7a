---------------------------- MODULE EngineProofs ----------------------------
(***************************************************************************)
(* Proofs about ConfidentialEngine, for any engines, accounts, numbers and *)
(* bounds.                                                                 *)
(***************************************************************************)
EXTENDS ConfidentialEngine, SequenceTheorems, TLAPS

\* The types alone are not inductive: a decision's thresholds are numbers because the
\* handles of the policy are handles of ciphertexts that exist.
TypeInv == TypeOK /\ PolicyAccess

\* The constructors establish the types and access to the first thresholds.
LEMMA TypeInit == Init => TypeInv
<1> SUFFICES ASSUME Init PROVE TypeOK /\ PolicyAccess
  BY DEF TypeInv
<1> USE EnginesAssumption, NumbersAssumption DEF Init
<1>1. sealed \in Seq(SealedCell) /\ Len(sealed) = 1
  BY DEF SealedCell, Accounts
<1>2. derived \in Seq(DerivedCell) /\ history \in [Engines -> Seq(HistoryEntry)]
  OBVIOUS
<1>3. \A e \in Engines : policy[e] \in PolicyHandles(Kind[e])
  BY DEF PolicyHandles
<1>4. TypeOK
  BY <1>1, <1>2, <1>3 DEF TypeOK, Ids, Blocks
<1>5. PolicyAccess
  BY <1>1 DEF PolicyAccess
<1> QED BY <1>4, <1>5

\* What decide() writes is well typed.
LEMMA DecideTypes ==
  ASSUME TypeInv, NEW e \in Engines, NEW caller \in Callers, NEW x \in Plaintexts,
         NEW y \in Plaintexts, NextId(e) \in Ids
  PROVE  /\ RecordOf(e, NextId(e), caller, block) \in RecordType
         /\ ActionCell(e, <<x, y>>) \in DerivedCell
         /\ ConfidenceCell(e, <<x, y>>) \in DerivedCell
         /\ Thresholds(policy[e]) \in PolicyHandles(Kind[e])
<1> USE EnginesAssumption, NumbersAssumption DEF TypeInv, TypeOK
<1>1. RecordOf(e, NextId(e), caller, block) \in RecordType
  BY DEF RecordOf, RecordType, Commitment, Timestamp, Blocks
<1>2. ActionCell(e, <<x, y>>) \in DerivedCell /\ ConfidenceCell(e, <<x, y>>) \in DerivedCell
  BY DEF ActionCell, ConfidenceCell, DerivedCell, Outputs, Accounts, PolicyHandles
<1>3. Thresholds(policy[e]) \in PolicyHandles(Kind[e])
  <2> HIDE DEF TypeOK
  <2>a. sealed \in Seq(SealedCell)
    BY DEF TypeOK
  <2> HIDE DEF TypeInv
  <2>b. \A h \in 1..Len(sealed) : sealed[h] \in SealedCell
    BY <2>a
  <2>0. \A h \in 1..Len(sealed) : sealed[h].plain \in Nat
    BY <2>b DEF SealedCell
  <2> USE DEF TypeInv
  <2>1. \A name \in DOMAIN policy[e] : sealed[policy[e][name]].plain \in Nat
    BY <2>0 DEF PolicyAccess
  <2>2. CASE Kind[e] = "treasury"
    BY <2>1, <2>2 DEF PolicyHandles, Thresholds, TypeOK
  <2>3. CASE Kind[e] = "payroll"
    BY <2>1, <2>3 DEF PolicyHandles, Thresholds, TypeOK
  <2> QED BY <2>2, <2>3
<1> QED BY <1>1, <1>2, <1>3

\* The TEE computes numbers.
LEMMA OutcomeType ==
  ASSUME NEW kind \in {"treasury", "payroll"}, NEW out \in Outputs, NEW in, NEW t
  PROVE  Outcome(kind, out, in, t) \in Nat
BY DEF Outcome, Outputs, Select, TreasuryAction, TreasuryConfidence, PayrollAction,
       PayrollConfidence, ACTION_HOLD, ACTION_HEDGE, ACTION_ACCUMULATE, ACTION_APPROVE,
       ACTION_DEFER, ACTION_REJECT, CONF_STRONG, CONF_MEDIUM, CONF_LOW

\* No transaction, TEE computation or new block breaks the types.
LEMMA TypeStep == TypeInv /\ [Next]_vars => TypeOK'
<1> SUFFICES ASSUME TypeInv, [Next]_vars PROVE TypeOK'
  OBVIOUS
<1> USE EnginesAssumption, NumbersAssumption DEF TypeInv, TypeOK
<1>1. ASSUME NEW e \in Engines, NEW account \in Runtimes, SetRuntime(e, account)
      PROVE  TypeOK'
  BY <1>1 DEF SetRuntime
<1>2. ASSUME NEW e \in Engines, NEW hedge \in Plaintexts, NEW signal \in Plaintexts,
             SetTreasuryPolicy(e, hedge, signal)
      PROVE  TypeOK'
  <2>1. Seal(e, hedge) \in SealedCell /\ Seal(e, signal) \in SealedCell
    BY DEF Seal, SealedCell, Accounts
  <2>2. sealed' \in Seq(SealedCell)
    BY <1>2, <2>1 DEF SetTreasuryPolicy
  <2>3. DOMAIN policy' = Engines /\ \A d \in Engines : policy'[d] \in PolicyHandles(Kind[d])
    <3>1. [hedge |-> Len(sealed) + 1, signal |-> Len(sealed) + 2] \in PolicyHandles(Kind[e])
      BY <1>2 DEF SetTreasuryPolicy, PolicyHandles
    <3>2. policy' = [policy EXCEPT ![e] = [hedge |-> Len(sealed) + 1, signal |-> Len(sealed) + 2]]
      BY <1>2 DEF SetTreasuryPolicy
    <3> QED BY <3>1, <3>2
  <2>4. policyInitialized' \in [Engines -> BOOLEAN]
    BY <1>2 DEF SetTreasuryPolicy
  <2> QED BY <1>2, <2>2, <2>3, <2>4 DEF SetTreasuryPolicy
<1>3. ASSUME NEW e \in Engines, NEW cap \in Plaintexts, SetPayrollPolicy(e, cap)
      PROVE  TypeOK'
  <2>1. Seal(e, cap) \in SealedCell
    BY DEF Seal, SealedCell, Accounts
  <2>2. sealed' \in Seq(SealedCell)
    BY <1>3, <2>1 DEF SetPayrollPolicy
  <2>3. DOMAIN policy' = Engines /\ \A d \in Engines : policy'[d] \in PolicyHandles(Kind[d])
    <3>1. [cap |-> Len(sealed) + 1] \in PolicyHandles(Kind[e])
      BY <1>3 DEF SetPayrollPolicy, PolicyHandles
    <3>2. policy' = [policy EXCEPT ![e] = [cap |-> Len(sealed) + 1]]
      BY <1>3 DEF SetPayrollPolicy
    <3> QED BY <3>1, <3>2
  <2>4. policyInitialized' \in [Engines -> BOOLEAN]
    BY <1>3 DEF SetPayrollPolicy
  <2> QED BY <1>3, <2>2, <2>3, <2>4 DEF SetPayrollPolicy
<1>4. ASSUME NEW e \in Engines, NEW allowed \in BOOLEAN, SetRecorder(RegistryOf[e], e, allowed)
      PROVE  TypeOK'
  BY <1>4 DEF SetRecorder
<1>5. ASSUME NEW e \in Engines, NEW caller \in Callers, NEW x \in Plaintexts,
             NEW y \in Plaintexts, Decide(e, caller, <<x, y>>)
      PROVE  TypeOK'
  <2> DEFINE id == NextId(e)
             entry == [caller |-> caller, block |-> block, runtime |-> runtime[e],
                       in |-> <<x, y>>, thresholds |-> Thresholds(policy[e])]
  <2>1. id \in Ids
    BY <1>5 DEF Decide
  <2>2. decisions' \in [Registries -> [Ids -> RecordType \cup {NoRecord}]]
        /\ recorded' \in [Registries -> Nat]
    <3> DEFINE r == RegistryOf[e]
               record == RecordOf(e, id, caller, block)
    <3>1. record \in RecordType
      BY <2>1, DecideTypes
    <3>2. /\ decisions' = [decisions EXCEPT ![r][id] = record]
          /\ recorded' = [recorded EXCEPT ![r] = @ + 1]
      BY <1>5 DEF Decide, Record
    <3>3. r \in Registries
      OBVIOUS
    <3>4. /\ decisions \in [Registries -> [Ids -> RecordType \cup {NoRecord}]]
          /\ recorded \in [Registries -> Nat]
      OBVIOUS
    <3> HIDE DEF id, record, r, TypeOK, TypeInv
    <3>5. [decisions[r] EXCEPT ![id] = record] \in [Ids -> RecordType \cup {NoRecord}]
      BY <2>1, <3>1, <3>3, <3>4
    <3>6. decisions' = [decisions EXCEPT ![r] = [decisions[r] EXCEPT ![id] = record]]
      BY <3>2, <3>3, <3>4
    <3> QED BY <3>2, <3>3, <3>4, <3>5, <3>6
  <2>3. derived' \in Seq(DerivedCell)
    BY <1>5, <2>1, DecideTypes DEF Decide
  <2>4. decisionCount' \in [Engines -> 0..MaxDecisions]
    <3>1. decisionCount' = [decisionCount EXCEPT ![e] = id]
      BY <1>5 DEF Decide
    <3>2. id \in 0..MaxDecisions
      BY <2>1 DEF Ids
    <3>3. decisionCount \in [Engines -> 0..MaxDecisions]
      OBVIOUS
    <3> HIDE DEF id, TypeOK, TypeInv
    <3> QED BY <3>1, <3>2, <3>3
  <2>5. /\ actionOf' \in [Engines -> [Ids -> Nat]]
        /\ confidenceOf' \in [Engines -> [Ids -> Nat]]
    BY <1>5, <2>1 DEF Decide
  <2>6. entry \in HistoryEntry
    BY <2>1, DecideTypes DEF HistoryEntry, PolicyHandles
  <2>7. history' \in [Engines -> Seq(HistoryEntry)]
    BY <1>5, <2>6 DEF Decide
  <2> QED BY <1>5, <2>2, <2>3, <2>4, <2>5, <2>7 DEF Decide, Record
<1>6. ASSUME NEW h \in 1..Len(derived), TeeCompute(h) PROVE TypeOK'
  <2>1. derived[h] \in DerivedCell
    OBVIOUS
  <2> DEFINE plain == Outcome(Kind[derived[h].engine], derived[h].out, derived[h].in,
                              Thresholds(derived[h].policy))
  <2>2. plain \in Nat
    BY <2>1, OutcomeType DEF DerivedCell
  <2>3. [derived[h] EXCEPT !.plain = plain] \in DerivedCell
    BY <2>1, <2>2 DEF DerivedCell
  <2>4. derived' = [derived EXCEPT ![h] = [derived[h] EXCEPT !.plain = plain]]
    BY <1>6 DEF TeeCompute
  <2>5. derived' \in Seq(DerivedCell)
    BY <2>3, <2>4
  <2> QED BY <1>6, <2>5 DEF TeeCompute
<1>7. ASSUME NextBlock PROVE TypeOK'
  BY <1>7 DEF NextBlock, Blocks
<1>8. CASE UNCHANGED vars
  BY <1>8 DEF vars
<1>9. QED
  BY <1>1, <1>2, <1>3, <1>4, <1>5, <1>6, <1>7, <1>8 DEF Next, TreasuryDecide, PayrollDecide

\* Setting a policy replaces an engine's handles by fresh ones it has access to; the
\* ciphertexts the other engines hold are left alone.
LEMMA PolicyAccessStep == TypeInv /\ [Next]_vars => PolicyAccess'
<1> SUFFICES ASSUME TypeInv, [Next]_vars PROVE PolicyAccess'
  OBVIOUS
<1>0. sealed \in Seq(SealedCell) /\ PolicyAccess /\ DOMAIN policy = Engines
  BY DEF TypeInv, TypeOK
<1>a. policyInitialized \in [Engines -> BOOLEAN]
  BY DEF TypeInv, TypeOK
<1> USE <1>0 DEF PolicyAccess
<1>1. ASSUME NEW e \in Engines, NEW hedge \in Plaintexts, NEW signal \in Plaintexts,
             SetTreasuryPolicy(e, hedge, signal)
      PROVE  PolicyAccess'
  <2>1. Len(sealed') = Len(sealed) + 2 /\ \A h \in 1..Len(sealed) : sealed'[h] = sealed[h]
    BY <1>1 DEF SetTreasuryPolicy
  <2>2. /\ sealed'[Len(sealed) + 1].viewers = {e, Owner}
        /\ sealed'[Len(sealed) + 2].viewers = {e, Owner}
    BY <1>1 DEF SetTreasuryPolicy, Seal
  <2>3. policy'[e] = [hedge |-> Len(sealed) + 1, signal |-> Len(sealed) + 2]
    BY <1>1 DEF SetTreasuryPolicy
  <2>4. \A d \in Engines \ {e} : policy'[d] = policy[d] /\ policyInitialized'[d] = policyInitialized[d]
    BY <1>a, <1>1 DEF SetTreasuryPolicy
  <2>5. ASSUME NEW d \in Engines, NEW name \in DOMAIN policy'[d]
        PROVE  /\ policy'[d][name] \in 1..Len(sealed')
               /\ d \in sealed'[policy'[d][name]].viewers
               /\ policyInitialized'[d] => sealed'[policy'[d][name]].viewers = {d, Owner}
    <3>1. CASE d = e
      BY <2>1, <2>2, <2>3, <3>1
    <3>2. CASE d # e
      <4>1. name \in DOMAIN policy[d] /\ policy'[d][name] = policy[d][name]
        BY <2>4, <3>2
      <4>2. policy[d][name] \in 1..Len(sealed)
        BY <4>1
      <4> QED BY <2>1, <2>4, <3>2, <4>1, <4>2
    <3> QED BY <3>1, <3>2
  <2> QED BY <2>5
<1>2. ASSUME NEW e \in Engines, NEW cap \in Plaintexts, SetPayrollPolicy(e, cap)
      PROVE  PolicyAccess'
  <2>1. Len(sealed') = Len(sealed) + 1 /\ \A h \in 1..Len(sealed) : sealed'[h] = sealed[h]
    BY <1>2 DEF SetPayrollPolicy
  <2>2. sealed'[Len(sealed) + 1].viewers = {e, Owner}
    BY <1>2 DEF SetPayrollPolicy, Seal
  <2>3. policy'[e] = [cap |-> Len(sealed) + 1]
    BY <1>2 DEF SetPayrollPolicy
  <2>4. \A d \in Engines \ {e} : policy'[d] = policy[d] /\ policyInitialized'[d] = policyInitialized[d]
    BY <1>a, <1>2 DEF SetPayrollPolicy
  <2>5. ASSUME NEW d \in Engines, NEW name \in DOMAIN policy'[d]
        PROVE  /\ policy'[d][name] \in 1..Len(sealed')
               /\ d \in sealed'[policy'[d][name]].viewers
               /\ policyInitialized'[d] => sealed'[policy'[d][name]].viewers = {d, Owner}
    <3>1. CASE d = e
      BY <2>1, <2>2, <2>3, <3>1
    <3>2. CASE d # e
      <4>1. name \in DOMAIN policy[d] /\ policy'[d][name] = policy[d][name]
        BY <2>4, <3>2
      <4>2. policy[d][name] \in 1..Len(sealed)
        BY <4>1
      <4> QED BY <2>1, <2>4, <3>2, <4>1, <4>2
    <3> QED BY <3>1, <3>2
  <2> QED BY <2>5
<1>3. ASSUME UNCHANGED <<policy, policyInitialized, sealed>> PROVE PolicyAccess'
  BY <1>3
<1> HIDE DEF PolicyAccess
<1>4. ASSUME NEW e \in Engines, NEW account \in Runtimes, SetRuntime(e, account)
      PROVE  PolicyAccess'
  BY <1>3, <1>4 DEF SetRuntime
<1>5. ASSUME NEW e \in Engines, NEW allowed \in BOOLEAN, SetRecorder(RegistryOf[e], e, allowed)
      PROVE  PolicyAccess'
  BY <1>3, <1>5 DEF SetRecorder
<1>6. ASSUME NEW e \in Engines, NEW caller, NEW in, Decide(e, caller, in)
      PROVE  PolicyAccess'
  BY <1>3, <1>6 DEF Decide
<1>7. ASSUME NEW h \in 1..Len(derived), TeeCompute(h) PROVE PolicyAccess'
  BY <1>3, <1>7 DEF TeeCompute
<1>8. ASSUME NextBlock PROVE PolicyAccess'
  BY <1>3, <1>8 DEF NextBlock
<1>9. CASE UNCHANGED vars
  BY <1>3, <1>9 DEF vars
<1> QED
  BY <1>1, <1>2, <1>4, <1>5, <1>6, <1>7, <1>8, <1>9 DEF Next, TreasuryDecide, PayrollDecide

\* The types, with access to the thresholds, hold in every reachable state.
LEMMA TypeInvariant == Spec => []TypeInv
BY TypeInit, TypeStep, PolicyAccessStep, PTL DEF Spec, TypeInv

\* Every variable keeps the type the contracts give it.
THEOREM Typing == Spec => []TypeOK
BY TypeInvariant, PTL DEF TypeInv

\* An engine never loses access to its thresholds, and once they are set nobody but the
\* engine and the owner has any.
THEOREM PolicyStaysAccessible == Spec => []PolicyAccess
BY TypeInvariant, PTL DEF TypeInv

-----------------------------------------------------------------------------
(***************************************************************************)
(* The public log.  Only decide() writes it, so an invariant about it has  *)
(* two cases: a decide() of one engine, and a step that leaves it alone.   *)
(***************************************************************************)
logVars == <<decisionCount, decisions, recorded, history>>

\* Only decide() touches the counters, the records and the history.
LEMMA LogSteps ==
  ASSUME [Next]_vars
  PROVE  \/ \E e \in Engines, caller \in Callers, x, y \in Plaintexts : Decide(e, caller, <<x, y>>)
         \/ UNCHANGED logVars
<1> DEFINE Goal == \/ \E e \in Engines, caller \in Callers, x, y \in Plaintexts :
                        Decide(e, caller, <<x, y>>)
                   \/ UNCHANGED logVars
<1> USE DEF logVars
<1>1. ASSUME NEW e \in Engines, NEW account \in Runtimes, SetRuntime(e, account) PROVE Goal
  BY <1>1 DEF SetRuntime
<1>2. ASSUME NEW e \in Engines, NEW hedge \in Plaintexts, NEW signal \in Plaintexts,
             SetTreasuryPolicy(e, hedge, signal)
      PROVE  Goal
  BY <1>2 DEF SetTreasuryPolicy
<1>3. ASSUME NEW e \in Engines, NEW cap \in Plaintexts, SetPayrollPolicy(e, cap) PROVE Goal
  BY <1>3 DEF SetPayrollPolicy
<1>4. ASSUME NEW e \in Engines, NEW allowed \in BOOLEAN, SetRecorder(RegistryOf[e], e, allowed)
      PROVE  Goal
  BY <1>4 DEF SetRecorder
<1>5. ASSUME NEW h \in 1..Len(derived), TeeCompute(h) PROVE Goal
  BY <1>5 DEF TeeCompute
<1>6. ASSUME NextBlock PROVE Goal
  BY <1>6 DEF NextBlock
<1>7. CASE UNCHANGED vars
  BY <1>7 DEF vars
<1> HIDE DEF logVars
<1> QED
  BY <1>1, <1>2, <1>3, <1>4, <1>5, <1>6, <1>7 DEF Next, TreasuryDecide, PayrollDecide

\* Fresh registries hold no record and fresh engines have given out no id.
LEMMA RecordsAgreeInit == Init => RecordsAgree
BY EnginesAssumption, NumbersAssumption DEF Init, RecordsAgree, Ids

\* decide() gives out the next id and files one record, and no other engine files in
\* its registry.
LEMMA RecordsAgreeStep == TypeOK /\ RecordsAgree /\ [Next]_vars => RecordsAgree'
<1> SUFFICES ASSUME TypeOK, RecordsAgree, [Next]_vars PROVE RecordsAgree'
  OBVIOUS
<1>1. ASSUME NEW e \in Engines, NEW caller \in Callers, NEW x \in Plaintexts,
             NEW y \in Plaintexts, Decide(e, caller, <<x, y>>)
      PROVE  RecordsAgree'
  <2> DEFINE r == RegistryOf[e]
             id == decisionCount[e] + 1
  <2>1. /\ r \in Registries /\ id \in Ids /\ block \in Blocks
        /\ decisionCount \in [Engines -> 0..MaxDecisions]
        /\ history \in [Engines -> Seq(HistoryEntry)]
        /\ recorded \in [Registries -> Nat]
        /\ DOMAIN decisions = Registries /\ \A q \in Registries : DOMAIN decisions[q] = Ids
    BY <1>1, EnginesAssumption DEF TypeOK, Decide, NextId
  <2>2. /\ decisionCount' = [decisionCount EXCEPT ![e] = id]
        /\ recorded' = [recorded EXCEPT ![r] = @ + 1]
        /\ decisions' = [decisions EXCEPT ![r][id] = RecordOf(e, id, caller, block)]
    BY <1>1 DEF Decide, NextId, Record
  <2> DEFINE entry == [caller |-> caller, block |-> block, runtime |-> runtime[e],
                       in |-> <<x, y>>, thresholds |-> Thresholds(policy[e])]
  <2>3. /\ history' = [history EXCEPT ![e] = Append(@, entry)]
        /\ entry.caller = caller /\ entry.block = block
    BY <1>1 DEF Decide
  <2> HIDE DEF entry
  <2>4. /\ Len(history'[e]) = Len(history[e]) + 1
        /\ \A i \in 1..Len(history[e]) : history'[e][i] = history[e][i]
        /\ history'[e][Len(history[e]) + 1] = entry
    BY <2>1, <2>3
  <2>5. ASSUME NEW d \in Engines, d # e
        PROVE  /\ RegistryOf[d] # r
               /\ RegistryOf[d] \in Registries
               /\ decisionCount'[d] = decisionCount[d] /\ history'[d] = history[d]
               /\ recorded'[RegistryOf[d]] = recorded[RegistryOf[d]]
               /\ decisions'[RegistryOf[d]] = decisions[RegistryOf[d]]
    BY <2>1, <2>2, <2>3, <2>5, OwnRegistry, EnginesAssumption
  <2>6. ASSUME NEW d \in Engines
        PROVE  /\ Len(history'[d]) = decisionCount'[d]
               /\ recorded'[RegistryOf[d]] = decisionCount'[d]
               /\ \A i \in Ids :
                    decisions'[RegistryOf[d]][i] =
                      IF i <= decisionCount'[d]
                      THEN RecordOf(d, i, history'[d][i].caller, history'[d][i].block)
                      ELSE NoRecord
    <3>1. CASE d = e
      <4>1. Len(history'[e]) = id /\ recorded'[r] = id /\ decisionCount'[e] = id
        BY <2>1, <2>2, <2>4 DEF RecordsAgree
      <4>2. ASSUME NEW i \in Ids
            PROVE  decisions'[r][i] =
                     IF i <= id THEN RecordOf(e, i, history'[e][i].caller, history'[e][i].block)
                     ELSE NoRecord
        <5>1. CASE i = id
          <6>1. decisions'[r][id] = RecordOf(e, id, caller, block)
            BY <2>1, <2>2
          <6>2. history'[e][id] = entry
            BY <2>4 DEF RecordsAgree
          <6> QED BY <5>1, <6>1, <6>2, <2>1, <2>3
        <5>2. CASE i # id
          <6>1. decisions'[r][i] = decisions[r][i]
            BY <5>2, <2>1, <2>2
          <6>2. i <= id <=> i <= decisionCount[e]
            BY <5>2, <2>1, NumbersAssumption DEF Ids
          <6>3. i <= decisionCount[e] => history'[e][i] = history[e][i]
            BY <2>1, <2>4 DEF RecordsAgree, Ids
          <6> QED BY <6>1, <6>2, <6>3 DEF RecordsAgree
        <5> QED BY <5>1, <5>2
      <4> QED BY <3>1, <4>1, <4>2
    <3>2. CASE d # e
      BY <3>2, <2>5 DEF RecordsAgree
    <3> QED BY <3>1, <3>2
  <2> QED BY <2>6 DEF RecordsAgree
<1>2. CASE UNCHANGED logVars
  BY <1>2 DEF logVars, RecordsAgree
<1> QED BY <1>1, <1>2, LogSteps

\* The registries and the engines never disagree about a decision.
THEOREM RecordsAlwaysAgree == Spec => []RecordsAgree
BY TypeInvariant, RecordsAgreeInit, RecordsAgreeStep, PTL DEF Spec, TypeInv

-----------------------------------------------------------------------------
(***************************************************************************)
(* Engine and registry implement the append-only log.                      *)
(***************************************************************************)

\* No decision is more recent than the current block.
BlocksOrdered ==
  \A e \in Engines : \A i \in 1..Len(history[e]) : history[e][i].block <= block

\* There is no decision yet.
LEMMA BlocksOrderedInit == Init => BlocksOrdered
BY DEF Init, BlocksOrdered

\* decide() stamps the current block, and blocks only advance.
LEMMA BlocksOrderedStep == TypeOK /\ BlocksOrdered /\ [Next]_vars => BlocksOrdered'
<1> SUFFICES ASSUME TypeOK, BlocksOrdered, [Next]_vars PROVE BlocksOrdered'
  OBVIOUS
<1>0. history \in [Engines -> Seq(HistoryEntry)] /\ block \in Nat
  BY NumbersAssumption DEF TypeOK, Blocks
<1>1. ASSUME NEW e \in Engines, NEW caller \in Callers, NEW x \in Plaintexts,
             NEW y \in Plaintexts, Decide(e, caller, <<x, y>>)
      PROVE  BlocksOrdered'
  <2> DEFINE entry == [caller |-> caller, block |-> block, runtime |-> runtime[e],
                       in |-> <<x, y>>, thresholds |-> Thresholds(policy[e])]
  <2>1. history' = [history EXCEPT ![e] = Append(@, entry)] /\ entry.block = block
    BY <1>1 DEF Decide
  <2>2. block' = block
    BY <1>1 DEF Decide
  <2> HIDE DEF entry
  <2>3. /\ Len(history'[e]) = Len(history[e]) + 1
        /\ \A i \in 1..Len(history[e]) : history'[e][i] = history[e][i]
        /\ history'[e][Len(history[e]) + 1] = entry
        /\ \A d \in Engines \ {e} : history'[d] = history[d]
    BY <1>0, <2>1
  <2> QED BY <1>0, <2>1, <2>2, <2>3 DEF BlocksOrdered
<1>2. ASSUME UNCHANGED history PROVE BlocksOrdered'
  <2>1. block' = block \/ block' = block + 1
    <3>1. ASSUME NEW e \in Engines, NEW account \in Runtimes, SetRuntime(e, account)
          PROVE  block' = block
      BY <3>1 DEF SetRuntime
    <3>2. ASSUME NEW e \in Engines, NEW hedge \in Plaintexts, NEW signal \in Plaintexts,
                 SetTreasuryPolicy(e, hedge, signal)
          PROVE  block' = block
      BY <3>2 DEF SetTreasuryPolicy
    <3>3. ASSUME NEW e \in Engines, NEW cap \in Plaintexts, SetPayrollPolicy(e, cap)
          PROVE  block' = block
      BY <3>3 DEF SetPayrollPolicy
    <3>4. ASSUME NEW e \in Engines, NEW allowed \in BOOLEAN,
                 SetRecorder(RegistryOf[e], e, allowed)
          PROVE  block' = block
      BY <3>4 DEF SetRecorder
    <3>5. ASSUME NEW h \in 1..Len(derived), TeeCompute(h) PROVE block' = block
      BY <3>5 DEF TeeCompute
    <3>6. ASSUME NEW e, NEW caller, NEW in, Decide(e, caller, in) PROVE block' = block
      BY <3>6 DEF Decide
    <3>7. ASSUME NextBlock PROVE block' = block + 1
      BY <3>7 DEF NextBlock
    <3>8. CASE UNCHANGED vars
      BY <3>8 DEF vars
    <3> QED
      BY <3>1, <3>2, <3>3, <3>4, <3>5, <3>6, <3>7, <3>8 DEF Next, TreasuryDecide, PayrollDecide
  <2>2. \A e \in Engines : \A i \in 1..Len(history[e]) : history[e][i].block \in Nat
    <3>1. ASSUME NEW e \in Engines, NEW i \in 1..Len(history[e])
          PROVE  history[e][i].block \in Nat
      <4>1. history[e] \in Seq(HistoryEntry)
        BY <1>0
      <4>2. history[e][i] \in HistoryEntry
        BY <4>1
      <4> QED BY <4>2, NumbersAssumption DEF HistoryEntry, Blocks
    <3> QED BY <3>1
  <2> QED BY <1>0, <1>2, <2>1, <2>2 DEF BlocksOrdered
<1> QED BY <1>1, <1>2, LogSteps DEF logVars

\* Types, records and block order together hold in every reachable state.
LEMMA Invariants == Spec => [](TypeInv /\ RecordsAgree /\ BlocksOrdered)
<1>1. Spec => []BlocksOrdered
  BY TypeInvariant, BlocksOrderedInit, BlocksOrderedStep, PTL DEF Spec, TypeInv
<1> QED BY <1>1, TypeInvariant, RecordsAlwaysAgree, PTL

\* The log a reader of the registries sees
ReadLog == [e \in Engines |-> [id \in 1..decisionCount[e] |->
              [caller |-> decisions[RegistryOf[e]][id].caller,
               block  |-> decisions[RegistryOf[e]][id].blockNumber]]]

\* The log of the decisions made
MadeLog == [e \in Engines |-> [id \in 1..Len(history[e]) |->
              [caller |-> history[e][id].caller, block |-> history[e][id].block]]]

\* What readers see is what was decided.
LogIsRead == ReadLog = MadeLog

\* While engine and registry agree, reading the registry yields what was decided.
LEMMA RecordsAreRead == TypeOK /\ RecordsAgree => LogIsRead
<1> SUFFICES ASSUME TypeOK, RecordsAgree PROVE ReadLog = MadeLog
  BY DEF LogIsRead
<1>1. ASSUME NEW e \in Engines, NEW id \in 1..decisionCount[e]
      PROVE  /\ decisions[RegistryOf[e]][id].caller = history[e][id].caller
             /\ decisions[RegistryOf[e]][id].blockNumber = history[e][id].block
  <2>1. id \in Ids /\ id <= decisionCount[e]
    BY NumbersAssumption DEF TypeOK, Ids
  <2>2. decisions[RegistryOf[e]][id] =
          RecordOf(e, id, history[e][id].caller, history[e][id].block)
    BY <2>1 DEF RecordsAgree
  <2> QED BY <2>2 DEF RecordOf
<1>2. \A e \in Engines : Len(history[e]) = decisionCount[e]
  BY DEF RecordsAgree
<1> QED BY <1>1, <1>2 DEF ReadLog, MadeLog

\* Nothing is logged at deployment.
LEMMA LogInit == Init => Log!Init
BY DEF Init, Log!Init

\* Every step of the contracts commits one entry of the abstract log or leaves it alone.
LEMMA LogStep ==
  ASSUME TypeOK, BlocksOrdered, LogIsRead, LogIsRead', [Next]_vars
  PROVE  [Log!Next]_ReadLog
<1>0. /\ history \in [Engines -> Seq(HistoryEntry)]
      /\ block \in Blocks
  BY DEF TypeOK
<1>1. ASSUME NEW e \in Engines, NEW caller \in Callers, NEW x \in Plaintexts,
             NEW y \in Plaintexts, Decide(e, caller, <<x, y>>)
      PROVE  Log!Next
  <2> DEFINE entry == [caller |-> caller, block |-> block]
             full  == [caller |-> caller, block |-> block, runtime |-> runtime[e],
                       in |-> <<x, y>>, thresholds |-> Thresholds(policy[e])]
  <2>1. ReadLog = MadeLog /\ ReadLog' = MadeLog'
    BY DEF LogIsRead
  <2>2. history' = [history EXCEPT ![e] = Append(@, full)]
    BY <1>1 DEF Decide
  <2>3. full.caller = caller /\ full.block = block
    OBVIOUS
  <2> HIDE DEF full
  <2>a. /\ Len(history[e]) \in Nat
        /\ Len(history'[e]) = Len(history[e]) + 1
        /\ \A i \in 1..Len(history[e]) : history'[e][i] = history[e][i]
        /\ history'[e][Len(history[e]) + 1] = full
        /\ \A d \in Engines \ {e} : history'[d] = history[d]
    BY <1>0, <2>2
  <2>4. MadeLog[e] \in Seq([caller : Callers, block : Blocks]) /\ Len(MadeLog[e]) = Len(history[e])
    <3>1. \A i \in 1..Len(history[e]) : history[e][i] \in HistoryEntry
      BY <1>0
    <3>2. MadeLog[e] \in [1..Len(history[e]) -> [caller : Callers, block : Blocks]]
      BY <3>1 DEF MadeLog, HistoryEntry
    <3>3. MadeLog[e] \in Seq([caller : Callers, block : Blocks])
      BY <2>a, <3>2, SeqDef
    <3>4. DOMAIN MadeLog[e] = 1..Len(history[e])
      BY <3>2
    <3> QED BY <2>a, <3>3, <3>4, LenProperties
  <2>5. MadeLog'[e] = Append(MadeLog[e], entry)
    BY <2>a, <2>3, <2>4 DEF MadeLog, Append
  <2>6. \A d \in Engines \ {e} : MadeLog'[d] = MadeLog[d]
    BY <2>a DEF MadeLog
  <2>7. ReadLog' = [ReadLog EXCEPT ![e] = Append(@, entry)]
    BY <2>1, <2>5, <2>6 DEF MadeLog
  <2>8. \A i \in 1..Len(ReadLog[e]) : ReadLog[e][i].block <= entry.block
    BY <2>1, <2>4 DEF BlocksOrdered, MadeLog
  <2>9. entry \in Log!Entry
    BY <1>0 DEF Log!Entry
  <2> QED BY <2>7, <2>8, <2>9 DEF Log!Next, Log!Commit, ReadLog
<1>2. CASE UNCHANGED logVars
  BY <1>2 DEF logVars, ReadLog
<1> QED BY <1>1, <1>2, LogSteps

\* Engine and registry implement DecisionLog: under an id a reader finds the same
\* decision for ever.
THEOREM ImplementsDecisionLog == Spec => ImplementsLog
<1>1. Init => Log!Init
  BY LogInit
<1>2. /\ TypeInv /\ BlocksOrdered /\ LogIsRead /\ LogIsRead' /\ [Next]_vars
      => [Log!Next]_ReadLog
  BY LogStep DEF TypeInv
<1>3. TypeInv /\ RecordsAgree => LogIsRead
  BY RecordsAreRead DEF TypeInv
<1> QED BY <1>1, <1>2, <1>3, Invariants, PTL DEF Spec, ImplementsLog, Log!Spec, ReadLog

-----------------------------------------------------------------------------
(***************************************************************************)
(* The outputs of a decision.  The invariant says what each output handle  *)
(* of a recorded decision stands for: an output of that engine, over that  *)
(* decision's inputs, with operand handles that decrypt to the thresholds  *)
(* of that moment, computed or not.  Handles are never written twice, so   *)
(* no later step of the owner can change what it decrypts to.              *)
(***************************************************************************)
IsOutput(h, e, out, entry) ==
  /\ h \in 1..Len(derived)
  /\ derived[h].engine = e /\ derived[h].out = out /\ derived[h].in = entry.in
  /\ \A name \in DOMAIN derived[h].policy : derived[h].policy[name] \in 1..Len(sealed)
  /\ Thresholds(derived[h].policy) = entry.thresholds
  /\ derived[h].plain \in {Pending, Outcome(Kind[e], out, entry.in, entry.thresholds)}

OutputsInv ==
  \A e \in Engines : \A id \in 1..Len(history[e]) :
    /\ IsOutput(actionOf[e][id], e, "action", history[e][id])
    /\ derived[actionOf[e][id]].viewers = {e, history[e][id].runtime}
    /\ ~derived[actionOf[e][id]].public
    /\ IsOutput(confidenceOf[e][id], e, "confidence", history[e][id])
    /\ derived[confidenceOf[e][id]].public

\* There is no decision yet, hence no output.
LEMMA OutputsInit == Init => OutputsInv
BY DEF Init, OutputsInv

\* An output stays one while ciphertexts are added, and while others are computed.
LEMMA OutputKept ==
  ASSUME NEW h, NEW e, NEW out, NEW entry, IsOutput(h, e, out, entry),
         Len(sealed') >= Len(sealed), \A g \in 1..Len(sealed) : sealed'[g] = sealed[g],
         Len(sealed) \in Nat, Len(sealed') \in Nat,
         Len(derived') >= Len(derived), Len(derived) \in Nat, Len(derived') \in Nat,
         derived'[h] = derived[h]
  PROVE  IsOutput(h, e, out, entry)'
<1>1. Thresholds(derived[h].policy) = Thresholds(derived[h].policy)'
  BY DEF IsOutput, Thresholds
<1> QED BY <1>1 DEF IsOutput

\* Steps that decide nothing and compute nothing: they may add policy ciphertexts.
LEMMA OutputsFrame ==
  ASSUME TypeOK, TypeOK', OutputsInv, UNCHANGED <<derived, actionOf, confidenceOf, history>>,
         Len(sealed') >= Len(sealed), \A g \in 1..Len(sealed) : sealed'[g] = sealed[g]
  PROVE  OutputsInv'
<1>1. Len(sealed) \in Nat /\ Len(sealed') \in Nat /\ Len(derived) \in Nat
  BY DEF TypeOK
<1>2. ASSUME NEW e \in Engines, NEW id \in 1..Len(history[e])
      PROVE  /\ IsOutput(actionOf[e][id], e, "action", history[e][id])'
             /\ IsOutput(confidenceOf[e][id], e, "confidence", history[e][id])'
  <2>1. PICK a, c, entry : a = actionOf[e][id] /\ c = confidenceOf[e][id] /\ entry = history[e][id]
    OBVIOUS
  <2>2. IsOutput(a, e, "action", entry) /\ IsOutput(c, e, "confidence", entry)
    BY <1>2, <2>1 DEF OutputsInv
  <2>3. IsOutput(a, e, "action", entry)' /\ IsOutput(c, e, "confidence", entry)'
    BY <1>1, <2>2, OutputKept
  <2> QED BY <2>1, <2>3 DEF IsOutput
<1> QED BY <1>2 DEF OutputsInv

\* The TEE computes an output: nothing but its plaintext changes.
LEMMA OutputsCompute ==
  ASSUME TypeOK, OutputsInv, NEW g \in 1..Len(derived), TeeCompute(g)
  PROVE  OutputsInv'
<1>1. /\ Len(derived') = Len(derived)
      /\ \A h \in 1..Len(derived) \ {g} : derived'[h] = derived[h]
      /\ UNCHANGED <<sealed, actionOf, confidenceOf, history>>
      /\ Len(sealed) \in Nat /\ Len(derived) \in Nat
  BY DEF TeeCompute, TypeOK
<1>2. derived[g] \in DerivedCell
  BY DEF TypeOK
<1>3. derived'[g] = [derived[g] EXCEPT !.plain =
                       Outcome(Kind[derived[g].engine], derived[g].out, derived[g].in,
                               Thresholds(derived[g].policy))]
  <2> DEFINE plain == Outcome(Kind[derived[g].engine], derived[g].out, derived[g].in,
                              Thresholds(derived[g].policy))
  <2>1. g \in DOMAIN derived
    BY DEF TypeOK
  <2>2. derived' = [derived EXCEPT ![g].plain = plain]
    BY DEF TeeCompute
  <2> HIDE DEF plain
  <2>3. derived'[g] = [derived[g] EXCEPT !.plain = plain]
    BY <2>1, <2>2
  <2> QED BY <2>3 DEF plain
<1>4. ASSUME NEW h, NEW e, NEW out, NEW entry, IsOutput(h, e, out, entry)
      PROVE  /\ IsOutput(h, e, out, entry)'
             /\ derived'[h].viewers = derived[h].viewers
             /\ derived'[h].public = derived[h].public
  <2>1. CASE h = g
    <3>1. /\ derived'[g].engine = derived[g].engine /\ derived'[g].out = derived[g].out
          /\ derived'[g].in = derived[g].in /\ derived'[g].policy = derived[g].policy
          /\ derived'[g].viewers = derived[g].viewers /\ derived'[g].public = derived[g].public
      BY <1>2, <1>3 DEF DerivedCell
    <3>2. derived'[g].plain = Outcome(Kind[e], out, entry.in, entry.thresholds)
      BY <1>2, <1>3, <1>4, <2>1 DEF DerivedCell, IsOutput
    <3>3. Thresholds(derived[g].policy)' = Thresholds(derived[g].policy)
      BY <1>1, <3>1 DEF Thresholds
    <3> QED BY <1>1, <1>4, <2>1, <3>1, <3>2, <3>3 DEF IsOutput
  <2>2. CASE h # g
    <3>1. h \in 1..Len(derived)
      BY <1>4 DEF IsOutput
    <3>2. derived'[h] = derived[h]
      BY <1>1, <2>2, <3>1
    <3>3. IsOutput(h, e, out, entry)'
      BY <1>1, <1>4, <3>2, OutputKept
    <3> QED BY <3>2, <3>3
  <2> QED BY <2>1, <2>2
<1>5. ASSUME NEW e \in Engines, NEW id \in 1..Len(history[e])
      PROVE  /\ IsOutput(actionOf[e][id], e, "action", history[e][id])'
             /\ derived'[actionOf[e][id]].viewers = {e, history[e][id].runtime}
             /\ ~derived'[actionOf[e][id]].public
             /\ IsOutput(confidenceOf[e][id], e, "confidence", history[e][id])'
             /\ derived'[confidenceOf[e][id]].public
  <2>1. PICK a, c, entry : a = actionOf[e][id] /\ c = confidenceOf[e][id] /\ entry = history[e][id]
    OBVIOUS
  <2>2. IsOutput(a, e, "action", entry) /\ IsOutput(c, e, "confidence", entry)
    BY <1>5, <2>1 DEF OutputsInv
  <2>3. /\ IsOutput(a, e, "action", entry)' /\ IsOutput(c, e, "confidence", entry)'
        /\ derived'[a].viewers = derived[a].viewers /\ derived'[a].public = derived[a].public
        /\ derived'[c].public = derived[c].public
    BY <1>4, <2>2
  <2>4. /\ IsOutput(actionOf[e][id], e, "action", history[e][id])'
        /\ IsOutput(confidenceOf[e][id], e, "confidence", history[e][id])'
    BY <1>1, <2>1, <2>3 DEF IsOutput
  <2> QED BY <1>5, <2>1, <2>3, <2>4 DEF OutputsInv
<1> QED BY <1>1, <1>5 DEF OutputsInv

\* decide() adds two outputs, over the thresholds of the moment.
LEMMA OutputsDecide ==
  ASSUME TypeInv, TypeOK', OutputsInv, RecordsAgree, NEW e \in Engines, NEW caller, NEW in,
         Decide(e, caller, in)
  PROVE  OutputsInv'
<1> DEFINE n == Len(derived)
           m == Len(history[e])
           entry == [caller |-> caller, block |-> block, runtime |-> runtime[e],
                     in |-> in, thresholds |-> Thresholds(policy[e])]
           action == ActionCell(e, in)
           confidence == ConfidenceCell(e, in)
<1>1. /\ n \in Nat /\ Len(sealed) \in Nat /\ history \in [Engines -> Seq(HistoryEntry)]
      /\ decisionCount[e] = m /\ m + 1 \in Ids
      /\ actionOf \in [Engines -> [Ids -> Nat]] /\ confidenceOf \in [Engines -> [Ids -> Nat]]
  BY DEF TypeInv, TypeOK, RecordsAgree, Decide, NextId
<1>2. /\ history' = [history EXCEPT ![e] = Append(@, entry)]
      /\ actionOf' = [actionOf EXCEPT ![e][m + 1] = n + 1]
      /\ confidenceOf' = [confidenceOf EXCEPT ![e][m + 1] = n + 2]
      /\ derived' = Append(Append(derived, action), confidence)
      /\ UNCHANGED sealed
  BY <1>1 DEF Decide, NextId
<1>3. /\ Len(derived') = n + 2 /\ \A h \in 1..n : derived'[h] = derived[h]
      /\ derived'[n + 1] = action /\ derived'[n + 2] = confidence
  <2>1. derived \in Seq(DerivedCell)
    BY DEF TypeInv, TypeOK
  <2> HIDE DEF action, confidence
  <2> QED BY <1>2, <2>1
<1>4. \A name \in DOMAIN policy[e] : policy[e][name] \in 1..Len(sealed)
  BY DEF TypeInv, PolicyAccess
<1>5. Thresholds(policy[e]) = [name \in DOMAIN policy[e] |-> sealed'[policy[e][name]].plain]
  BY <1>2 DEF Thresholds
<1>6. PICK h, c, new : h = n + 1 /\ c = n + 2 /\ new = entry
  OBVIOUS
<1>7. IsOutput(h, e, "action", new)' /\ IsOutput(c, e, "confidence", new)'
  BY <1>1, <1>2, <1>3, <1>4, <1>5, <1>6 DEF IsOutput, Thresholds, ActionCell, ConfidenceCell
<1>8. derived'[n + 1].viewers = {e, entry.runtime} /\ ~derived'[n + 1].public /\ derived'[n + 2].public
  BY <1>3 DEF ActionCell, ConfidenceCell
<1> HIDE DEF entry, action, confidence
<1>9. /\ Len(history'[e]) = m + 1 /\ history'[e][m + 1] = entry
      /\ \A i \in 1..m : history'[e][i] = history[e][i]
      /\ \A d \in Engines \ {e} : history'[d] = history[d]
  BY <1>1, <1>2
<1>10. ASSUME NEW d \in Engines, NEW id \in 1..Len(history'[d])
       PROVE  /\ IsOutput(actionOf[d][id], d, "action", history[d][id])'
              /\ derived'[actionOf'[d][id]].viewers = {d, history'[d][id].runtime}
              /\ ~derived'[actionOf'[d][id]].public
              /\ IsOutput(confidenceOf[d][id], d, "confidence", history[d][id])'
              /\ derived'[confidenceOf'[d][id]].public
  <2>1. CASE d = e /\ id = m + 1
    <3>1. actionOf'[d][id] = h /\ confidenceOf'[d][id] = c /\ history'[d][id] = new
      BY <1>1, <1>2, <1>6, <1>9, <2>1
    <3>2. /\ IsOutput(actionOf[d][id], d, "action", history[d][id])'
          /\ IsOutput(confidenceOf[d][id], d, "confidence", history[d][id])'
      BY <1>7, <2>1, <3>1 DEF IsOutput
    <3> QED BY <1>6, <1>8, <2>1, <3>1, <3>2
  <2>2. CASE ~(d = e /\ id = m + 1)
    <3>1. /\ id \in 1..Len(history[d]) /\ history'[d][id] = history[d][id]
          /\ actionOf'[d][id] = actionOf[d][id] /\ confidenceOf'[d][id] = confidenceOf[d][id]
      BY <1>1, <1>2, <1>9, <1>10, <2>2
    <3>2. PICK a, b, old : a = actionOf[d][id] /\ b = confidenceOf[d][id] /\ old = history[d][id]
      OBVIOUS
    <3>3. IsOutput(a, d, "action", old) /\ IsOutput(b, d, "confidence", old)
      BY <3>1, <3>2 DEF OutputsInv
    <3>4. derived'[a] = derived[a] /\ derived'[b] = derived[b]
      BY <1>3, <3>3 DEF IsOutput
    <3>5. IsOutput(a, d, "action", old)' /\ IsOutput(b, d, "confidence", old)'
      <4>1. /\ Len(sealed') = Len(sealed) /\ \A g \in 1..Len(sealed) : sealed'[g] = sealed[g]
            /\ Len(derived') >= Len(derived) /\ Len(derived') \in Nat
        BY <1>1, <1>2, <1>3
      <4> QED BY <1>1, <3>3, <3>4, <4>1, OutputKept
    <3>6. /\ IsOutput(actionOf[d][id], d, "action", history[d][id])'
          /\ IsOutput(confidenceOf[d][id], d, "confidence", history[d][id])'
      BY <3>1, <3>2, <3>5 DEF IsOutput
    <3>7. derived[a].viewers = {d, old.runtime} /\ ~derived[a].public /\ derived[b].public
      BY <3>1, <3>2 DEF OutputsInv
    <3> QED BY <3>1, <3>2, <3>4, <3>6, <3>7
  <2> QED BY <2>1, <2>2
<1> QED BY <1>10 DEF OutputsInv

\* Every step keeps the outputs of all decisions: one case per action.
LEMMA OutputsStep ==
  ASSUME TypeInv, TypeOK', OutputsInv, RecordsAgree, [Next]_vars
  PROVE  OutputsInv'
<1> USE DEF TypeInv
<1>0. ASSUME UNCHANGED <<sealed, derived, actionOf, confidenceOf, history>> PROVE OutputsInv'
  <2>1. Len(sealed) \in Nat
    BY DEF TypeOK
  <2> QED BY <1>0, <2>1, OutputsFrame
<1>1. ASSUME NEW e \in Engines, NEW account \in Runtimes, SetRuntime(e, account)
      PROVE  OutputsInv'
  BY <1>0, <1>1 DEF SetRuntime
<1>2. ASSUME NEW e \in Engines, NEW hedge \in Plaintexts, NEW signal \in Plaintexts,
             SetTreasuryPolicy(e, hedge, signal)
      PROVE  OutputsInv'
  <2>1. Len(sealed') >= Len(sealed) /\ \A g \in 1..Len(sealed) : sealed'[g] = sealed[g]
    BY <1>2 DEF SetTreasuryPolicy, TypeOK
  <2> QED BY <1>2, <2>1, OutputsFrame DEF SetTreasuryPolicy
<1>3. ASSUME NEW e \in Engines, NEW cap \in Plaintexts, SetPayrollPolicy(e, cap)
      PROVE  OutputsInv'
  <2>1. Len(sealed') >= Len(sealed) /\ \A g \in 1..Len(sealed) : sealed'[g] = sealed[g]
    BY <1>3 DEF SetPayrollPolicy, TypeOK
  <2> QED BY <1>3, <2>1, OutputsFrame DEF SetPayrollPolicy
<1>4. ASSUME NEW e \in Engines, NEW allowed \in BOOLEAN, SetRecorder(RegistryOf[e], e, allowed)
      PROVE  OutputsInv'
  BY <1>0, <1>4 DEF SetRecorder
<1>5. ASSUME NEW e \in Engines, NEW caller, NEW in, Decide(e, caller, in) PROVE OutputsInv'
  BY <1>5, OutputsDecide
<1>6. ASSUME NEW h \in 1..Len(derived), TeeCompute(h) PROVE OutputsInv'
  BY <1>6, OutputsCompute
<1>7. ASSUME NextBlock PROVE OutputsInv'
  BY <1>0, <1>7 DEF NextBlock
<1>8. CASE UNCHANGED vars
  BY <1>0, <1>8 DEF vars
<1> HIDE DEF TypeInv
<1> QED
  BY <1>1, <1>2, <1>3, <1>4, <1>5, <1>6, <1>7, <1>8 DEF Next, TreasuryDecide, PayrollDecide

\* The recorded thresholds are those of the engine's kind.
HistoryInv ==
  \A e \in Engines : \A id \in 1..Len(history[e]) :
    /\ history[e][id].in \in Nat \X Nat
    /\ history[e][id].thresholds \in PolicyHandles(Kind[e])

\* There is no decision yet, hence no history.
LEMMA HistoryInit == Init => HistoryInv
BY DEF Init, HistoryInv

\* decide() notes the numbers it was sent and the thresholds its handles stand for.
LEMMA HistoryStep == TypeInv /\ HistoryInv /\ [Next]_vars => HistoryInv'
<1> SUFFICES ASSUME TypeInv, HistoryInv, [Next]_vars PROVE HistoryInv'
  OBVIOUS
<1>1. ASSUME NEW e \in Engines, NEW caller \in Callers, NEW x \in Plaintexts,
             NEW y \in Plaintexts, Decide(e, caller, <<x, y>>)
      PROVE  HistoryInv'
  <2> DEFINE entry == [caller |-> caller, block |-> block, runtime |-> runtime[e],
                       in |-> <<x, y>>, thresholds |-> Thresholds(policy[e])]
  <2>1. history' = [history EXCEPT ![e] = Append(@, entry)]
    BY <1>1 DEF Decide
  <2>2. entry.in \in Nat \X Nat /\ entry.thresholds \in PolicyHandles(Kind[e])
    BY <1>1, DecideTypes, NumbersAssumption DEF Decide
  <2> HIDE DEF entry
  <2>3. /\ Len(history'[e]) = Len(history[e]) + 1
        /\ \A i \in 1..Len(history[e]) : history'[e][i] = history[e][i]
        /\ history'[e][Len(history[e]) + 1] = entry
        /\ \A d \in Engines \ {e} : history'[d] = history[d]
        /\ Len(history[e]) \in Nat
    BY <2>1 DEF TypeInv, TypeOK
  <2>4. ASSUME NEW d \in Engines, NEW i \in 1..Len(history'[d])
        PROVE  /\ history'[d][i].in \in Nat \X Nat
               /\ history'[d][i].thresholds \in PolicyHandles(Kind[d])
    <3>1. CASE d = e /\ i = Len(history[e]) + 1
      BY <2>2, <2>3, <3>1
    <3>2. CASE ~(d = e /\ i = Len(history[e]) + 1)
      <4>1. i \in 1..Len(history[d]) /\ history'[d][i] = history[d][i]
        BY <2>3, <3>2
      <4> QED BY <4>1 DEF HistoryInv
    <3> QED BY <3>1, <3>2
  <2> QED BY <2>4 DEF HistoryInv
<1>2. CASE UNCHANGED history
  BY <1>2 DEF HistoryInv
<1> QED BY <1>1, <1>2, LogSteps DEF logVars

\* The strengthening that selective decryption and the policy follow from.
LEMMA AllInvariants == Spec => [](TypeInv /\ RecordsAgree /\ OutputsInv /\ HistoryInv)
<1>1. TypeInv /\ TypeInv' /\ OutputsInv /\ RecordsAgree /\ [Next]_vars => OutputsInv'
  BY OutputsStep DEF TypeInv
<1> QED
  BY <1>1, TypeInvariant, RecordsAlwaysAgree, OutputsInit, HistoryInit, HistoryStep, PTL
  DEF Spec

\* Whoever the owner makes runtime later, the action of a decision stays readable by its
\* engine and by the runtime of its own moment, and only the confidence is public.
THEOREM DecryptionIsSelective == Spec => []SelectiveDecryption
<1>1. RecordsAgree /\ OutputsInv => SelectiveDecryption
  BY DEF RecordsAgree, OutputsInv, SelectiveDecryption, IsOutput
<1> QED BY <1>1, AllInvariants, PTL

\* The branchless select chains compute the policy the contracts' comments state, and
\* action and confidence always name the same case of it.
THEOREM OutcomeIsExpected ==
  ASSUME NEW kind \in {"treasury", "payroll"}, NEW in \in Nat \X Nat,
         NEW t \in PolicyHandles(kind)
  PROVE  /\ Outcome(kind, "action", in, t) = Expected(kind, in, t)[1]
         /\ Outcome(kind, "confidence", in, t) = Expected(kind, in, t)[2]
<1>1. in[1] \in Nat /\ in[2] \in Nat
  OBVIOUS
<1>2. CASE kind = "treasury"
  <2>1. t.hedge \in Nat /\ t.signal \in Nat
    BY <1>2 DEF PolicyHandles
  <2> QED
    BY <1>1, <1>2, <2>1
    DEF Outcome, Expected, Select, TreasuryAction, TreasuryConfidence
<1>3. CASE kind = "payroll"
  <2>1. t.cap \in Nat
    BY <1>3 DEF PolicyHandles
  <2> QED
    BY <1>1, <1>3, <2>1
    DEF Outcome, Expected, Select, PayrollAction, PayrollConfidence
<1> QED BY <1>2, <1>3

\* The TEE computes every decision from the thresholds in force in its transaction,
\* however often the owner has replaced them before the TEE gets to it.
THEOREM DecisionsFollowPolicy == Spec => []FollowsPolicyInForce
<1>1. ASSUME RecordsAgree, OutputsInv, HistoryInv, NEW e \in Engines,
             NEW id \in 1..decisionCount[e]
      PROVE  LET expected == Expected(Kind[e], history[e][id].in, history[e][id].thresholds)
             IN  /\ derived[actionOf[e][id]].plain \in {Pending, expected[1]}
                 /\ derived[confidenceOf[e][id]].plain \in {Pending, expected[2]}
  <2>1. id \in 1..Len(history[e])
    BY <1>1 DEF RecordsAgree
  <2>2. Kind[e] \in {"treasury", "payroll"}
    BY EnginesAssumption
  <2> DEFINE in == history[e][id].in
             t  == history[e][id].thresholds
  <2>3. in \in Nat \X Nat /\ t \in PolicyHandles(Kind[e])
    BY <1>1, <2>1 DEF HistoryInv
  <2>4. /\ derived[actionOf[e][id]].plain \in {Pending, Outcome(Kind[e], "action", in, t)}
        /\ derived[confidenceOf[e][id]].plain \in {Pending, Outcome(Kind[e], "confidence", in, t)}
    BY <1>1, <2>1 DEF OutputsInv, IsOutput
  <2>5. /\ Outcome(Kind[e], "action", in, t) = Expected(Kind[e], in, t)[1]
        /\ Outcome(Kind[e], "confidence", in, t) = Expected(Kind[e], in, t)[2]
    BY <2>2, <2>3, OutcomeIsExpected
  <2> QED BY <2>4, <2>5
<1>2. RecordsAgree /\ OutputsInv /\ HistoryInv => FollowsPolicyInForce
  BY <1>1 DEF FollowsPolicyInForce
<1> QED BY <1>2, AllInvariants, PTL
=============================================================================
