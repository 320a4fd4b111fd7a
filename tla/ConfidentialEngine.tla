------------------------- MODULE ConfidentialEngine -------------------------
(***************************************************************************)
(* The on-chain half of c402: the confidential engines (CDE.sol, the       *)
(* treasury engine, and PayrollCDE.sol, the payroll engine), the public    *)
(* DecisionRegistry each of them records to, and the part of the iExec Nox *)
(* coprocessor they use.                                                   *)
(*                                                                         *)
(* A transaction is atomic: an action of this module is one successful     *)
(* transaction with every call it makes, and a revert is the absence of a  *)
(* step.  Nox is external.  It hands out a handle for every ciphertext,    *)
(* keeps an access list per handle, and its TEE computes the plaintext of  *)
(* a derived handle some time AFTER the transaction that created it, from  *)
(* the operand handles fixed in that transaction.                          *)
(***************************************************************************)
EXTENDS Naturals, Sequences, Policy

CONSTANTS Engines,       \* the deployed engines
          Kind,          \* Kind[e]: "treasury" (CDE) or "payroll" (PayrollCDE)
          Registries,    \* the deployed DecisionRegistry contracts
          RegistryOf,    \* RegistryOf[e]: the registry e was constructed with
          Owner,         \* the deployer, owner of every contract
          Callers,       \* the accounts that send decide()
          Runtimes,      \* the accounts that serve as runtime
          Plaintexts,    \* the numbers that are encrypted
          MaxDecisions,  \* bound: decisions per engine
          MaxPolicies,   \* bound: ciphertexts ever stored as policy
          MaxBlock,      \* bound: blocks
          Pending,       \* the value of a handle the TEE has not computed yet
          NoRecord       \* an empty slot of the registry's mapping

ASSUME EnginesAssumption ==
  /\ Kind \in [Engines -> {"treasury", "payroll"}]
  /\ RegistryOf \in [Engines -> Registries]

\* Each engine has a registry of its own, as the deployment guide requires: the
\* registry files decisions by id alone, and every engine counts from 1.
ASSUME OwnRegistry ==
  \A d, e \in Engines : RegistryOf[d] = RegistryOf[e] => d = e

ASSUME NumbersAssumption ==
  /\ Plaintexts \subseteq Nat
  /\ 0 \in Plaintexts
  /\ MaxDecisions \in Nat
  /\ MaxPolicies \in Nat
  /\ MaxBlock \in Nat \ {0}
  /\ Pending \notin Nat

VARIABLES
  runtime,            \* runtime[e]: treasuryRuntime / payrollRuntime
  policy,             \* policy[e]: the handles of the encrypted thresholds
  policyInitialized,
  decisionCount,      \* decisionCount[e]: the last id given out
  actionOf,           \* actionOf[e][id]: handle of the encrypted action, 0 if none
  confidenceOf,       \* confidenceOf[e][id]: likewise, of the confidence
  isRecorder,         \* isRecorder[r]: the engines registry r accepts
  decisions,          \* decisions[r][id]: the record filed under id
  recorded,           \* recorded[r]: the registry's own decisionCount
  sealed,             \* Nox: the ciphertexts stored as thresholds, by handle
  derived,            \* Nox: the ciphertexts computed by decide(), by handle
  block,              \* the block the next transaction is mined in
  history             \* history[e][id]: what was true when id was decided

vars == <<runtime, policy, policyInitialized, decisionCount, actionOf, confidenceOf,
          isRecorder, decisions, recorded, sealed, derived, block, history>>

Ids      == 1..MaxDecisions
Blocks   == 1..MaxBlock
Accounts == Engines \cup Callers \cup Runtimes \cup {Owner}
Outputs  == {"action", "confidence"}

\* A policy is a record of handles, one per threshold
PolicyHandles(kind) ==
  IF kind = "treasury" THEN [hedge : Nat, signal : Nat] ELSE [cap : Nat]

\* The numbers the handles of a policy decrypt to
Thresholds(p) == [name \in DOMAIN p |-> sealed[p[name]].plain]

\* The chain's clock: a block every twelve seconds
Timestamp(b) == 12 * b

\* keccak256 of the packed, fixed-width fields: equal only if they all are
Commitment(e, id, caller, timestamp, blockNumber) ==
  <<e, id, caller, timestamp, blockNumber>>

-----------------------------------------------------------------------------
\* The constructors.  Both engines encrypt the constant 0 (handle 1) as each
\* threshold and keep access to it; nobody is a recorder yet.
Init ==
  /\ runtime \in [Engines -> Runtimes]
  /\ sealed = << [plain |-> 0, viewers |-> Engines] >>
  /\ policy = [e \in Engines |->
       IF Kind[e] = "treasury" THEN [hedge |-> 1, signal |-> 1] ELSE [cap |-> 1]]
  /\ policyInitialized = [e \in Engines |-> FALSE]
  /\ decisionCount = [e \in Engines |-> 0]
  /\ actionOf = [e \in Engines |-> [id \in Ids |-> 0]]
  /\ confidenceOf = [e \in Engines |-> [id \in Ids |-> 0]]
  /\ isRecorder = [r \in Registries |-> {}]
  /\ decisions = [r \in Registries |-> [id \in Ids |-> NoRecord]]
  /\ recorded = [r \in Registries |-> 0]
  /\ derived = << >>
  /\ block = 1
  /\ history = [e \in Engines |-> << >>]

\* setTreasuryRuntime / setPayrollRuntime, sent by the owner: the new runtime gets
\* access to the decisions to come, and to no earlier one.
SetRuntime(e, account) ==
  /\ runtime' = [runtime EXCEPT ![e] = account]
  /\ UNCHANGED <<policy, policyInitialized, decisionCount, actionOf, confidenceOf,
                 isRecorder, decisions, recorded, sealed, derived, block, history>>

\* Mutant: allowThis is dropped.
SealForOwner(e, plain) == [plain |-> plain, viewers |-> {Owner}]

\* Nox.fromExternal, allowThis and allow(owner) for one threshold
Seal(e, plain) == [plain |-> plain, viewers |-> {e, Owner}]

SetTreasuryPolicy(e, hedge, signal) ==
  /\ Kind[e] = "treasury"
  /\ Len(sealed) + 2 <= MaxPolicies
  /\ sealed' = Append(Append(sealed, Seal(e, hedge)), Seal(e, signal))
  /\ policy' = [policy EXCEPT ![e] = [hedge |-> Len(sealed) + 1, signal |-> Len(sealed) + 2]]
  /\ policyInitialized' = [policyInitialized EXCEPT ![e] = TRUE]
  /\ UNCHANGED <<runtime, decisionCount, actionOf, confidenceOf,
                 isRecorder, decisions, recorded, derived, block, history>>

SetPayrollPolicy(e, cap) ==
  /\ Kind[e] = "payroll"
  /\ Len(sealed) + 1 <= MaxPolicies
  /\ sealed' = Append(sealed, Seal(e, cap))
  /\ policy' = [policy EXCEPT ![e] = [cap |-> Len(sealed) + 1]]
  /\ policyInitialized' = [policyInitialized EXCEPT ![e] = TRUE]
  /\ UNCHANGED <<runtime, decisionCount, actionOf, confidenceOf,
                 isRecorder, decisions, recorded, derived, block, history>>

\* DecisionRegistry.setRecorder, sent by the owner
SetRecorder(r, e, allowed) ==
  /\ isRecorder' = [isRecorder EXCEPT ![r] = IF allowed THEN @ \cup {e} ELSE @ \ {e}]
  /\ UNCHANGED <<runtime, policy, policyInitialized, decisionCount, actionOf,
                 confidenceOf, decisions, recorded, sealed, derived, block, history>>

\* DecisionRegistry.record, called by engine e inside decide()
RecordOf(e, id, caller, b) ==
  [id |-> id, commitment |-> Commitment(e, id, caller, Timestamp(b), b), cde |-> e,
   caller |-> caller, timestamp |-> Timestamp(b), blockNumber |-> b]

\* Mutant: the engine swallows the registry's revert, which Record below leaves to
\* undo the whole transaction.
RecordTried(r, e, id, caller) ==
  IF e \in isRecorder[r]
  THEN /\ decisions' = [decisions EXCEPT ![r][id] = RecordOf(e, id, caller, block)]
       /\ recorded' = [recorded EXCEPT ![r] = @ + 1]
  ELSE UNCHANGED <<decisions, recorded>>

Record(r, e, id, caller) ==
  /\ e \in isRecorder[r]
  /\ decisions' = [decisions EXCEPT ![r][id] = RecordOf(e, id, caller, block)]
  /\ recorded' = [recorded EXCEPT ![r] = @ + 1]

\* Mutant: the action is shared with the owner instead of the runtime.
ActionCellForOwner(e, in) ==
  [engine |-> e, out |-> "action", policy |-> policy[e], in |-> in, plain |-> Pending,
   viewers |-> {e, Owner}, public |-> FALSE]

\* The two results of decide(), not yet computed: the engine keeps access to both,
\* the runtime of the moment gets the action, everyone the confidence.
ActionCell(e, in) ==
  [engine |-> e, out |-> "action", policy |-> policy[e], in |-> in, plain |-> Pending,
   viewers |-> {e, runtime[e]}, public |-> FALSE]

ConfidenceCell(e, in) ==
  [engine |-> e, out |-> "confidence", policy |-> policy[e], in |-> in, plain |-> Pending,
   viewers |-> {e}, public |-> TRUE]

\* Mutant: only the first decision counts.
NextIdOnce(e) == 1

\* ++decisionCount
NextId(e) == decisionCount[e] + 1

\* decide(): the whole transaction.  Nox refuses an operand e has no access to, and
\* the registry an engine that is no recorder; either reverts everything.
Decide(e, caller, in) ==
  LET id == NextId(e) IN
  /\ id \in Ids
  /\ policyInitialized[e]
  /\ \A name \in DOMAIN policy[e] : e \in sealed[policy[e][name]].viewers
  /\ Record(RegistryOf[e], e, id, caller)
  /\ decisionCount' = [decisionCount EXCEPT ![e] = id]
  /\ derived' = Append(Append(derived, ActionCell(e, in)), ConfidenceCell(e, in))
  /\ actionOf' = [actionOf EXCEPT ![e][id] = Len(derived) + 1]
  /\ confidenceOf' = [confidenceOf EXCEPT ![e][id] = Len(derived) + 2]
  /\ history' = [history EXCEPT ![e] = Append(@, [caller |-> caller, block |-> block,
                   runtime |-> runtime[e], in |-> in, thresholds |-> Thresholds(policy[e])])]
  /\ UNCHANGED <<runtime, policy, policyInitialized, isRecorder, sealed, block>>

\* CDE.decide and PayrollCDE.decide
TreasuryDecide(e, caller, exposure, signal) ==
  Kind[e] = "treasury" /\ Decide(e, caller, <<exposure, signal>>)

PayrollDecide(e, caller, budget, requested) ==
  Kind[e] = "payroll" /\ Decide(e, caller, <<budget, requested>>)

\* The TEE computes a result, from the operand handles decide() fixed
TeeCompute(h) ==
  /\ derived[h].plain = Pending
  /\ derived' = [derived EXCEPT ![h].plain =
                   Outcome(Kind[derived[h].engine], derived[h].out, derived[h].in,
                           Thresholds(derived[h].policy))]
  /\ UNCHANGED <<runtime, policy, policyInitialized, decisionCount, actionOf, confidenceOf,
                 isRecorder, decisions, recorded, sealed, block, history>>

NextBlock ==
  /\ block < MaxBlock
  /\ block' = block + 1
  /\ UNCHANGED <<runtime, policy, policyInitialized, decisionCount, actionOf, confidenceOf,
                 isRecorder, decisions, recorded, sealed, derived, history>>

Next ==
  \/ \E e \in Engines :
       \/ \E account \in Runtimes : SetRuntime(e, account)
       \/ \E hedge, signal \in Plaintexts : SetTreasuryPolicy(e, hedge, signal)
       \/ \E cap \in Plaintexts : SetPayrollPolicy(e, cap)
       \/ \E allowed \in BOOLEAN : SetRecorder(RegistryOf[e], e, allowed)
       \/ \E caller \in Callers, x, y \in Plaintexts :
            TreasuryDecide(e, caller, x, y) \/ PayrollDecide(e, caller, x, y)
  \/ \E h \in 1..Len(derived) : TeeCompute(h)
  \/ NextBlock

Spec == Init /\ [][Next]_vars

-----------------------------------------------------------------------------
SealedCell == [plain : Nat, viewers : SUBSET Accounts]

DerivedCell ==
  [engine : Engines, out : Outputs, policy : PolicyHandles("treasury") \cup PolicyHandles("payroll"),
   in : Nat \X Nat, plain : Nat \cup {Pending}, viewers : SUBSET Accounts, public : BOOLEAN]

HistoryEntry ==
  [caller : Callers, block : Blocks, runtime : Runtimes, in : Nat \X Nat,
   thresholds : PolicyHandles("treasury") \cup PolicyHandles("payroll")]

RecordType ==
  [id : Ids, commitment : Engines \X Ids \X Callers \X Nat \X Blocks, cde : Engines,
   caller : Callers, timestamp : Nat, blockNumber : Blocks]

\* Every variable, and every ciphertext Nox holds, has the shape the contracts give it.
TypeOK ==
  /\ runtime \in [Engines -> Runtimes]
  /\ policyInitialized \in [Engines -> BOOLEAN]
  /\ decisionCount \in [Engines -> 0..MaxDecisions]
  /\ actionOf \in [Engines -> [Ids -> Nat]]
  /\ confidenceOf \in [Engines -> [Ids -> Nat]]
  /\ isRecorder \in [Registries -> SUBSET Engines]
  /\ decisions \in [Registries -> [Ids -> RecordType \cup {NoRecord}]]
  /\ recorded \in [Registries -> Nat]
  /\ sealed \in Seq(SealedCell)
  /\ derived \in Seq(DerivedCell)
  /\ block \in Blocks
  /\ history \in [Engines -> Seq(HistoryEntry)]
  /\ DOMAIN policy = Engines
  /\ \A e \in Engines : policy[e] \in PolicyHandles(Kind[e])

\* The public log never disagrees with the engines: each engine's registry holds a
\* record for exactly the ids the engine has given out, filed under its own caller
\* and block, with the commitment anybody recomputes from the record (CDE
\* commitmentFor), and the registry's counter is the engine's.  A decide() that
\* reverts in the registry leaves neither side behind.
RecordsAgree ==
  \A e \in Engines :
    /\ Len(history[e]) = decisionCount[e]
    /\ recorded[RegistryOf[e]] = decisionCount[e]
    /\ \A id \in Ids :
         decisions[RegistryOf[e]][id] =
           IF id <= decisionCount[e]
           THEN RecordOf(e, id, history[e][id].caller, history[e][id].block)
           ELSE NoRecord

\* Selective decryption: the action of a decision can be decrypted by its engine and
\* by the account that was the runtime when the decision was made, whoever is the
\* runtime now and however often it was rotated; the confidence, and only the
\* confidence, is public.
SelectiveDecryption ==
  \A e \in Engines : \A id \in 1..decisionCount[e] :
    LET action     == derived[actionOf[e][id]]
        confidence == derived[confidenceOf[e][id]]
    IN  /\ action.engine = e /\ action.out = "action"
        /\ action.viewers = {e, history[e][id].runtime} /\ ~action.public
        /\ confidence.engine = e /\ confidence.out = "confidence"
        /\ confidence.public

\* The outputs of a decision, once the TEE has computed them, are what the policy
\* comment promises for the inputs and thresholds of ITS transaction, even when the
\* owner has replaced the thresholds before the TEE got to it; and action and
\* confidence, computed separately, never tell different stories.
FollowsPolicyInForce ==
  \A e \in Engines : \A id \in 1..decisionCount[e] :
    LET expected == Expected(Kind[e], history[e][id].in, history[e][id].thresholds)
    IN  /\ derived[actionOf[e][id]].plain \in {Pending, expected[1]}
        /\ derived[confidenceOf[e][id]].plain \in {Pending, expected[2]}

\* "used in a later decide() tx -> must persist": an engine never loses access to the
\* thresholds it holds, so decide() cannot be locked out by its own policy, and once
\* set they are readable by the engine and the owner alone.
PolicyAccess ==
  \A e \in Engines : \A name \in DOMAIN policy[e] :
    /\ policy[e][name] \in 1..Len(sealed)
    /\ e \in sealed[policy[e][name]].viewers
    /\ policyInitialized[e] => sealed[policy[e][name]].viewers = {e, Owner}

\* Engine and registry together implement an append-only log per engine: what a
\* reader of getDecision(id) sees under an id never changes afterwards.
Log == INSTANCE DecisionLog WITH
  log <- [e \in Engines |-> [id \in 1..decisionCount[e] |->
            [caller |-> decisions[RegistryOf[e]][id].caller,
             block  |-> decisions[RegistryOf[e]][id].blockNumber]]]
ImplementsLog == Log!Spec
=============================================================================
