----------------------------- MODULE Deployment -----------------------------
(***************************************************************************)
(* The scripts that deploy the contracts (contracts/scripts).  Each is a   *)
(* plan of transactions and reads, run to its end or to the first failure; *)
(* a run after a failure starts afresh with contracts of its own.  The     *)
(* engines' scripts end with a decision they check; what they deployed is  *)
(* open to anybody meanwhile.  No script looks at the status in a receipt: *)
(* a transaction that reverts when it is mined is taken for a success, and *)
(* an address without code, which a reverted creation has too, accepts any *)
(* call and does nothing.  Addresses leave a script by a file, or a line   *)
(* for .env, which is kept here as the script's file as well.              *)
(*                                                                         *)
(* Contracts are named by the run that deployed them.                      *)
(***************************************************************************)
EXTENDS Naturals, Sequences, SequencesExt

CONSTANTS None,
          MaxRuns,      \* bound: scripts started
          MaxDecisions  \* bound: decisions others make on an engine

VARIABLES
  otherRuntime,  \* the payroll's runtime is configured, and not the deployer
  script,        \* script[r]: what run r runs, or None
  left,          \* left[r]: the steps before it
  done, lost,    \* done[r]: its transactions that took effect; lost[r]: those mined without
  decisions,     \* decisions[r]: those of its engine: by whom, and whether as expected
  id, outcome,   \* id[r], outcome[r]: the decision it read, and what it decrypted
  file           \* file[s]: what script s wrote or printed last

vars == <<otherRuntime, script, left, done, lost, decisions, id, outcome, file>>

Runs    == 1..MaxRuns
Engines == {"treasury", "payroll"}
Scripts == Engines \cup {"meter", "bus"}
Transactions == {"registry", "engine", "recorder", "policy", "decide", "meter", "authorize", "bus"}

EngineReady == <<"registry", "engine", "recorder", "policy">>

\* Mutant: the id is read before the decision is made.
TreasuryPlanReadingEarly == EngineReady \o <<"id", "decide", "decrypt", "check", "write">>

TreasuryPlan == EngineReady \o <<"decide", "id", "decrypt", "check", "write">>
PayrollPlan  == EngineReady \o <<"decide", "id", "decrypt", "write", "check">>
MeterPlan    == <<"meter", "authorize", "write">>
BusPlan      == <<"bus", "write">>

Plan(s) == CASE s = "treasury" -> TreasuryPlan
             [] s = "payroll"  -> PayrollPlan
             [] s = "meter"    -> MeterPlan
             [] s = "bus"      -> BusPlan

DeploymentAssumption == None \notin Scripts \cup Nat

Init ==
  /\ otherRuntime \in BOOLEAN
  /\ script = [r \in Runs |-> None] /\ left = [r \in Runs |-> << >>]
  /\ done = [r \in Runs |-> {}] /\ lost = [r \in Runs |-> {}] /\ decisions = [r \in Runs |-> << >>]
  /\ id = [r \in Runs |-> None] /\ outcome = [r \in Runs |-> None]
  /\ file = [s \in Scripts |-> None]

Start(r, s) ==
  /\ script[r] = None /\ \A q \in Runs : q < r => script[q] # None
  /\ script' = [script EXCEPT ![r] = s] /\ left' = [left EXCEPT ![r] = Plan(s)]
  /\ UNCHANGED <<otherRuntime, done, lost, decisions, id, outcome, file>>

At(r, step) == left[r] # << >> /\ Head(left[r]) = step
Proceed(r)  == left' = [left EXCEPT ![r] = Tail(@)]

\* An engine decides once its registry, which has to be one, lets it record and its policy
\* is set: before that a decide() reverts when its gas is estimated.
Ready(r)       == {"registry", "engine", "recorder", "policy"} \subseteq done[r]
Decided(r, by, right) ==
  /\ Ready(r)
  /\ decisions' = [decisions EXCEPT ![r] = Append(@, [by |-> by, right |-> right])]

\* The contract a transaction is sent to; a creation is sent to none.
Callee(t) == CASE t = "recorder" -> {"registry"} [] t \in {"policy", "decide"} -> {"engine"}
               [] t = "authorize" -> {"meter"} [] OTHER -> {}

TakesEffect(r, t) == done' = [done EXCEPT ![r] = @ \cup {t}] /\ UNCHANGED lost
IsLost(r, t)      == lost' = [lost EXCEPT ![r] = @ \cup {t}] /\ UNCHANGED done

-----------------------------------------------------------------------------
\* deploy() and send(): the transaction is mined, successfully or not, and its receipt
\* awaited.  It has no effect if it reverts or there is nothing at its address.
Transact(r) ==
  /\ \E t \in Transactions \ {"decide"} :
       /\ At(r, t)
       /\ (Callee(t) \subseteq done[r] /\ TakesEffect(r, t)) \/ IsLost(r, t)
  /\ Proceed(r)
  /\ UNCHANGED <<otherRuntime, script, decisions, id, outcome, file>>

SendDecide(r) ==
  /\ At(r, "decide") /\ Proceed(r)
  /\ \/ TakesEffect(r, "decide") /\ Decided(r, "script", TRUE)
     \/ /\ Ready(r) \/ ~(Callee("decide") \subseteq done[r])
        /\ IsLost(r, "decide") /\ UNCHANGED decisions
  /\ UNCHANGED <<otherRuntime, script, id, outcome, file>>

\* decisionCount, of an engine that is there
ReadId(r) ==
  /\ At(r, "id") /\ "engine" \in done[r] /\ Proceed(r)
  /\ id' = [id EXCEPT ![r] = Len(decisions[r])]
  /\ UNCHANGED <<otherRuntime, script, done, lost, decisions, outcome, file>>

\* withRetry: the deployer decrypts the action if there is one and it is the engine's runtime,
\* however late it is computed.  (Otherwise it is refused, at once or until the retries are
\* used up: the script stops.)
Decrypt(r) ==
  /\ At(r, "decrypt") /\ id[r] > 0 /\ (otherRuntime => script[r] = "treasury") /\ Proceed(r)
  /\ outcome' = [outcome EXCEPT ![r] = decisions[r][id[r]].right]
  /\ UNCHANGED <<otherRuntime, script, done, lost, decisions, id, file>>

Check(r) ==
  /\ At(r, "check") /\ outcome[r] /\ Proceed(r)
  /\ UNCHANGED <<otherRuntime, script, done, lost, decisions, id, outcome, file>>

Write(r) ==
  /\ At(r, "write") /\ Proceed(r)
  /\ file' = [file EXCEPT ![script[r]] = [run |-> r, id |-> id[r], outcome |-> outcome[r]]]
  /\ UNCHANGED <<otherRuntime, script, done, lost, decisions, id, outcome>>

\* Anything awaited fails, a check does not hold, or the process is stopped.  A transaction
\* sent before may have been mined: that is a stop after it.
Stop(r) ==
  /\ left[r] # << >> /\ left' = [left EXCEPT ![r] = << >>]
  /\ UNCHANGED <<otherRuntime, script, done, lost, decisions, id, outcome, file>>

ForeignDecide(r) ==
  /\ Len(decisions[r]) < MaxDecisions
  /\ \E b \in BOOLEAN : Decided(r, "other", b)
  /\ UNCHANGED <<otherRuntime, script, left, done, lost, id, outcome, file>>

-----------------------------------------------------------------------------
Next ==
  \E r \in Runs :
    \/ \E s \in Scripts : Start(r, s)
    \/ Transact(r) \/ SendDecide(r) \/ ReadId(r) \/ Decrypt(r) \/ Check(r) \/ Write(r)
    \/ Stop(r) \/ ForeignDecide(r)

Spec == Init /\ [][Next]_vars

-----------------------------------------------------------------------------
\* Types; a script reads the id of a decision that its engine made, or zero.
TypeOK ==
  \A r \in Runs :
    /\ script[r] \in Scripts \cup {None}
    /\ script[r] # None => IsSuffix(left[r], Plan(script[r]))
    /\ done[r] \subseteq Transactions /\ lost[r] \subseteq Transactions
    /\ id[r] # None => id[r] \in 0..Len(decisions[r])
    /\ outcome[r] \in BOOLEAN \cup {None}

\* Although no receipt's status is looked at, whichever runs failed before and whatever
\* others did meanwhile: an engine that a file names records, has its policy and has decided,
\* and the decision published is the script's own or, if that reverted or somebody decided
\* after it, another of this engine, never one from before the script's.  The treasury's is
\* as expected (the throws of deploy-and-verify.ts, 133 and 134, come before its file is
\* written).  A printed meter accepts its recorder, and a printed bus is one, unless one of
\* the run's transactions came to nothing.
PublishedIsReady ==
  \A s \in Scripts : file[s] # None =>
    LET r == file[s].run
        n == file[s].id IN
    /\ s \in Engines => /\ Ready(r) /\ n \in 1..Len(decisions[r])
                        /\ \A i \in 1..Len(decisions[r]) : decisions[r][i].by = "script" => i <= n
    /\ s = "treasury" => decisions[r][n].right
    /\ s = "meter" => {"meter", "authorize"} \subseteq done[r] \/ lost[r] # {}
    /\ s = "bus" => "bus" \in done[r] \/ lost[r] # {}
=============================================================================
