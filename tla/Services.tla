------------------------------ MODULE Services ------------------------------
(***************************************************************************)
(* The service side beside the paid call: PaymentMeter, the launcher, the  *)
(* operator's gas, the example servers, prices, the deployment scripts and *)
(* the Safe demo.  They share no state, so one moves in each behaviour     *)
(* (part), and a state says nothing of the others.                         *)
(***************************************************************************)
EXTENDS PaymentMeter

CONSTANTS
  MaxLaunchers, HealthChecks,                  \* Launcher: its MaxRuns, Tries
  Slots, MinWei, MaxBalance, CacheMs,          \* Operator
  HelloCalls, PayrollCalls, Tries, MaxForeign, \* ExampleServers
  Prices, MaxDecimals, Refused,                \* AtomicPrice
  MaxScripts, MaxDecisions,                    \* Deployment: its MaxRuns
  Need, Gain, MaxDemos, MaxBatches             \* SafeDemo: its MaxRuns, MaxForeign

VARIABLES
  part,
  contained, run, launcher, checks, child, cause,
  balance, cached, call,
  runtime, client, api, tx, nonce, mempool, mined, id, tries, log, ready, attested, charged,
  price, decimals, amount,
  otherRuntime, script, left, done, lost, decisions, readId, outcome, file,
  safe, pending, pc, action, signed, wethBefore, runs, foreign, swapped, disturbed, passed

launcherVars   == <<contained, run, launcher, checks, child, cause>>
operatorVars   == <<balance, cached, call>>
exampleVars    == <<runtime, client, api, tx, nonce, mempool, mined, id, tries, log, ready, attested, charged>>
priceVars      == <<price, decimals, amount>>
deploymentVars == <<otherRuntime, script, left, done, lost, decisions, readId, outcome, file>>
demoVars       == <<safe, pending, pc, action, signed, wethBefore, runs, foreign, swapped, disturbed, passed>>
allVars == <<part, vars, launcherVars, operatorVars, exampleVars, priceVars, deploymentVars, demoVars>>

Launcher   == INSTANCE Launcher WITH tries <- checks, Tries <- HealthChecks, MaxRuns <- MaxLaunchers
Operator   == INSTANCE Operator
Examples   == INSTANCE ExampleServers
Price      == INSTANCE AtomicPrice
Deployment == INSTANCE Deployment WITH id <- readId, MaxRuns <- MaxScripts
Demo       == INSTANCE SafeDemo
                WITH mempool <- pending, file <- passed, MaxRuns <- MaxDemos, MaxForeign <- MaxBatches

\* What the theorems about the parts assume of the constants
ASSUME PartsAssumption ==
  /\ Launcher!LauncherAssumption /\ Operator!GasAssumption
  /\ Examples!ServerAssumption /\ Demo!DemoAssumption /\ Price!PriceAssumption
  /\ Deployment!DeploymentAssumption

Parts == {"meter", "launcher", "operator", "examples", "price", "deployment", "demo"}

ServicesInit ==
  /\ part \in Parts
  /\ Init /\ Launcher!Init /\ Operator!Init /\ Examples!Init
  /\ Price!Init /\ Deployment!Init /\ Demo!Init

ServicesNext ==
  \/ /\ part = "meter" /\ Next
     /\ UNCHANGED <<part, launcherVars, operatorVars, exampleVars, priceVars, deploymentVars, demoVars>>
  \/ /\ part = "launcher" /\ Launcher!Next
     /\ UNCHANGED <<part, vars, operatorVars, exampleVars, priceVars, deploymentVars, demoVars>>
  \/ /\ part = "operator" /\ Operator!Next
     /\ UNCHANGED <<part, vars, launcherVars, exampleVars, priceVars, deploymentVars, demoVars>>
  \/ /\ part = "examples" /\ Examples!Next
     /\ UNCHANGED <<part, vars, launcherVars, operatorVars, priceVars, deploymentVars, demoVars>>
  \/ /\ part = "price" /\ Price!Next
     /\ UNCHANGED <<part, vars, launcherVars, operatorVars, exampleVars, deploymentVars, demoVars>>
  \/ /\ part = "deployment" /\ Deployment!Next
     /\ UNCHANGED <<part, vars, launcherVars, operatorVars, exampleVars, priceVars, demoVars>>
  \/ /\ part = "demo" /\ Demo!Next
     /\ UNCHANGED <<part, vars, launcherVars, operatorVars, exampleVars, priceVars, deploymentVars>>

ServicesSpec == ServicesInit /\ [][ServicesNext]_allVars

\* Each part's fairness, while it is the one that moves
Fairness ==
  /\ \A n \in Launcher!Names : WF_launcherVars(part = "launcher" /\ Launcher!OnExit(n))
  /\ WF_operatorVars(part = "operator" /\ Operator!Tick)
  /\ \A c \in Slots :
       WF_operatorVars(part = "operator" /\ (Operator!ReadBalance(c) \/ Operator!Answered(c)))

-----------------------------------------------------------------------------
\* Types of all parts
Types == /\ TypeOK /\ Launcher!TypeOK /\ Operator!TypeOK /\ Examples!TypeOK
         /\ Deployment!TypeOK /\ Demo!TypeOK

\* The parts' properties, each stated and explained in its module
NobodyIsLeftBehind       == Launcher!NobodyIsLeftBehind
ApiBehindFacilitator     == Launcher!ApiBehindFacilitator
HalfPairEnds             == Launcher!HalfPairEnds
FailsOnlyWhenOthersSpent == Operator!FailsOnlyWhenOthersSpent
FollowsTheBalance        == Operator!FollowsTheBalance
ChargedForResults        == Examples!ChargedForResults
ImplementsPaidCall       == Examples!ImplementsPaidCall
AmountIsThePrice         == Price!AmountIsThePrice
PublishedIsReady         == Deployment!PublishedIsReady
UndisturbedVerdict       == Demo!UndisturbedVerdict
=============================================================================
