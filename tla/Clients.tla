------------------------------ MODULE Clients -------------------------------
(***************************************************************************)
(* The client side beside the paid call: the treasury loops, verification, *)
(* and the control plane's pages.  They share no state, so one moves in    *)
(* each behaviour (part), and a state says nothing of the others.          *)
(***************************************************************************)
EXTENDS Verification

CONSTANTS
  None, Parts,  \* the parts that move: all of them, or some
  Loops, Foreign, Torn, Portfolios, Prices, Thresholds, UsdcUnit, WethUnit, Step, Tries, LogSize,
  MaxForeign,                                     \* TreasuryLoop
  Accounts, Chains, Sepolia, MaxChanges, MaxClicks, Addresses, OwnersOf(_),
  NewOwners(_), MaxSwaps, MaxChecks,              \* Onboarding
  Endpoints, BadUrl, Presets, BodyOf(_), Bodies, Garbled, MaxEdits, MaxPays,           \* Inspector
  Polls, ListMax, MaxDecisions, MaxEvents, MaxDeploys                                  \* Dashboard

VARIABLES
  part,
  loop, code, event, tries, action, top, txNonce, receipt, snapshot, events, safe, file,
  overlapped, written, clean,
  hasProvider, account, network, asked, wire, address, chainId, connecting, error, changes, clicks,
  owners, swaps, input, checking, info, during, shownSafe, failed, portfolio, effect, polls, checks,
  env, url, body, decoded, paid, busy, err, requests, payments, edits, pays,
  page, engine, decisions, busEvents, up, poll, shown, pageErr

loopVars == <<loop, code, event, tries, action, top, txNonce, receipt, snapshot, events, safe,
              file, overlapped, written, clean>>
onboardingVars == <<hasProvider, account, network, asked, wire, address, chainId, connecting, error,
                    changes, clicks, owners, swaps, input, checking, info, during, shownSafe, failed,
                    portfolio, effect, polls, checks>>
inspectorVars == <<env, url, body, decoded, paid, busy, err, requests, payments, edits, pays>>
dashboardVars == <<page, engine, decisions, busEvents, up, poll, shown, pageErr>>
clientsVars == <<part, loopVars, vars, onboardingVars, inspectorVars, dashboardVars>>

Loop       == INSTANCE TreasuryLoop WITH pc <- loop, Nothing <- None
Onboarding == INSTANCE Onboarding WITH safe <- shownSafe, chain <- network
Inspector  == INSTANCE Inspector
Dashboard  == INSTANCE Dashboard WITH events <- busEvents, err <- pageErr

\* What the theorems about the parts assume of the constants
ASSUME PartsAssumption ==
  /\ Loop!LoopAssumption /\ Onboarding!PageAssumption
  /\ Inspector!PageAssumption /\ Dashboard!PageAssumption

AllParts == {"loop", "verification", "onboarding", "inspector", "dashboard"}

ClientsInit ==
  /\ part \in Parts
  /\ Loop!Init /\ Init /\ Onboarding!Init /\ Inspector!Init /\ Dashboard!Init

ClientsNext ==
  \/ /\ part = "loop" /\ Loop!Next
     /\ UNCHANGED <<part, vars, onboardingVars, inspectorVars, dashboardVars>>
  \/ /\ part = "verification" /\ Next
     /\ UNCHANGED <<part, loopVars, onboardingVars, inspectorVars, dashboardVars>>
  \/ /\ part = "onboarding" /\ Onboarding!Next
     /\ UNCHANGED <<part, loopVars, vars, inspectorVars, dashboardVars>>
  \/ /\ part = "inspector" /\ Inspector!Next
     /\ UNCHANGED <<part, loopVars, vars, onboardingVars, dashboardVars>>
  \/ /\ part = "dashboard" /\ Dashboard!Next
     /\ UNCHANGED <<part, loopVars, vars, onboardingVars, inspectorVars>>

ClientsSpec == ClientsInit /\ [][ClientsNext]_clientsVars

\* Each part's fairness, while it is the one that moves
Fairness ==
  /\ \A l \in Loops : WF_loopVars(part = "loop" /\ Loop!Proceed(l))
  /\ \A p \in Polls :
       WF_dashboardVars(/\ part = "dashboard"
                        /\ Dashboard!Load(p) \/ Dashboard!Serve(p) \/ Dashboard!Fail(p) \/ Dashboard!Answer(p))

-----------------------------------------------------------------------------
\* Types of all parts
Types == /\ Loop!TypeOK /\ TypeOK /\ Onboarding!TypeOK /\ Inspector!TypeOK
         /\ Dashboard!TypeOK

\* The parts' properties, each stated and explained in its module
ActsOnNoOlderEvent  == Loop!ActsOnNoOlderEvent
LoneSwapSucceeds    == Loop!LoneSwapSucceeds
LogKeepsRecent      == Loop!LogKeepsRecent
EveryLoopEnds       == Loop!EveryLoopEnds
LoggedSwapsHappened == Loop!LoggedSwapsHappened

\* The wallet's, and that of the page composed with it
AtRestShowsTheWallet == Onboarding!W!AtRestShowsTheWallet
NeverStuckConnecting == Onboarding!W!NeverStuckConnecting
BelongsToShownSafe   == Onboarding!BelongsToShownSafe

OnePaymentPerClick == Inspector!OnePaymentPerClick

OneAnswerIsConsistent == Dashboard!OneAnswerIsConsistent
Converges             == part = "dashboard" => Dashboard!Converges
=============================================================================
