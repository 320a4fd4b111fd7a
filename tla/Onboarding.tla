----------------------------- MODULE Onboarding -----------------------------
(***************************************************************************)
(* The onboarding page (app/app/treasury): with a connected wallet the     *)
(* user has an address checked to be a Safe, and is then shown whether the *)
(* wallet is an owner, and the Safe's portfolio, polled for as long as the *)
(* Safe is shown.  Composed with Wallet, which moves on all the time.      *)
(*                                                                         *)
(* The owners of a Safe change on chain; the page keeps those that its     *)
(* check has read.  (The node that it reads is not behind.)                *)
(*                                                                         *)
(* A portfolio is represented by the Safe whose balances it holds.  Polls  *)
(* of one effect ask for the same Safe, so a set of them is kept.          *)
(***************************************************************************)
EXTENDS Naturals, Sequences

CONSTANTS Accounts, Chains, Sepolia, None, MaxChanges, MaxClicks,
          Addresses,   \* what the user may type
          OwnersOf(_), \* first owners of the Safe at an address; none if there is no Safe
          NewOwners(_),\* the sets of owners it may get
          MaxSwaps,    \* bound: changes of a Safe's owners
          MaxChecks    \* bound: clicks on "Verify Safe"

VARIABLES hasProvider, account, chain, asked, wire, address, chainId, connecting, error,
          changes, clicks

W == INSTANCE Wallet

VARIABLES
  owners, swaps,    \* on chain: the owners at each address, and how often they changed
  input, checking,  \* the address typed, and the one being checked
  info,             \* the owners that the check has read
  during,           \* history: what the owners were while the check was under way
  safe, failed,     \* the Safe that is shown, or that the check failed
  portfolio,
  effect,           \* the poll effect's run: an older run is no longer live
  polls,            \* unanswered polls
  checks

wallet == <<hasProvider, account, chain, asked, wire, address, chainId, connecting, error,
            changes, clicks>>
chainOwners == <<owners, swaps>>
own    == <<chainOwners, input, checking, info, during, safe, failed, portfolio, effect, polls, checks>>
vars   == <<wallet, own>>

Init ==
  /\ W!Init
  /\ owners = [a \in Addresses |-> OwnersOf(a)] /\ swaps = 0
  /\ info = {} /\ during = {}
  /\ input = None /\ checking = None /\ safe = None /\ failed = FALSE /\ portfolio = None
  /\ effect = 0 /\ polls = {} /\ checks = 0

IsOwner  == safe # None /\ address # None /\ address \in info
WrongNet == address # None /\ chainId # Sepolia

\* A Safe's owners are changed; it always has one.
ChangeOwners(a) ==
  /\ owners[a] # {} /\ swaps < MaxSwaps /\ swaps' = swaps + 1
  /\ \E s \in NewOwners(a) \ {owners[a]} :
       /\ owners' = [owners EXCEPT ![a] = s]
       /\ during' = IF checking = a THEN during \cup {s} ELSE during
  /\ UNCHANGED <<input, checking, info, safe, failed, portfolio, effect, polls, checks>>

Edit ==
  /\ input' \in Addresses \ {input}
  /\ UNCHANGED <<chainOwners, info, during, checking, safe, failed, portfolio, effect, polls, checks>>

CanVerify == input # None /\ checking = None /\ address # None /\ ~WrongNet

\* verify(): what is shown is cleared, which ends the effect of the Safe shown before.
Verify ==
  /\ CanVerify
  /\ checks < MaxChecks /\ checks' = checks + 1
  /\ checking' = input /\ info' = {} /\ during' = {owners[input]}
  /\ safe' = None /\ failed' = FALSE /\ portfolio' = None
  /\ effect' = effect + 1
  /\ UNCHANGED <<chainOwners, input, polls>>

\* getSafeInfo: there is code at the address, and it names its owners.
ReadSafe ==
  /\ checking # None /\ info = {}
  /\ info' = owners[checking] /\ info' # {}
  /\ UNCHANGED <<chainOwners, during, input, checking, safe, failed, portfolio, effect, polls, checks>>

\* /api/safe: what is not a Safe, and a node that fails, get the same answer.  A Safe that is
\* shown is polled at once.
CheckAnswered ==
  /\ checking # None /\ checking' = None
  /\ \/ /\ info # {}
        /\ safe' = checking /\ effect' = effect + 1
        /\ polls' = polls \cup {[run |-> effect', safe |-> checking]}
        /\ UNCHANGED <<info, during, failed>>
     \/ failed' = TRUE /\ info' = {} /\ during' = {} /\ UNCHANGED <<safe, effect, polls>>
  /\ UNCHANGED <<chainOwners, input, portfolio, checks>>

\* Every 12 seconds
Poll ==
  /\ safe # None
  /\ polls' = polls \cup {[run |-> effect, safe |-> safe]}
  /\ UNCHANGED <<chainOwners, info, during, input, checking, safe, failed, portfolio, effect, checks>>

\* Mutant: an answer is taken whether or not its effect is live.
PollAnsweredAlways ==
  /\ \E p \in polls : polls' = polls \ {p} /\ portfolio' = p.safe
  /\ UNCHANGED <<chainOwners, info, during, input, checking, safe, failed, effect, checks>>

\* /api/state?safe=...; an error leaves the page as it is.
PollAnswered ==
  /\ \E p \in polls :
       /\ polls' = polls \ {p}
       /\ portfolio' \in {portfolio, IF p.run = effect THEN p.safe ELSE portfolio}
  /\ UNCHANGED <<chainOwners, info, during, input, checking, safe, failed, effect, checks>>

Next ==
  \/ W!Next /\ UNCHANGED own
  \/ /\ \/ \E a \in Addresses : ChangeOwners(a)
        \/ Edit \/ Verify \/ ReadSafe \/ CheckAnswered \/ Poll \/ PollAnswered
     /\ UNCHANGED wallet

Spec == Init /\ [][Next]_vars

-----------------------------------------------------------------------------
\* What the proofs assume: the network the page asks for is one, owners are accounts, and
\* bounds are numbers.
PageAssumption ==
  /\ Sepolia \in Chains
  /\ \A a \in Addresses : OwnersOf(a) \subseteq Accounts /\ NewOwners(a) \subseteq SUBSET Accounts \ {{}}
  /\ {MaxChanges, MaxClicks, MaxSwaps, MaxChecks} \subseteq Nat

\* Types, and a page that never shows a Safe and a failure, or a Safe under check.
TypeOK ==
  /\ W!TypeOK
  /\ owners \in [Addresses -> SUBSET Accounts] /\ swaps \in 0..MaxSwaps
  /\ info \subseteq Accounts /\ during \subseteq SUBSET Accounts
  /\ {input, checking, safe, portfolio} \subseteq Addresses \cup {None}
  /\ failed \in BOOLEAN /\ effect \in 0..2 * MaxChecks /\ checks \in 0..MaxChecks
  /\ polls \subseteq [run : 1..effect, safe : Addresses]
  /\ safe # None => ~failed /\ checking = None

\* What is shown beside a Safe belongs to it: its portfolio, although polls for the one shown
\* before are still answered (the effect's `live`, page.tsx 37 to 46), and the owner badge:
\* once the page has heard all that the wallet sent, the wallet's account was an owner of the
\* Safe shown at some time during that Safe's check, although the account, the Safe typed and
\* the owners change meanwhile.  (Whether it still is, the page does not ask: it keeps what it
\* read, page.tsx 29 and 48.)
BelongsToShownSafe ==
  /\ portfolio # None => portfolio = safe
  /\ IsOwner /\ wire = << >> => \E o \in during : account \in o
=============================================================================
