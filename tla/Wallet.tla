------------------------------- MODULE Wallet -------------------------------
(***************************************************************************)
(* The control plane's wallet connection (lib/wallet.tsx, WalletButton).   *)
(* The page keeps what it last heard of the wallet's account and network:  *)
(* from answers to requests, which the wallet may give in any order and    *)
(* may refuse, and from events it pushes.  Answers and events reach the    *)
(* page in the order the wallet sends them (it has one message stream),    *)
(* but an answer tells the state of the moment it was given.               *)
(***************************************************************************)
EXTENDS Naturals, Sequences

CONSTANTS Accounts, Chains, Sepolia,
          None,        \* no account or network
          MaxChanges,  \* bound: changes made in the wallet
          MaxClicks    \* bound: clicks on the wallet button

VARIABLES
  hasProvider,  \* the browser has a wallet
  account,      \* the account the wallet exposes to the page, or None
  chain,        \* the wallet's network
  asked,        \* requests it has not answered
  wire,         \* its answers and events on their way to the page
  address, chainId, connecting, error,  \* the page's state
  changes, clicks

vars == <<hasProvider, account, chain, asked, wire, address, chainId, connecting, error,
          changes, clicks>>
wallet == <<hasProvider, account, chain, changes>>
page   == <<address, chainId, connecting, error>>

Msg(kind, value) == [kind |-> kind, value |-> value]

\* The provider's effect has run: two requests are out and both events subscribed to.
Init ==
  /\ hasProvider \in BOOLEAN
  /\ account \in Accounts \cup {None} /\ chain \in Chains
  /\ asked = IF hasProvider THEN {"accounts", "chain"} ELSE {}
  /\ wire = << >>
  /\ address = None /\ chainId = None /\ connecting = FALSE /\ error = FALSE
  /\ changes = 0 /\ clicks = 0

-----------------------------------------------------------------------------
\* The wallet
SwitchAccount ==
  /\ hasProvider /\ changes < MaxChanges /\ changes' = changes + 1
  /\ account' \in (Accounts \cup {None}) \ {account}
  /\ wire' = Append(wire, Msg("accountsChanged", account'))
  /\ UNCHANGED <<hasProvider, chain, asked, page, clicks>>

SwitchChain ==
  /\ hasProvider /\ changes < MaxChanges /\ changes' = changes + 1
  /\ chain' \in Chains \ {chain}
  /\ wire' = Append(wire, Msg("chainChanged", chain'))
  /\ UNCHANGED <<hasProvider, account, asked, page, clicks>>

Answer ==
  /\ \/ /\ "accounts" \in asked /\ asked' = asked \ {"accounts"}
        /\ wire' = Append(wire, Msg("accounts", account))
     \/ \E r \in {"chain", "connectChain"} \cap asked :
          asked' = asked \ {r} /\ wire' = Append(wire, Msg(r, chain))
  /\ UNCHANGED <<wallet, page, clicks>>

\* The user approves the connection or the other network, which may change either.
ApproveConnect ==
  /\ "connect" \in asked /\ asked' = asked \ {"connect"}
  /\ account' \in IF account = None THEN Accounts ELSE {account}
  /\ wire' = (IF account' = account THEN wire ELSE Append(wire, Msg("accountsChanged", account')))
               \o <<Msg("connect", account')>>
  /\ UNCHANGED <<hasProvider, chain, changes, page, clicks>>

ApproveSwitch ==
  /\ "switch" \in asked /\ asked' = asked \ {"switch"}
  /\ chain' = Sepolia
  /\ wire' = IF chain = Sepolia THEN wire ELSE Append(wire, Msg("chainChanged", Sepolia))
  /\ UNCHANGED <<hasProvider, account, changes, page, clicks>>

\* A refusal of one of the user's requests, or a failure.  (Nothing handles the failure of
\* a first question: it is a question never answered.)
Refuse ==
  /\ \E r \in {"connect", "connectChain", "switch"} \cap asked :
       asked' = asked \ {r} /\ wire' = Append(wire, Msg("refused", r))
  /\ UNCHANGED <<wallet, page, clicks>>

-----------------------------------------------------------------------------
\* The page
Take(kind) == wire # << >> /\ Head(wire).kind = kind /\ wire' = Tail(wire)

\* eth_accounts: an account that is already authorized, if there is one
OnAccounts ==
  /\ Take("accounts")
  /\ address' = IF Head(wire).value = None THEN address ELSE Head(wire).value
  /\ UNCHANGED <<wallet, asked, chainId, connecting, error, clicks>>

OnChain ==
  /\ Take("chain") \/ Take("chainChanged")
  /\ chainId' = Head(wire).value
  /\ UNCHANGED <<wallet, asked, address, connecting, error, clicks>>

\* Mutant: a wallet that locks itself is not noticed.
OnAccountsChangedIfAny ==
  /\ Take("accountsChanged")
  /\ address' = IF Head(wire).value = None THEN address ELSE Head(wire).value
  /\ UNCHANGED <<wallet, asked, chainId, connecting, error, clicks>>

OnAccountsChanged ==
  /\ Take("accountsChanged")
  /\ address' = Head(wire).value
  /\ UNCHANGED <<wallet, asked, chainId, connecting, error, clicks>>

\* connect(): eth_requestAccounts, then eth_chainId
Connect ==
  /\ address = None /\ ~connecting /\ clicks < MaxClicks /\ clicks' = clicks + 1
  /\ IF hasProvider
     THEN connecting' = TRUE /\ error' = FALSE /\ asked' = asked \cup {"connect"}
     ELSE error' = TRUE /\ UNCHANGED <<connecting, asked>>
  /\ UNCHANGED <<wallet, wire, address, chainId>>

OnConnect ==
  /\ Take("connect")
  /\ address' = Head(wire).value
  /\ asked' = asked \cup {"connectChain"}
  /\ UNCHANGED <<wallet, chainId, connecting, error, clicks>>

OnConnectChain ==
  /\ Take("connectChain")
  /\ chainId' = Head(wire).value /\ connecting' = FALSE
  /\ UNCHANGED <<wallet, asked, address, error, clicks>>

\* Mutant: a refused connection leaves the button waiting.
OnRefusedNoFinally ==
  /\ Take("refused") /\ error' = TRUE
  /\ UNCHANGED <<wallet, asked, address, chainId, connecting, clicks>>

OnRefused ==
  /\ Take("refused") /\ error' = TRUE
  /\ connecting' = (connecting /\ Head(wire).value = "switch")
  /\ UNCHANGED <<wallet, asked, address, chainId, clicks>>

Disconnect ==
  /\ address # None /\ chainId = Sepolia /\ clicks < MaxClicks /\ clicks' = clicks + 1
  /\ address' = None
  /\ UNCHANGED <<wallet, asked, wire, chainId, connecting, error>>

SwitchToSepolia ==
  /\ address # None /\ chainId # Sepolia /\ clicks < MaxClicks /\ clicks' = clicks + 1
  /\ asked' = asked \cup {"switch"}
  /\ UNCHANGED <<wallet, wire, page>>

-----------------------------------------------------------------------------
\* The one button offers to connect, to switch, or to disconnect.
Click == Connect \/ SwitchToSepolia \/ Disconnect

Next ==
  \/ SwitchAccount \/ SwitchChain \/ Answer \/ ApproveConnect \/ ApproveSwitch \/ Refuse
  \/ OnAccounts \/ OnChain \/ OnAccountsChanged \/ OnConnect \/ OnConnectChain \/ OnRefused
  \/ Click

Spec == Init /\ [][Next]_vars

-----------------------------------------------------------------------------
Requests == {"accounts", "chain", "connect", "connectChain", "switch"}

\* Types; without a provider nothing is ever connected.
TypeOK ==
  /\ account \in Accounts \cup {None} /\ chain \in Chains
  /\ asked \subseteq Requests
  /\ \A i \in 1..Len(wire) :
       wire[i].kind \in (Requests \ {"switch"}) \cup {"accountsChanged", "chainChanged", "refused"}
  /\ address \in Accounts \cup {None} /\ chainId \in Chains \cup {None}
  /\ {hasProvider, connecting, error} \subseteq BOOLEAN
  /\ ~hasProvider => address = None /\ asked = {} /\ wire = << >>

\* When nothing is on its way, the page shows the wallet's account and network or none at
\* all: no answer leaves an older value behind, whichever order requests are answered in and
\* whatever changes in between (the handlers of wallet.tsx, 43 to 70).  Once its first
\* questions are answered it does know the network, and, untouched by the user, the account.
AtRestShowsTheWallet ==
  wire = << >> =>
    /\ address \in {None, account} /\ chainId \in {None, chain}
    /\ hasProvider /\ "chain" \notin asked => chainId = chain
    /\ hasProvider /\ "accounts" \notin asked /\ clicks = 0 => address = account

\* The connect button is disabled only while an answer is on its way or still to come.
NeverStuckConnecting ==
  connecting => \/ {"connect", "connectChain"} \cap asked # {}
                \/ \E i \in 1..Len(wire) :
                     \/ wire[i].kind \in {"connect", "connectChain"}
                     \/ wire[i].kind = "refused" /\ wire[i].value # "switch"
=============================================================================
