------------------------- MODULE ControlPlaneProofs -------------------------
(***************************************************************************)
(* What is proved of the control plane's pages: the onboarding page with   *)
(* the wallet connection it is composed with, the inspector, and the live  *)
(* pages.  They share no state, so each has a section of its own.          *)
(*                                                                         *)
(* Wallet: what is on the wire decides.  The last message about the        *)
(* account (or the network) tells its present value, and if there is none  *)
(* on the way the page has it already (KnowsAccount, KnowsChain).          *)
(* Onboarding: an unanswered poll of the running effect is for the Safe    *)
(* that is shown.  Inspector: the page is busy exactly with the one        *)
(* request that is out.  Live pages: a poll's lists are those of the       *)
(* counts it read, whatever became of the chain since.                     *)
(***************************************************************************)
EXTENDS TreasuryLoopProofs, VerificationProofs, SequenceTheorems, TLAPS

-----------------------------------------------------------------------------
\* The wallet's messages.  Those of SetsAccount make the page forget the account it knew.
AboutAccount == [kind : {"accounts", "accountsChanged", "connect"}, value : Accounts \cup {None}]
SetsAccount  == {m \in AboutAccount : m.kind = "accounts" => m.value # None}
AboutChain   == [kind : {"chain", "chainChanged", "connectChain"}, value : Chains]
Refusals     == [kind : {"refused"}, value : Onboarding!W!Requests]
Messages     == AboutAccount \cup AboutChain \cup Refusals

\* Those that end a connection attempt, or take it further
Concluding == {m \in Messages : \/ m.kind \in {"connect", "connectChain"}
                                \/ m.kind = "refused" /\ m.value # "switch"}

NoneIn(w, M) == \A i \in 1..Len(w) : w[i] \notin M
\* What is told last, and not overridden by a message of D, is v.
Tells(w, A, D, v) ==
  \A i \in 1..Len(w) : w[i] \in A /\ (\A j \in (i + 1)..Len(w) : w[j] \notin D) => w[i].value = v

\* A message sent
LEMMA Sent ==
  ASSUME NEW w \in Seq(Messages), NEW m \in Messages, NEW A, NEW D, NEW v
  PROVE  /\ Append(w, m) \in Seq(Messages)
         /\ NoneIn(Append(w, m), D) <=> NoneIn(w, D) /\ m \notin D
         /\ m \in D /\ m.value = v => Tells(Append(w, m), A, D, v)
         /\ Tells(w, A, D, v) /\ (m \in A => m.value = v) => Tells(Append(w, m), A, D, v)
<1> DEFINE n == Len(w)
           u == Append(w, m)
<1>1. /\ u \in Seq(Messages) /\ Len(u) = n + 1 /\ n \in Nat /\ u[n + 1] = m
      /\ \A i \in 1..n : u[i] = w[i]
  BY AppendProperties, LenProperties
<1> HIDE DEF u
<1>2. NoneIn(u, D) <=> NoneIn(w, D) /\ m \notin D
  BY <1>1 DEF NoneIn
<1>3. ASSUME NEW i \in 1..Len(u), u[i] \in A, \A j \in (i + 1)..Len(u) : u[j] \notin D,
             m \in D /\ m.value = v
      PROVE  u[i].value = v
  BY <1>1, <1>3
<1>4. ASSUME Tells(w, A, D, v), m \in A => m.value = v,
             NEW i \in 1..Len(u), u[i] \in A, \A j \in (i + 1)..Len(u) : u[j] \notin D
      PROVE  u[i].value = v
  <2>1. CASE i = n + 1
    BY <1>1, <1>4, <2>1
  <2>2. CASE i \in 1..n
    <3>1. \A j \in (i + 1)..n : w[j] \notin D
      BY <1>1, <1>4, <2>2
    <3> QED
      BY <1>1, <1>4, <2>2, <3>1 DEF Tells
  <2> QED
    BY <1>1, <2>1, <2>2
<1> QED
  BY <1>1, <1>2, <1>3, <1>4 DEF u, Tells

\* A message taken from the wire
LEMMA Received ==
  ASSUME NEW w \in Seq(Messages), w # << >>, NEW A, NEW D, NEW v
  PROVE  /\ Head(w) \in Messages /\ Tail(w) \in Seq(Messages)
         /\ NoneIn(w, D) <=> Head(w) \notin D /\ NoneIn(Tail(w), D)
         /\ Tells(w, A, D, v) => Tells(Tail(w), A, D, v)
         /\ Tells(w, A, D, v) /\ Head(w) \in A /\ NoneIn(Tail(w), D) => Head(w).value = v
<1> DEFINE n == Len(w)
           t == Tail(w)
<1>1. /\ t \in Seq(Messages) /\ Len(t) = n - 1 /\ n \in Nat \ {0} /\ Head(w) = w[1]
      /\ Head(w) \in Messages
      /\ \A i \in 1..n - 1 : t[i] = w[i + 1]
  BY HeadTailProperties, LenProperties, EmptySeq
<1> HIDE DEF t
<1>2. NoneIn(w, D) <=> Head(w) \notin D /\ NoneIn(t, D)
  <2>1. ASSUME NoneIn(w, D)
        PROVE  Head(w) \notin D /\ NoneIn(t, D)
    BY <1>1, <2>1 DEF NoneIn
  <2>2. ASSUME Head(w) \notin D, NoneIn(t, D), NEW i \in 1..n
        PROVE  w[i] \notin D
    <3>1. CASE i = 1
      BY <1>1, <2>2, <3>1
    <3>2. CASE i # 1
      <4>1. i - 1 \in 1..n - 1 /\ t[i - 1] = w[i]
        BY <1>1, <3>2
      <4> QED
        BY <1>1, <2>2, <4>1 DEF NoneIn
    <3> QED
      BY <3>1, <3>2
  <2> QED
    BY <2>1, <2>2 DEF NoneIn
<1>3. ASSUME Tells(w, A, D, v), NEW i \in 1..Len(t), t[i] \in A, \A j \in (i + 1)..Len(t) : t[j] \notin D
      PROVE  t[i].value = v
  <2>1. i + 1 \in 1..n /\ t[i] = w[i + 1]
    BY <1>1
  <2>2. ASSUME NEW j \in (i + 2)..n
        PROVE  w[j] \notin D
    <3>1. j - 1 \in (i + 1)..Len(t) /\ t[j - 1] = w[j]
      BY <1>1
    <3> QED
      BY <1>3, <3>1
  <2> QED
    BY <1>3, <2>1, <2>2 DEF Tells
<1>4. ASSUME Tells(w, A, D, v), Head(w) \in A, NoneIn(t, D)
      PROVE  Head(w).value = v
  <2>1. ASSUME NEW j \in 2..n
        PROVE  w[j] \notin D
    <3>1. j - 1 \in 1..Len(t) /\ t[j - 1] = w[j]
      BY <1>1
    <3> QED
      BY <1>4, <3>1 DEF NoneIn
  <2> QED
    BY <1>1, <1>4, <2>1 DEF Tells
<1> QED
  BY <1>1, <1>2, <1>3, <1>4 DEF t, Tells

-----------------------------------------------------------------------------
WalletTyped ==
  /\ account \in Accounts \cup {None} /\ network \in Chains /\ asked \subseteq Onboarding!W!Requests
  /\ wire \in Seq(Messages)
  /\ address \in Accounts \cup {None} /\ chainId \in Chains \cup {None}
  /\ hasProvider \in BOOLEAN /\ connecting \in BOOLEAN /\ error \in BOOLEAN /\ clicks \in Nat
  /\ ~hasProvider => address = None /\ asked = {} /\ wire = << >>

\* The page shows the wallet's account, or none, once it has heard what is on its way.
KnowsAccount ==
  /\ Tells(wire, AboutAccount, SetsAccount, account)
  /\ NoneIn(wire, SetsAccount) => address \in {None, account}
  /\ hasProvider /\ "accounts" \notin asked /\ clicks = 0 /\ NoneIn(wire, AboutAccount) => address = account

KnowsChain ==
  /\ Tells(wire, AboutChain, AboutChain, network)
  /\ NoneIn(wire, AboutChain) => chainId \in {None, network}
  /\ hasProvider /\ "chain" \notin asked /\ NoneIn(wire, AboutChain) => chainId = network

Waits == connecting => {"connect", "connectChain"} \cap asked # {} \/ ~NoneIn(wire, Concluding)

WalletInv == WalletTyped /\ KnowsAccount /\ KnowsChain /\ Waits

\* The kinds of message are told apart.
LEMMA Kinds ==
  /\ \A a \in Accounts \cup {None} :
       /\ Onboarding!W!Msg("accounts", a) \in AboutAccount /\ Onboarding!W!Msg("accounts", a).value = a
       /\ Onboarding!W!Msg("accounts", a) \notin Concluding
       /\ Onboarding!W!Msg("accountsChanged", a) \in SetsAccount /\ Onboarding!W!Msg("accountsChanged", a).value = a
       /\ Onboarding!W!Msg("connect", a) \in SetsAccount /\ Onboarding!W!Msg("connect", a).value = a
       /\ Onboarding!W!Msg("connect", a) \in Concluding
  /\ \A c \in Chains : \A k \in {"chain", "chainChanged", "connectChain"} :
       Onboarding!W!Msg(k, c) \in AboutChain /\ Onboarding!W!Msg(k, c).value = c
  /\ \A c \in Chains : Onboarding!W!Msg("connectChain", c) \in Concluding
  /\ \A r \in {"connect", "connectChain", "switch"} :
       Onboarding!W!Msg("refused", r) \in Refusals /\ (r # "switch" => Onboarding!W!Msg("refused", r) \in Concluding)
  /\ SetsAccount \subseteq AboutAccount
  /\ \A m \in AboutAccount : m \notin AboutChain /\ m \notin Refusals
  /\ \A m \in AboutChain : m \notin AboutAccount /\ m \notin SetsAccount /\ m \notin Refusals
  /\ \A m \in Refusals : m \notin AboutAccount /\ m \notin SetsAccount /\ m \notin AboutChain
BY DEF Onboarding!W!Msg, AboutAccount, SetsAccount, AboutChain, Refusals, Messages, Concluding,
   Onboarding!W!Requests

LEMMA WalletInit ==
  ASSUME Onboarding!W!Init
  PROVE  WalletInv
<1>1. WalletTyped
  <2>1. wire \in Seq(Messages) /\ asked \subseteq Onboarding!W!Requests
    BY EmptySeq DEF Onboarding!W!Init, Onboarding!W!Requests
  <2> QED
    BY <2>1 DEF Onboarding!W!Init, WalletTyped
<1>2. Len(wire) = 0
  BY DEF Onboarding!W!Init
<1>3. \A A, D, v : Tells(wire, A, D, v)
  BY <1>2 DEF Tells
<1>4. KnowsAccount
  BY <1>3 DEF Onboarding!W!Init, KnowsAccount
<1>5. KnowsChain
  BY <1>3 DEF Onboarding!W!Init, KnowsChain
<1>6. Waits
  BY DEF Onboarding!W!Init, Waits
<1> QED
  BY <1>1, <1>4, <1>5, <1>6 DEF WalletInv

\* The wallet says what has become of it.
LEMMA WalletSays ==
  ASSUME WalletInv, hasProvider, UNCHANGED <<hasProvider, address, chainId, connecting, error, clicks>>,
         NEW m \in Messages, wire' = Append(wire, m),
         account' \in Accounts \cup {None}, account' = account \/ m \in SetsAccount,
         m \in AboutAccount => m.value = account',
         network' \in Chains, network' = network \/ m \in AboutChain,
         m \in AboutChain => m.value = network',
         asked' \subseteq asked,
         "accounts" \in asked => "accounts" \in asked' \/ m \in AboutAccount,
         "chain" \in asked => "chain" \in asked' \/ m \in AboutChain,
         \A r \in {"connect", "connectChain"} : r \in asked => r \in asked' \/ m \in Concluding
  PROVE  WalletInv'
<1>1. wire \in Seq(Messages) /\ SetsAccount \subseteq AboutAccount
  BY Kinds DEF WalletInv, WalletTyped
<1>2. wire' \in Seq(Messages)
  BY <1>1, Sent
<1>3. WalletTyped'
  BY <1>2 DEF WalletInv, WalletTyped
<1>4. KnowsAccount'
  <2>1. Tells(wire', AboutAccount, SetsAccount, account')
    BY <1>1, Sent DEF WalletInv, KnowsAccount
  <2>2. /\ NoneIn(wire', SetsAccount) <=> NoneIn(wire, SetsAccount) /\ m \notin SetsAccount
        /\ NoneIn(wire', AboutAccount) <=> NoneIn(wire, AboutAccount) /\ m \notin AboutAccount
    BY <1>1, Sent
  <2> QED
    BY <1>1, <2>1, <2>2 DEF WalletInv, KnowsAccount
<1>5. KnowsChain'
  <2>1. Tells(wire', AboutChain, AboutChain, network')
    BY <1>1, Sent DEF WalletInv, KnowsChain
  <2>2. NoneIn(wire', AboutChain) <=> NoneIn(wire, AboutChain) /\ m \notin AboutChain
    BY <1>1, Sent
  <2> QED
    BY <2>1, <2>2 DEF WalletInv, KnowsChain
<1>6. Waits'
  <2>1. NoneIn(wire', Concluding) <=> NoneIn(wire, Concluding) /\ m \notin Concluding
    BY <1>1, Sent
  <2> QED
    BY <2>1 DEF WalletInv, Waits
<1> QED
  BY <1>3, <1>4, <1>5, <1>6 DEF WalletInv

\* What the wallet does by itself, and its answers but to a request to connect
LEMMA WalletMoves ==
  ASSUME WalletInv, Onboarding!PageAssumption,
         Onboarding!W!SwitchAccount \/ Onboarding!W!SwitchChain \/ Onboarding!W!Answer
         \/ Onboarding!W!Refuse \/ Onboarding!W!ApproveSwitch
  PROVE  WalletInv'
<1>1. UNCHANGED <<hasProvider, address, chainId, connecting, error, clicks>>
  BY DEF Onboarding!W!SwitchAccount, Onboarding!W!SwitchChain, Onboarding!W!Answer,
     Onboarding!W!ApproveSwitch, Onboarding!W!Refuse, Onboarding!W!page, Onboarding!W!wallet
<1>2. /\ wire \in Seq(Messages) /\ account \in Accounts \cup {None} /\ network \in Chains
      /\ asked \subseteq Onboarding!W!Requests
  BY DEF WalletInv, WalletTyped
<1>3. hasProvider
  BY DEF Onboarding!W!SwitchAccount, Onboarding!W!SwitchChain, Onboarding!W!Answer,
     Onboarding!W!ApproveSwitch, Onboarding!W!Refuse, WalletInv, WalletTyped
<1>4. CASE Onboarding!W!SwitchAccount
  <2>1. /\ account' \in Accounts \cup {None} /\ UNCHANGED <<network, asked>>
        /\ wire' = Append(wire, Onboarding!W!Msg("accountsChanged", account'))
    BY <1>2, <1>4 DEF Onboarding!W!SwitchAccount
  <2> DEFINE m == Onboarding!W!Msg("accountsChanged", account')
  <2>2. m \in SetsAccount /\ m.value = account' /\ m \notin AboutChain /\ m \in Messages
    BY <2>1, Kinds DEF Messages
  <2> HIDE DEF m
  <2> QED
    BY <1>1, <1>2, <1>3, <2>1, <2>2, WalletSays DEF m
<1>5. CASE Onboarding!W!SwitchChain
  <2>1. /\ network' \in Chains /\ UNCHANGED <<account, asked>>
        /\ wire' = Append(wire, Onboarding!W!Msg("chainChanged", network'))
    BY <1>5 DEF Onboarding!W!SwitchChain
  <2> DEFINE m == Onboarding!W!Msg("chainChanged", network')
  <2>2. m \in AboutChain /\ m.value = network' /\ m \notin AboutAccount /\ m \in Messages
    BY <2>1, Kinds DEF Messages
  <2> HIDE DEF m
  <2> QED
    BY <1>1, <1>2, <1>3, <2>1, <2>2, WalletSays DEF m
<1>6. CASE Onboarding!W!Answer
  <2>1. UNCHANGED <<account, network>>
    BY <1>6 DEF Onboarding!W!Answer, Onboarding!W!wallet
  <2>2. CASE asked' = asked \ {"accounts"} /\ wire' = Append(wire, Onboarding!W!Msg("accounts", account))
    <3> DEFINE m == Onboarding!W!Msg("accounts", account)
    <3>1. m \in AboutAccount /\ m.value = account /\ m \notin AboutChain /\ m \in Messages
      BY <1>2, Kinds DEF Messages
    <3> HIDE DEF m
    <3> QED
      BY <1>1, <1>2, <1>3, <2>1, <2>2, <3>1, WalletSays DEF m
  <2>3. ASSUME NEW q \in {"chain", "connectChain"}, asked' = asked \ {q},
               wire' = Append(wire, Onboarding!W!Msg(q, network))
        PROVE  WalletInv'
    <3> DEFINE m == Onboarding!W!Msg(q, network)
    <3>1. /\ m \in AboutChain /\ m.value = network /\ m \notin AboutAccount /\ m \in Messages
          /\ q = "connectChain" => m \in Concluding
      BY <1>2, Kinds DEF Messages
    <3> HIDE DEF m
    <3>2. wire' = Append(wire, m)
      BY <2>3 DEF m
    <3> QED
      BY <1>1, <1>2, <1>3, <2>1, <2>3, <3>1, <3>2, WalletSays
  <2> QED
    BY <1>6, <2>2, <2>3 DEF Onboarding!W!Answer
<1>7. CASE Onboarding!W!Refuse
  <2>1. PICK q \in {"connect", "connectChain", "switch"} :
          q \in asked /\ asked' = asked \ {q} /\ wire' = Append(wire, Onboarding!W!Msg("refused", q))
    BY <1>7 DEF Onboarding!W!Refuse
  <2>2. UNCHANGED <<account, network>>
    BY <1>7 DEF Onboarding!W!Refuse, Onboarding!W!wallet
  <2> DEFINE m == Onboarding!W!Msg("refused", q)
  <2>3. /\ m \in Messages /\ m \notin AboutAccount /\ m \notin AboutChain
        /\ q # "switch" => m \in Concluding
    BY Kinds DEF Messages
  <2> HIDE DEF m
  <2>4. wire' = Append(wire, m)
    BY <2>1 DEF m
  <2> QED
    BY <1>1, <1>2, <1>3, <2>1, <2>2, <2>3, <2>4, WalletSays
<1>8. CASE Onboarding!W!ApproveSwitch
  <2>1. /\ network' = Sepolia /\ Sepolia \in Chains /\ asked' = asked \ {"switch"} /\ UNCHANGED account
    BY <1>8 DEF Onboarding!W!ApproveSwitch, Onboarding!PageAssumption
  <2>2. CASE network = Sepolia
    <3>1. wire' = wire
      BY <1>8, <2>2 DEF Onboarding!W!ApproveSwitch
    <3> QED
      BY <1>1, <1>2, <2>1, <2>2, <3>1
         DEF WalletInv, WalletTyped, KnowsAccount, KnowsChain, Waits
  <2>3. CASE network # Sepolia
    <3> DEFINE m == Onboarding!W!Msg("chainChanged", Sepolia)
    <3>1. m \in AboutChain /\ m.value = Sepolia /\ m \notin AboutAccount /\ m \in Messages
      BY <2>1, Kinds DEF Messages
    <3>2. wire' = Append(wire, m)
      BY <1>8, <2>3 DEF Onboarding!W!ApproveSwitch
    <3> HIDE DEF m
    <3> QED
      BY <1>1, <1>2, <1>3, <2>1, <3>1, <3>2, WalletSays
  <2> QED
    BY <2>2, <2>3
<1> QED
  BY <1>4, <1>5, <1>6, <1>7, <1>8

\* The user approves: the wallet may tell of the account twice, both times the same.
LEMMA WalletConnects ==
  ASSUME WalletInv, Onboarding!W!ApproveConnect
  PROVE  WalletInv'
<1>1. /\ UNCHANGED <<hasProvider, address, chainId, connecting, error, clicks, network>>
      /\ asked' = asked \ {"connect"} /\ "connect" \in asked
  BY DEF Onboarding!W!ApproveConnect, Onboarding!W!page
<1>2. /\ wire \in Seq(Messages) /\ account \in Accounts \cup {None} /\ network \in Chains
      /\ asked \subseteq Onboarding!W!Requests /\ hasProvider
  BY <1>1 DEF WalletInv, WalletTyped
<1>3. account' \in Accounts \cup {None}
  BY <1>2 DEF Onboarding!W!ApproveConnect
<1> DEFINE c == Onboarding!W!Msg("accountsChanged", account')
           m == Onboarding!W!Msg("connect", account')
           u == IF account' = account THEN wire ELSE Append(wire, c)
<1>4. /\ c \in Messages /\ c \notin AboutChain
      /\ m \in Messages /\ m \notin AboutChain /\ m \in SetsAccount /\ m \in AboutAccount
      /\ m.value = account' /\ m \in Concluding
  BY <1>3, Kinds DEF Messages
<1>5. wire' = u \o <<m>>
  BY DEF Onboarding!W!ApproveConnect
<1> HIDE DEF m, c
<1>6. u \in Seq(Messages)
  BY <1>2, <1>4, Sent
<1>7. Tells(u, AboutChain, AboutChain, network) /\ (NoneIn(u, AboutChain) <=> NoneIn(wire, AboutChain))
  BY <1>2, <1>4, Sent DEF WalletInv, KnowsChain
<1> HIDE DEF u
<1>8. wire' = Append(u, m)
  BY <1>4, <1>5, <1>6, AppendIsConcat
<1>9. /\ wire' \in Seq(Messages)
      /\ Tells(wire', AboutAccount, SetsAccount, account')
      /\ Tells(wire', AboutChain, AboutChain, network)
      /\ NoneIn(wire', AboutChain) <=> NoneIn(wire, AboutChain)
      /\ ~NoneIn(wire', SetsAccount) /\ ~NoneIn(wire', AboutAccount) /\ ~NoneIn(wire', Concluding)
  BY <1>4, <1>6, <1>7, <1>8, Sent
<1> QED
  BY <1>1, <1>2, <1>3, <1>9 DEF WalletInv, WalletTyped, KnowsAccount, KnowsChain, Waits

\* The page takes the next message: what it tells of account and network is true if nothing
\* that follows it tells of them.
LEMMA TakesFromTheWire ==
  ASSUME WalletInv, wire # << >>, wire' = Tail(wire), UNCHANGED <<account, network>>
  PROVE  /\ Head(wire) \in Messages /\ wire' \in Seq(Messages)
         /\ Tells(wire', AboutAccount, SetsAccount, account')
         /\ Tells(wire', AboutChain, AboutChain, network')
         /\ Head(wire) \in AboutAccount /\ NoneIn(wire', SetsAccount) => Head(wire).value = account
         /\ Head(wire) \in AboutChain /\ NoneIn(wire', AboutChain) => Head(wire).value = network
         /\ \A M \in {SetsAccount, AboutAccount, AboutChain, Concluding} :
              NoneIn(wire, M) <=> Head(wire) \notin M /\ NoneIn(wire', M)
         /\ NoneIn(wire', AboutAccount) => NoneIn(wire', SetsAccount)
         /\ hasProvider
<1>1. /\ wire \in Seq(Messages) /\ hasProvider
      /\ Tells(wire, AboutAccount, SetsAccount, account)
      /\ Tells(wire, AboutChain, AboutChain, network)
  BY DEF WalletInv, WalletTyped, KnowsAccount, KnowsChain
<1>2. \A M : NoneIn(wire, M) <=> Head(wire) \notin M /\ NoneIn(wire', M)
  BY <1>1, Received
<1>3. NoneIn(wire', AboutAccount) => NoneIn(wire', SetsAccount)
  BY Kinds DEF NoneIn
<1> QED
  BY <1>1, <1>2, <1>3, Received

\* The page's handlers of messages about the account
LEMMA HearsOfAccount ==
  ASSUME WalletInv, Onboarding!W!OnAccounts \/ Onboarding!W!OnAccountsChanged \/ Onboarding!W!OnConnect
  PROVE  WalletInv'
<1> DEFINE m == Head(wire)
<1>1. /\ wire # << >> /\ wire' = Tail(wire) /\ UNCHANGED <<hasProvider, account, network, clicks>>
      /\ UNCHANGED <<chainId, connecting, error>>
      /\ m.kind \in {"accounts", "accountsChanged", "connect"}
      /\ address' = IF m.kind = "accounts" /\ m.value = None THEN address ELSE m.value
      /\ asked' = IF m.kind = "connect" THEN asked \cup {"connectChain"} ELSE asked
  BY DEF Onboarding!W!OnAccounts, Onboarding!W!OnAccountsChanged, Onboarding!W!OnConnect,
     Onboarding!W!Take, Onboarding!W!wallet
<1>2. m \in Messages
  BY <1>1, TakesFromTheWire
<1>3. m \in AboutAccount /\ m.value \in Accounts \cup {None} /\ m \notin AboutChain
      /\ (m \in SetsAccount <=> ~(m.kind = "accounts" /\ m.value = None))
      /\ (m \in Concluding => m.kind = "connect")
  BY <1>1, <1>2 DEF Messages, AboutAccount, SetsAccount, AboutChain, Refusals, Concluding
<1>4. /\ wire' \in Seq(Messages) /\ hasProvider
      /\ Tells(wire', AboutAccount, SetsAccount, account')
      /\ Tells(wire', AboutChain, AboutChain, network')
      /\ NoneIn(wire', SetsAccount) => m.value = account
      /\ NoneIn(wire, SetsAccount) <=> m \notin SetsAccount /\ NoneIn(wire', SetsAccount)
      /\ NoneIn(wire, AboutChain) <=> NoneIn(wire', AboutChain)
      /\ NoneIn(wire, Concluding) <=> m \notin Concluding /\ NoneIn(wire', Concluding)
      /\ NoneIn(wire', AboutAccount) => NoneIn(wire', SetsAccount)
  BY <1>1, <1>3, TakesFromTheWire
<1> HIDE DEF m
<1>5. WalletTyped'
  BY <1>1, <1>3, <1>4 DEF WalletInv, WalletTyped, Onboarding!W!Requests
<1>6. KnowsAccount'
  BY <1>1, <1>3, <1>4 DEF WalletInv, KnowsAccount
<1>7. KnowsChain'
  BY <1>1, <1>4 DEF WalletInv, KnowsChain
<1>8. Waits'
  BY <1>1, <1>3, <1>4 DEF WalletInv, Waits
<1> QED
  BY <1>5, <1>6, <1>7, <1>8 DEF WalletInv

\* Its handlers of messages about the network, and of refusals
LEMMA HearsOfChain ==
  ASSUME WalletInv, Onboarding!W!OnChain \/ Onboarding!W!OnConnectChain \/ Onboarding!W!OnRefused
  PROVE  WalletInv'
<1> DEFINE m == Head(wire)
<1>1. /\ wire # << >> /\ wire' = Tail(wire)
      /\ UNCHANGED <<hasProvider, account, network, clicks, asked, address>>
      /\ m.kind \in {"chain", "chainChanged", "connectChain", "refused"}
      /\ chainId' = IF m.kind = "refused" THEN chainId ELSE m.value
      /\ connecting' = CASE m.kind = "connectChain" -> FALSE
                         [] m.kind = "refused"      -> connecting /\ m.value = "switch"
                         [] OTHER                   -> connecting
      /\ error' = (m.kind = "refused" \/ error)
  BY DEF Onboarding!W!OnChain, Onboarding!W!OnConnectChain, Onboarding!W!OnRefused, Onboarding!W!Take,
     Onboarding!W!wallet, WalletInv, WalletTyped
<1>2. m \in Messages
  BY <1>1, TakesFromTheWire
<1>3. /\ m \notin AboutAccount /\ m \notin SetsAccount
      /\ (m \in AboutChain <=> m.kind # "refused")
      /\ m \in AboutChain => m.value \in Chains
      /\ m \in Concluding => m.kind = "connectChain" \/ (m.kind = "refused" /\ m.value # "switch")
  BY <1>1, <1>2 DEF Messages, AboutAccount, SetsAccount, AboutChain, Refusals, Concluding
<1>4. /\ wire' \in Seq(Messages) /\ hasProvider
      /\ Tells(wire', AboutAccount, SetsAccount, account')
      /\ Tells(wire', AboutChain, AboutChain, network')
      /\ m \in AboutChain /\ NoneIn(wire', AboutChain) => m.value = network
      /\ NoneIn(wire, SetsAccount) <=> NoneIn(wire', SetsAccount)
      /\ NoneIn(wire, AboutAccount) <=> NoneIn(wire', AboutAccount)
      /\ NoneIn(wire, AboutChain) <=> m \notin AboutChain /\ NoneIn(wire', AboutChain)
      /\ NoneIn(wire, Concluding) <=> m \notin Concluding /\ NoneIn(wire', Concluding)
  BY <1>1, <1>3, TakesFromTheWire
<1> HIDE DEF m
<1>5. WalletTyped'
  BY <1>1, <1>3, <1>4 DEF WalletInv, WalletTyped
<1>6. KnowsAccount'
  BY <1>1, <1>4 DEF WalletInv, KnowsAccount
<1>7. KnowsChain'
  BY <1>1, <1>3, <1>4 DEF WalletInv, KnowsChain
<1>8. Waits'
  BY <1>1, <1>3, <1>4 DEF WalletInv, Waits
<1> QED
  BY <1>5, <1>6, <1>7, <1>8 DEF WalletInv

\* The user clicks: nothing is sent, and nothing shown that was not.
LEMMA Clicked ==
  ASSUME WalletInv, Onboarding!W!Click
  PROVE  WalletInv'
<1>1. /\ UNCHANGED <<hasProvider, account, network, wire, chainId>>
      /\ address' \in {None, address} /\ clicks \in Nat /\ clicks' = clicks + 1
      /\ \E q \in {{}, {"connect"}, {"switch"}} :
           /\ asked' = asked \cup q /\ (q # {} => hasProvider)
           /\ connecting' = (connecting \/ q = {"connect"})
      /\ connecting' \in BOOLEAN /\ error' \in BOOLEAN
  BY DEF Onboarding!W!Click, Onboarding!W!Connect, Onboarding!W!SwitchToSepolia, Onboarding!W!Disconnect,
     Onboarding!W!wallet, Onboarding!W!page, WalletInv, WalletTyped
<1>2. WalletTyped'
  <2>1. asked' \subseteq Onboarding!W!Requests
    <3>1. asked \subseteq Onboarding!W!Requests /\ {"connect", "switch"} \subseteq Onboarding!W!Requests
      BY DEF WalletInv, WalletTyped, Onboarding!W!Requests
    <3> QED
      BY <1>1, <3>1
  <2>2. ~hasProvider => address' = None /\ asked' = {} /\ wire' = << >>
    BY <1>1 DEF WalletInv, WalletTyped
  <2> QED
    BY <1>1, <2>1, <2>2 DEF WalletInv, WalletTyped
<1>3. KnowsAccount'
  BY <1>1 DEF WalletInv, KnowsAccount
<1>4. KnowsChain'
  BY <1>1 DEF WalletInv, KnowsChain
<1>5. Waits'
  BY <1>1 DEF WalletInv, Waits
<1> QED
  BY <1>2, <1>3, <1>4, <1>5 DEF WalletInv

LEMMA WalletStep ==
  ASSUME WalletInv, Onboarding!PageAssumption, Onboarding!W!Next
  PROVE  WalletInv'
BY WalletMoves, WalletConnects, HearsOfAccount, HearsOfChain, Clicked DEF Onboarding!W!Next

\* What the invariant says of the wallet's own properties
LEMMA WalletSafe ==
  ASSUME WalletInv
  PROVE  Onboarding!W!TypeOK /\ Onboarding!W!AtRestShowsTheWallet /\ Onboarding!W!NeverStuckConnecting
<1>1. Onboarding!W!TypeOK
  <2>1. ASSUME NEW i \in 1..Len(wire)
        PROVE  wire[i].kind \in (Onboarding!W!Requests \ {"switch"}) \cup {"accountsChanged", "chainChanged", "refused"}
    <3>1. wire[i] \in Messages
      BY ElementOfSeq DEF WalletInv, WalletTyped
    <3> QED
      BY <3>1 DEF Messages, AboutAccount, AboutChain, Refusals, Onboarding!W!Requests
  <2> QED
    BY <2>1 DEF WalletInv, WalletTyped, Onboarding!W!TypeOK
<1>2. Onboarding!W!AtRestShowsTheWallet
  <2>1. ASSUME wire = << >>
        PROVE  \A M : NoneIn(wire, M)
    BY <2>1 DEF NoneIn
  <2> QED
    BY <2>1 DEF WalletInv, KnowsAccount, KnowsChain, Onboarding!W!AtRestShowsTheWallet
<1>3. Onboarding!W!NeverStuckConnecting
  BY DEF WalletInv, Waits, NoneIn, Concluding, Onboarding!W!NeverStuckConnecting
<1> QED
  BY <1>1, <1>2, <1>3

-----------------------------------------------------------------------------
\* The page itself: only the polls of the running effect are for the Safe that is shown, each
\* check starts two effects at most, and a portfolio is never shown while one is under way.
PageTyped ==
  /\ {input, checking, shownSafe, portfolio} \subseteq Addresses \cup {None} /\ failed \in BOOLEAN
  /\ effect \in Nat /\ checks \in 0..MaxChecks
  /\ polls \subseteq [run : 1..effect, safe : Addresses]

PageInv ==
  /\ PageTyped
  /\ shownSafe # None => ~failed /\ checking = None /\ effect > 0
  /\ checking # None => ~failed
  /\ portfolio # None => portfolio = shownSafe
  /\ \A p \in polls : p.run = effect => p.safe = shownSafe
  /\ effect <= 2 * checks /\ (checking # None => effect < 2 * checks)

\* What a check has read was so while it was under way, whoever changes the owners meanwhile.
OwnersInv ==
  /\ owners \in [Addresses -> SUBSET Accounts] /\ swaps \in 0..MaxSwaps
  /\ info \subseteq Accounts /\ during \subseteq SUBSET Accounts
  /\ checking # None => owners[checking] \in during
  /\ info # {} => info \in during

PageNext ==
  \/ \E a \in Addresses : Onboarding!ChangeOwners(a)
  \/ Onboarding!Edit \/ Onboarding!Verify \/ Onboarding!ReadSafe \/ Onboarding!CheckAnswered
  \/ Onboarding!Poll \/ Onboarding!PollAnswered

LEMMA OwnersStep ==
  ASSUME PageInv, OwnersInv, Onboarding!PageAssumption, PageNext
  PROVE  OwnersInv'
<1>1. /\ owners \in [Addresses -> SUBSET Accounts] /\ swaps \in 0..MaxSwaps /\ MaxSwaps \in Nat
      /\ info \subseteq Accounts /\ during \subseteq SUBSET Accounts
      /\ checking # None => owners[checking] \in during
      /\ info # {} => info \in during
      /\ {input, checking} \subseteq Addresses \cup {None}
  BY DEF OwnersInv, PageInv, PageTyped, Onboarding!PageAssumption
<1>2. CASE \E a \in Addresses : Onboarding!ChangeOwners(a)
  <2>0. PICK a \in Addresses : Onboarding!ChangeOwners(a)
    BY <1>2
  <2>1. PICK s \in NewOwners(a) :
          /\ owners' = [owners EXCEPT ![a] = s]
          /\ during' = IF checking = a THEN during \cup {s} ELSE during
          /\ swaps < MaxSwaps /\ swaps' = swaps + 1 /\ UNCHANGED <<checking, info>>
    BY <2>0 DEF Onboarding!ChangeOwners
  <2>2. s \subseteq Accounts
    BY DEF Onboarding!PageAssumption
  <2>3. owners' \in [Addresses -> SUBSET Accounts] /\ during' \subseteq SUBSET Accounts
    BY <1>1, <2>1, <2>2
  <2>4. swaps' \in 0..MaxSwaps
    BY <1>1, <2>1
  <2>5. checking # None => owners'[checking] \in during'
    BY <1>1, <2>1
  <2>6. info # {} => info \in during'
    BY <1>1, <2>1
  <2> QED
    BY <1>1, <2>1, <2>3, <2>4, <2>5, <2>6 DEF OwnersInv
<1>3. CASE Onboarding!Verify
  <2>1. /\ UNCHANGED <<owners, swaps>> /\ input \in Addresses /\ checking' = input
        /\ info' = {} /\ during' = {owners[input]}
    BY <1>1, <1>3 DEF Onboarding!Verify, Onboarding!CanVerify, Onboarding!chainOwners
  <2> QED
    BY <1>1, <2>1 DEF OwnersInv
<1>4. CASE Onboarding!ReadSafe
  <2>1. /\ UNCHANGED <<owners, swaps, during, checking>> /\ checking \in Addresses
        /\ info' = owners[checking] /\ info' \in during
    BY <1>1, <1>4 DEF Onboarding!ReadSafe, Onboarding!chainOwners
  <2> QED
    BY <1>1, <2>1 DEF OwnersInv
<1>5. CASE Onboarding!CheckAnswered
  <2>1. /\ UNCHANGED <<owners, swaps>> /\ checking' = None
        /\ (info' = {} /\ during' = {}) \/ UNCHANGED <<info, during>>
    BY <1>5 DEF Onboarding!CheckAnswered, Onboarding!chainOwners
  <2> QED
    BY <1>1, <2>1 DEF OwnersInv
<1>6. CASE Onboarding!Edit \/ Onboarding!Poll \/ Onboarding!PollAnswered
  <2>1. UNCHANGED <<owners, swaps, during, checking, info>>
    BY <1>6 DEF Onboarding!Edit, Onboarding!Poll, Onboarding!PollAnswered, Onboarding!chainOwners
  <2> QED
    BY <1>1, <2>1 DEF OwnersInv
<1> QED
  BY <1>2, <1>3, <1>4, <1>5, <1>6 DEF PageNext

LEMMA PageStep ==
  ASSUME PageInv, Onboarding!PageAssumption, PageNext
  PROVE  PageInv'
<1>0. MaxChecks \in Nat
  BY DEF Onboarding!PageAssumption
<1>1. CASE Onboarding!Edit
  BY <1>1 DEF Onboarding!Edit, PageInv, PageTyped
<1>2. CASE Onboarding!Verify
  <2>1. PageTyped'
    <3>1. /\ input \in Addresses \cup {None} /\ UNCHANGED <<input, polls>> /\ checking' = input
          /\ shownSafe' = None /\ portfolio' = None /\ failed' = FALSE
      BY <1>2 DEF Onboarding!Verify, PageInv, PageTyped
    <3>2. effect' \in Nat /\ effect \in Nat /\ effect <= effect' /\ checks' \in 0..MaxChecks
      BY <1>0, <1>2 DEF Onboarding!Verify, PageInv, PageTyped
    <3>3. 1..effect \subseteq 1..effect'
      BY <3>2
    <3>4. polls' \subseteq [run : 1..effect', safe : Addresses]
      BY <3>1, <3>3 DEF PageInv, PageTyped
    <3> QED
      BY <3>1, <3>2, <3>4 DEF PageTyped
  <2>2. \A p \in polls' : p.run # effect'
    BY <1>2 DEF Onboarding!Verify, PageInv, PageTyped
  <2>3. effect' < 2 * checks'
    BY <1>2 DEF Onboarding!Verify, PageInv, PageTyped
  <2> QED
    BY <1>2, <2>1, <2>2, <2>3 DEF Onboarding!Verify, PageInv
<1>3. CASE Onboarding!CheckAnswered
  <2>1. shownSafe = None /\ portfolio = None /\ checking \in Addresses /\ effect < 2 * checks
    BY <1>3 DEF Onboarding!CheckAnswered, PageInv, PageTyped
  <2>2. CASE /\ shownSafe' = checking /\ effect' = effect + 1
             /\ polls' = polls \cup {[run |-> effect', safe |-> checking]}
             /\ UNCHANGED <<info, during, failed>>
    <3>1. UNCHANGED <<input, portfolio, checks>> /\ checking' = None
      BY <1>3 DEF Onboarding!CheckAnswered
    <3>2. effect \in Nat /\ effect' \in 1..effect' /\ checks' \in 0..MaxChecks
      BY <2>2, <3>1 DEF PageInv, PageTyped
    <3>3. PageTyped'
      <4>1. 1..effect \subseteq 1..effect'
        BY <2>2 DEF PageInv, PageTyped
      <4>2. polls' \subseteq [run : 1..effect', safe : Addresses]
        BY <2>1, <2>2, <3>2, <4>1 DEF PageInv, PageTyped
      <4> QED
        BY <2>1, <2>2, <3>1, <3>2, <4>2 DEF PageInv, PageTyped
    <3>4. ASSUME NEW p \in polls', p.run = effect'
          PROVE  p.safe = shownSafe'
      BY <2>2, <3>2, <3>4 DEF PageInv, PageTyped
    <3>5. effect' <= 2 * checks' /\ effect' > 0
      BY <2>1, <2>2, <3>1 DEF PageInv, PageTyped
    <3>6. ~failed' /\ checking' = None /\ portfolio' = None
      BY <1>3, <2>1, <2>2, <3>1 DEF Onboarding!CheckAnswered, PageInv
    <3> QED
      BY <3>3, <3>4, <3>5, <3>6 DEF PageInv
  <2>3. CASE failed' = TRUE /\ info' = {} /\ during' = {} /\ UNCHANGED <<shownSafe, effect, polls>>
    BY <1>3, <2>1, <2>3 DEF Onboarding!CheckAnswered, PageInv, PageTyped
  <2> QED
    BY <1>3, <2>2, <2>3 DEF Onboarding!CheckAnswered
<1>4. CASE Onboarding!Poll
  <2>1. shownSafe \in Addresses /\ checking = None
    BY <1>4 DEF Onboarding!Poll, PageInv, PageTyped
  <2>2. effect \in 1..effect
    BY <1>4 DEF Onboarding!Poll, PageInv, PageTyped
  <2>3. polls' \subseteq [run : 1..effect', safe : Addresses]
    BY <1>4, <2>1, <2>2 DEF Onboarding!Poll, PageInv, PageTyped
  <2>4. \A p \in polls' : p.run = effect' => p.safe = shownSafe'
    BY <1>4 DEF Onboarding!Poll, PageInv
  <2> QED
    BY <1>4, <2>3, <2>4 DEF Onboarding!Poll, PageInv, PageTyped
<1>5. CASE Onboarding!PollAnswered
  <2>1. PICK p \in polls : /\ polls' = polls \ {p}
                           /\ portfolio' \in {portfolio, IF p.run = effect THEN p.safe ELSE portfolio}
    BY <1>5 DEF Onboarding!PollAnswered
  <2>2. portfolio' = portfolio \/ portfolio' = shownSafe
    BY <2>1 DEF PageInv
  <2> QED
    BY <1>5, <2>1, <2>2 DEF Onboarding!PollAnswered, PageInv, PageTyped
<1>6. CASE (\E a \in Addresses : Onboarding!ChangeOwners(a)) \/ Onboarding!ReadSafe
  <2>1. UNCHANGED <<input, checking, shownSafe, failed, portfolio, effect, polls, checks>>
    BY <1>6 DEF Onboarding!ChangeOwners, Onboarding!ReadSafe
  <2> QED
    BY <2>1 DEF PageInv, PageTyped
<1> QED
  BY <1>1, <1>2, <1>3, <1>4, <1>5, <1>6 DEF PageNext

LEMMA OnboardingStep ==
  ASSUME Onboarding!PageAssumption
  PROVE  /\ Onboarding!Init => WalletInv /\ PageInv /\ OwnersInv
         /\ WalletInv /\ PageInv /\ OwnersInv /\ [Onboarding!Next]_(Onboarding!vars)
              => WalletInv' /\ PageInv' /\ OwnersInv'
<1>1. ASSUME Onboarding!Init
      PROVE  WalletInv /\ PageInv /\ OwnersInv
  <2>1. WalletInv
    BY <1>1, WalletInit DEF Onboarding!Init
  <2>2. PageInv
    <3>1. PageTyped
      <4>1. MaxChecks \in Nat
        BY DEF Onboarding!PageAssumption
      <4>2. checks \in 0..MaxChecks /\ effect \in Nat
        BY <1>1, <4>1 DEF Onboarding!Init
      <4> QED
        BY <1>1, <4>2 DEF Onboarding!Init, PageTyped
    <3> QED
      BY <1>1, <3>1 DEF Onboarding!Init, PageInv
  <2>3. OwnersInv
    <3>1. /\ owners = [a \in Addresses |-> OwnersOf(a)] /\ swaps = 0
          /\ info = {} /\ during = {} /\ checking = None
      BY <1>1 DEF Onboarding!Init
    <3>2. owners \in [Addresses -> SUBSET Accounts] /\ swaps \in 0..MaxSwaps
      BY <3>1 DEF Onboarding!PageAssumption
    <3> QED
      BY <3>1, <3>2 DEF OwnersInv
  <2> QED
    BY <2>1, <2>2, <2>3
<1>2. ASSUME WalletInv, PageInv, OwnersInv, [Onboarding!Next]_(Onboarding!vars)
      PROVE  WalletInv' /\ PageInv' /\ OwnersInv'
  <2>1. ASSUME UNCHANGED Onboarding!wallet
        PROVE  WalletInv'
    BY <1>2, <2>1 DEF Onboarding!wallet, WalletInv, WalletTyped, KnowsAccount, KnowsChain, Waits
  <2>2. ASSUME UNCHANGED Onboarding!own
        PROVE  PageInv' /\ OwnersInv'
    BY <1>2, <2>2 DEF Onboarding!own, Onboarding!chainOwners, PageInv, PageTyped, OwnersInv
  <2>3. \/ Onboarding!W!Next /\ UNCHANGED Onboarding!own
        \/ PageNext /\ UNCHANGED Onboarding!wallet
        \/ UNCHANGED Onboarding!wallet /\ UNCHANGED Onboarding!own
    BY <1>2 DEF Onboarding!Next, Onboarding!vars, PageNext
  <2> QED
    BY <1>2, <2>1, <2>2, <2>3, WalletStep, PageStep, OwnersStep
<1> QED
  BY <1>1, <1>2

THEOREM OnboardingInvariance ==
  ASSUME Onboarding!PageAssumption
  PROVE  Onboarding!Spec => [](WalletInv /\ PageInv /\ OwnersInv)
<1>1. Onboarding!Init => WalletInv /\ PageInv /\ OwnersInv
  BY OnboardingStep
<1>2. WalletInv /\ PageInv /\ OwnersInv /\ [Onboarding!Next]_(Onboarding!vars)
        => (WalletInv /\ PageInv /\ OwnersInv)'
  BY OnboardingStep
<1> QED
  BY <1>1, <1>2, PTL DEF Onboarding!Spec

\* Types, of the wallet and of the page.
THEOREM OnboardingTypeCorrect ==
  ASSUME Onboarding!PageAssumption
  PROVE  Onboarding!Spec => []Onboarding!TypeOK
<1>1. ASSUME WalletInv, PageInv, OwnersInv
      PROVE  Onboarding!TypeOK
  <2>1. Onboarding!W!TypeOK
    BY <1>1, WalletSafe
  <2>2. effect \in 0..2 * MaxChecks
    BY <1>1 DEF PageInv, PageTyped, Onboarding!PageAssumption
  <2> QED
    BY <1>1, <2>1, <2>2 DEF PageInv, PageTyped, OwnersInv, Onboarding!TypeOK
<1>2. WalletInv /\ PageInv /\ OwnersInv => Onboarding!TypeOK
  BY <1>1
<1> QED
  BY <1>2, OnboardingInvariance, PTL

\* Whatever order the wallet answers in and whatever it does in between, a page that has heard
\* all it sent shows its account and network, or none (the handlers of wallet.tsx).
THEOREM TheWalletIsShown ==
  ASSUME Onboarding!PageAssumption
  PROVE  Onboarding!Spec => []AtRestShowsTheWallet
<1>1. WalletInv /\ PageInv => Onboarding!W!AtRestShowsTheWallet
  BY WalletSafe
<1> QED
  BY <1>1, OnboardingInvariance, PTL DEF AtRestShowsTheWallet

\* The connect button waits only for what is on its way or still to come (wallet.tsx, the
\* `finally` of connect).
THEOREM TheButtonComesBack ==
  ASSUME Onboarding!PageAssumption
  PROVE  Onboarding!Spec => []NeverStuckConnecting
<1>1. WalletInv /\ PageInv => Onboarding!W!NeverStuckConnecting
  BY WalletSafe
<1> QED
  BY <1>1, OnboardingInvariance, PTL DEF NeverStuckConnecting

\* The portfolio and the owner badge beside a Safe are that Safe's, for any number of Safes
\* checked one after the other and of polls under way (the effect's `live`): the badge says what
\* was so during that Safe's check, of the account that the wallet has now, although account and
\* owners change at any time.  It is not said that the owners still are what they were then.
THEOREM TheSafeIsItsOwn ==
  ASSUME Onboarding!PageAssumption
  PROVE  Onboarding!Spec => []BelongsToShownSafe
<1>1. ASSUME WalletInv, PageInv, OwnersInv
      PROVE  Onboarding!BelongsToShownSafe
  <2>1. wire = << >> => address \in {None, account}
    BY <1>1, WalletSafe DEF Onboarding!W!AtRestShowsTheWallet
  <2> QED
    BY <1>1, <2>1 DEF PageInv, OwnersInv, Onboarding!IsOwner, Onboarding!BelongsToShownSafe
<1>2. WalletInv /\ PageInv /\ OwnersInv => Onboarding!BelongsToShownSafe
  BY <1>1
<1> QED
  BY <1>2, OnboardingInvariance, PTL DEF BelongsToShownSafe

-----------------------------------------------------------------------------
\* The inspector

\* The one request that is out may still lead to the payment its click is for.
InspectorInv ==
  /\ Inspector!TypeOK /\ Inspector!OnePaymentPerClick
  /\ busy = "pay" => payments < pays

LEMMA InspectorStep ==
  ASSUME Inspector!PageAssumption, InspectorInv, Inspector!Next
  PROVE  InspectorInv'
<1>0. /\ None \notin {"decode", "pay"} /\ MaxEdits \in Nat /\ MaxPays \in Nat
      /\ \A p \in Presets : p \in Endpoints /\ BodyOf(p) \in Bodies
  BY DEF Inspector!PageAssumption
<1>1. /\ env \subseteq Inspector!Settings /\ url \in Inspector!Urls /\ body \in Bodies \cup {Garbled}
      /\ busy \in {None, "decode", "pay"} /\ err \in BOOLEAN
      /\ decoded = None \/ decoded \in [url : Endpoints, isC402 : BOOLEAN, canPay : {"key" \in env}]
      /\ paid = None \/ paid \in [url : Endpoints]
      /\ requests \subseteq [kind : {"decode", "pay"}, url : Inspector!Urls]
      /\ edits \in 0..MaxEdits /\ pays \in 0..MaxPays
  BY DEF InspectorInv, Inspector!TypeOK
<1>2. /\ payments \in Nat /\ pays \in Nat /\ payments <= pays
      /\ payments > 0 => env = Inspector!Settings
      /\ busy = "pay" => payments < pays
      /\ \/ busy = None /\ requests = {}
         \/ \E r \in requests : requests = {r} /\ busy = r.kind
  BY <1>0 DEF InspectorInv, Inspector!TypeOK, Inspector!OnePaymentPerClick
\* What leaves the requests and payments alone
<1>3. ASSUME UNCHANGED <<env, busy, requests, payments, pays>>, Inspector!TypeOK'
      PROVE  InspectorInv'
  BY <1>2, <1>3 DEF InspectorInv, Inspector!OnePaymentPerClick
<1>4. ASSUME Inspector!Touch
      PROVE  edits' \in 0..MaxEdits
  BY <1>0, <1>1, <1>4 DEF Inspector!Touch
<1>5. CASE Inspector!EditUrl
  BY <1>1, <1>2, <1>3, <1>4, <1>5 DEF Inspector!EditUrl, Inspector!TypeOK
<1>6. CASE Inspector!EditBody
  BY <1>1, <1>2, <1>3, <1>4, <1>6 DEF Inspector!EditBody, Inspector!TypeOK
<1>7. CASE Inspector!Preset
  <2>1. url' \in Inspector!Urls /\ body' \in Bodies
    BY <1>0, <1>7 DEF Inspector!Preset, Inspector!Urls
  <2> QED
    BY <1>1, <1>2, <1>3, <1>4, <1>7, <2>1 DEF Inspector!Preset, Inspector!TypeOK
<1>8. CASE Inspector!Decode
  <2>1. requests = {}
    BY <1>0, <1>1, <1>2, <1>8 DEF Inspector!Decode, Inspector!Free
  <2>2. requests' = {[kind |-> "decode", url |-> url]} /\ busy' = "decode"
    BY <1>8, <2>1 DEF Inspector!Decode
  <2>3. requests' \subseteq [kind : {"decode", "pay"}, url : Inspector!Urls]
    BY <1>1, <1>8, <2>2
  <2>4. /\ err' = FALSE /\ decoded' = None /\ paid' = None
        /\ UNCHANGED <<env, url, body, payments, edits, pays>>
    BY <1>8 DEF Inspector!Decode
  <2>5. Inspector!TypeOK'
    BY <1>1, <1>2, <2>2, <2>3, <2>4 DEF Inspector!TypeOK
  <2> QED
    BY <1>2, <2>2, <2>4, <2>5 DEF InspectorInv, Inspector!OnePaymentPerClick
<1>9. CASE Inspector!Pay
  <2>1. requests = {} /\ pays' \in 0..MaxPays /\ pays' \in Nat /\ payments < pays'
    BY <1>0, <1>1, <1>2, <1>9 DEF Inspector!Pay, Inspector!CanPay, Inspector!Free
  <2>2. CASE body = Garbled
    BY <1>0, <1>1, <1>2, <1>9, <2>1, <2>2
       DEF Inspector!Pay, Inspector!CanPay, Inspector!Free, InspectorInv, Inspector!TypeOK,
       Inspector!OnePaymentPerClick
  <2>3. CASE body # Garbled
    <3>1. requests' = {[kind |-> "pay", url |-> url]} /\ busy' = "pay"
      BY <1>9, <2>1, <2>3 DEF Inspector!Pay
    <3>2. requests' \subseteq [kind : {"decode", "pay"}, url : Inspector!Urls]
      BY <1>1, <3>1
    <3>3. /\ paid' = None /\ err' = FALSE
          /\ UNCHANGED <<env, url, body, decoded, payments, edits>>
      BY <1>9, <2>3 DEF Inspector!Pay
    <3>4. Inspector!TypeOK'
      BY <1>1, <1>2, <2>1, <3>1, <3>2, <3>3 DEF Inspector!TypeOK
    <3> QED
      BY <1>2, <2>1, <3>1, <3>3, <3>4 DEF InspectorInv, Inspector!OnePaymentPerClick
  <2> QED
    BY <2>2, <2>3
\* An answer comes to the one request that is out.
<1>10. ASSUME NEW r, Inspector!Answered(r)
       PROVE  requests = {r} /\ requests' = {} /\ busy' = None /\ busy = r.kind /\ r.url \in Inspector!Urls
  BY <1>1, <1>2, <1>10 DEF Inspector!Answered
<1>11. CASE Inspector!Fail
  <2>1. requests' = {} /\ busy' = None
    BY <1>10, <1>11 DEF Inspector!Fail
  <2> QED
    BY <1>0, <1>1, <1>2, <1>11, <2>1 DEF Inspector!Fail, InspectorInv, Inspector!TypeOK,
       Inspector!OnePaymentPerClick
<1>12. CASE Inspector!DecodeAnswered
  <2>1. PICK r \in requests, isC402 \in BOOLEAN :
          /\ r.url # BadUrl /\ Inspector!Answered(r)
          /\ decoded' = [url |-> r.url, isC402 |-> isC402, canPay |-> "key" \in env]
    BY <1>12 DEF Inspector!DecodeAnswered
  <2>2. requests' = {} /\ busy' = None /\ r.url \in Endpoints
    BY <1>10, <2>1 DEF Inspector!Urls
  <2> QED
    BY <1>0, <1>1, <1>2, <1>12, <2>1, <2>2 DEF Inspector!DecodeAnswered, InspectorInv, Inspector!TypeOK,
       Inspector!OnePaymentPerClick
<1>13. CASE Inspector!PayAnswered
  <2>1. PICK r \in requests :
          /\ r.kind = "pay" /\ r.url # BadUrl /\ Inspector!Answered(r) /\ Inspector!CallEndpoint
          /\ \/ paid' = [url |-> r.url] /\ UNCHANGED err
             \/ err' = TRUE /\ UNCHANGED paid
    BY <1>13 DEF Inspector!PayAnswered
  <2>2. requests' = {} /\ busy' = None /\ busy = "pay" /\ r.url \in Endpoints
    BY <1>10, <2>1 DEF Inspector!Urls
  <2>3. payments' \in Nat /\ payments' <= pays /\ env = Inspector!Settings
    BY <1>2, <2>1, <2>2 DEF Inspector!CallEndpoint
  <2>4. (paid' = None \/ paid' \in [url : Endpoints]) /\ err' \in BOOLEAN
    <3>1. [url |-> r.url] \in [url : Endpoints]
      BY <2>2
    <3> QED
      BY <1>1, <2>1, <3>1
  <2> QED
    BY <1>0, <1>1, <1>13, <2>2, <2>3, <2>4 DEF Inspector!PayAnswered, InspectorInv, Inspector!TypeOK,
       Inspector!OnePaymentPerClick
<1> QED
  BY <1>5, <1>6, <1>7, <1>8, <1>9, <1>11, <1>12, <1>13 DEF Inspector!Next

LEMMA InspectorInvariance ==
  ASSUME Inspector!PageAssumption
  PROVE  Inspector!Spec => []InspectorInv
<1>1. ASSUME Inspector!Init
      PROVE  InspectorInv
  <2>1. url \in Inspector!Urls /\ body \in Bodies
    BY <1>1 DEF Inspector!Init, Inspector!PageAssumption, Inspector!Urls
  <2>2. 0 \in 0..MaxEdits /\ 0 \in 0..MaxPays /\ None \notin {"decode", "pay"}
    BY DEF Inspector!PageAssumption
  <2>3. /\ env \subseteq Inspector!Settings /\ decoded = None /\ paid = None /\ busy = None /\ err = FALSE
        /\ requests = {} /\ payments = 0 /\ edits = 0 /\ pays = 0
    BY <1>1 DEF Inspector!Init
  <2>4. edits \in 0..MaxEdits /\ pays \in 0..MaxPays /\ payments \in Nat /\ ~(payments > 0)
    BY <2>2, <2>3
  <2>5. Inspector!TypeOK
    BY <2>1, <2>3, <2>4, Zenon DEF Inspector!TypeOK
  <2> QED
    BY <2>2, <2>3, <2>5 DEF InspectorInv, Inspector!OnePaymentPerClick
<1>2. ASSUME InspectorInv, [Inspector!Next]_(Inspector!vars)
      PROVE  InspectorInv'
  <2>1. CASE UNCHANGED Inspector!vars
    BY <1>2, <2>1 DEF Inspector!vars, InspectorInv, Inspector!TypeOK, Inspector!OnePaymentPerClick,
       Inspector!Urls
  <2> QED
    BY <1>2, <2>1, InspectorStep
<1> QED
  BY <1>1, <1>2, PTL DEF Inspector!Spec

\* A click is one request and at most one payment, for any presets, edits and lost answers.
THEOREM OneClickOnePayment ==
  ASSUME Inspector!PageAssumption
  PROVE  Inspector!Spec => []OnePaymentPerClick
<1>1. InspectorInv => Inspector!OnePaymentPerClick
  BY DEF InspectorInv
<1> QED
  BY <1>1, InspectorInvariance, PTL DEF OnePaymentPerClick

\* Types of the inspector; only a deployment with key and RPC URL pays.
THEOREM InspectorTypeCorrect ==
  ASSUME Inspector!PageAssumption
  PROVE  Inspector!Spec => []Inspector!TypeOK
<1>1. InspectorInv => Inspector!TypeOK
  BY DEF InspectorInv
<1> QED
  BY <1>1, InspectorInvariance, PTL

-----------------------------------------------------------------------------
\* The live pages

Fields == {"phase", "count", "eventCount", "ids", "eventIds", "attested"}

\* What a poll has read: counts first, from which it is listed what is listed
Counted(q) ==
  /\ q.count \in 0..MaxDecisions \cup {None}
  /\ q.eventCount \in IF Dashboard!Treasury THEN 0..busEvents \cup {None} ELSE {None}

Listed(q) ==
  /\ q.count \in 0..MaxDecisions /\ q.ids = Dashboard!Newest(q.count)
  /\ Dashboard!Treasury => q.eventCount \in 0..busEvents /\ q.eventIds = Dashboard!Newest(q.eventCount)

Attested(q) ==
  /\ q.attested # None => q.attested.id = q.count
  /\ Dashboard!Treasury => (q.attested = None <=> q.ids = {})

PollInv(q) ==
  /\ DOMAIN q = Fields /\ q.phase \in {"idle", "counting", "listed", "answered"}
  /\ Counted(q)
  /\ q.phase \in {"listed", "answered"} => Listed(q)
  /\ q.phase = "answered" => Attested(q)
  /\ q.phase # "answered" => q.attested = None

DashboardInv ==
  /\ decisions \in 0..MaxDecisions /\ busEvents \in 0..MaxEvents /\ engine \in 0..MaxDeploys
  /\ up \in BOOLEAN /\ pageErr \in BOOLEAN /\ DOMAIN poll = Polls
  /\ \A p \in Polls : PollInv(poll[p])
  /\ shown # None => /\ shown.engine \in 0..engine /\ Counted(shown) /\ Listed(shown) /\ Attested(shown)

\* A poll keeps what it has when events are added; the other polls are as they were.
LEMMA OnePollMoves ==
  ASSUME DashboardInv, NEW p \in Polls, NEW q, poll' = [poll EXCEPT ![p] = q],
         UNCHANGED <<page, engine, decisions, busEvents, up>>, PollInv(q),
         UNCHANGED shown, pageErr' \in BOOLEAN
  PROVE  DashboardInv'
<1>1. DOMAIN poll' = Polls /\ \A o \in Polls : poll'[o] = IF o = p THEN q ELSE poll[o]
  BY DEF DashboardInv
<1>2. \A o \in Polls : PollInv(poll'[o])
  BY <1>1 DEF DashboardInv
<1>3. \A o \in Polls : PollInv(poll[o])'
  BY <1>2 DEF PollInv, Counted, Listed, Attested, Dashboard!Treasury
<1> QED
  BY <1>1, <1>3 DEF DashboardInv, Counted, Listed, Attested, Dashboard!Treasury

LEMMA IdlePoll == PollInv(Dashboard!Idle)
BY DEF PollInv, Counted, Dashboard!Idle, Fields

\* The chain moves on, and the control plane is configured anew.
LEMMA WorldMoves ==
  ASSUME Dashboard!PageAssumption, DashboardInv,
         Dashboard!Decide \/ Dashboard!PublishEvent \/ Dashboard!Redeploy \/ Dashboard!NodeUpOrDown
  PROVE  DashboardInv'
<1>0. MaxDecisions \in Nat /\ MaxEvents \in Nat /\ MaxDeploys \in Nat
  BY DEF Dashboard!PageAssumption
<1>1. UNCHANGED <<page, shown, pageErr>>
  BY DEF Dashboard!Decide, Dashboard!PublishEvent, Dashboard!Redeploy, Dashboard!NodeUpOrDown
<1>2. /\ decisions' \in 0..MaxDecisions /\ busEvents' \in 0..MaxEvents /\ engine' \in 0..MaxDeploys
      /\ up' \in BOOLEAN
  <2>1. CASE Dashboard!Decide
    BY <1>0, <2>1 DEF Dashboard!Decide, DashboardInv
  <2>2. CASE Dashboard!PublishEvent
    BY <1>0, <2>2 DEF Dashboard!PublishEvent, DashboardInv
  <2>3. CASE Dashboard!Redeploy
    BY <1>0, <2>3 DEF Dashboard!Redeploy, DashboardInv
  <2>4. CASE Dashboard!NodeUpOrDown
    BY <1>0, <2>4 DEF Dashboard!NodeUpOrDown, DashboardInv
  <2> QED
    BY <2>1, <2>2, <2>3, <2>4
<1>3. 0..busEvents \subseteq 0..busEvents' /\ 0..engine \subseteq 0..engine'
  BY <1>0 DEF Dashboard!Decide, Dashboard!PublishEvent, Dashboard!Redeploy, Dashboard!NodeUpOrDown,
     DashboardInv
<1>4. DOMAIN poll' = Polls /\ \A p \in Polls : PollInv(poll'[p])
  BY IdlePoll DEF Dashboard!Decide, Dashboard!PublishEvent, Dashboard!Redeploy, Dashboard!NodeUpOrDown,
     DashboardInv
<1>5. \A p \in Polls : PollInv(poll[p])'
  BY <1>1, <1>3, <1>4 DEF PollInv, Counted, Listed, Attested, Dashboard!Treasury
<1>6. shown' # None => /\ shown'.engine \in 0..engine'
                       /\ Counted(shown)' /\ Listed(shown)' /\ Attested(shown)'
  BY <1>1, <1>3 DEF DashboardInv, Counted, Listed, Attested, Dashboard!Treasury
<1> QED
  BY <1>1, <1>2, <1>4, <1>5, <1>6 DEF DashboardInv

\* A poll is served, and its answer shown, or it fails.
LEMMA PollStep ==
  ASSUME Dashboard!PageAssumption, DashboardInv, NEW p \in Polls,
         Dashboard!Load(p) \/ Dashboard!Serve(p) \/ Dashboard!Answer(p) \/ Dashboard!Fail(p)
  PROVE  DashboardInv'
<1> DEFINE q == poll[p]
<1>1. /\ PollInv(q) /\ DOMAIN poll = Polls
      /\ decisions \in 0..MaxDecisions /\ busEvents \in 0..MaxEvents /\ up \in BOOLEAN /\ pageErr \in BOOLEAN
  BY DEF DashboardInv
<1>2. UNCHANGED <<page, engine, decisions, busEvents, up>>
  BY DEF Dashboard!Load, Dashboard!Serve, Dashboard!Answer, Dashboard!Fail, Dashboard!ReadDecisionCount,
     Dashboard!ReadEventCount, Dashboard!ReadLists,
         Dashboard!Attest, Dashboard!world
<1>3. CASE Dashboard!Load(p)
  <2> DEFINE n == [q EXCEPT !.phase = "counting"]
  <2>1. PollInv(n)
    BY <1>1, <1>3 DEF Dashboard!Load, PollInv, Counted, Fields
  <2>2. poll' = [poll EXCEPT ![p] = n] /\ UNCHANGED <<shown, pageErr>>
    BY <1>3 DEF Dashboard!Load
  <2> QED
    BY <1>1, <1>2, <2>1, <2>2, OnePollMoves
<1>4. CASE Dashboard!ReadDecisionCount(p)
  <2> DEFINE n == [q EXCEPT !.count = decisions]
  <2>1. PollInv(n)
    BY <1>1, <1>4 DEF Dashboard!ReadDecisionCount, PollInv, Counted, Fields
  <2>2. poll' = [poll EXCEPT ![p] = n] /\ UNCHANGED <<shown, pageErr>>
    BY <1>4 DEF Dashboard!ReadDecisionCount
  <2> QED
    BY <1>1, <1>2, <2>1, <2>2, OnePollMoves
<1>5. CASE Dashboard!ReadEventCount(p)
  <2> DEFINE n == [q EXCEPT !.eventCount = busEvents]
  <2>0. busEvents \in 0..busEvents /\ Dashboard!Treasury
    BY <1>1, <1>5 DEF Dashboard!ReadEventCount, Dashboard!PageAssumption
  <2>1. PollInv(n)
    BY <1>1, <1>5, <2>0 DEF Dashboard!ReadEventCount, PollInv, Counted, Fields
  <2>2. poll' = [poll EXCEPT ![p] = n] /\ UNCHANGED <<shown, pageErr>>
    BY <1>5 DEF Dashboard!ReadEventCount
  <2> QED
    BY <1>1, <1>2, <2>1, <2>2, OnePollMoves
<1>6. CASE Dashboard!ReadLists(p)
  <2> DEFINE n == [q EXCEPT !.phase = IF Dashboard!Treasury THEN "listed" ELSE "answered",
                            !.ids = Dashboard!Newest(q.count),
                            !.eventIds = IF Dashboard!Treasury THEN Dashboard!Newest(q.eventCount) ELSE {}]
  <2>1. /\ q.phase = "counting" /\ q.count \in 0..MaxDecisions
        /\ Dashboard!Treasury => q.eventCount \in 0..busEvents
    BY <1>1, <1>6 DEF Dashboard!ReadLists, PollInv, Counted
  <2>2. /\ DOMAIN n = Fields
        /\ n.phase = (IF Dashboard!Treasury THEN "listed" ELSE "answered") /\ n.ids = Dashboard!Newest(n.count)
        /\ n.count = q.count /\ n.eventCount = q.eventCount /\ n.attested = q.attested
        /\ Dashboard!Treasury => n.eventIds = Dashboard!Newest(n.eventCount)
    BY <1>1 DEF PollInv, Fields
  <2> HIDE DEF n
  <2>3. PollInv(n)
    BY <1>1, <2>1, <2>2 DEF PollInv, Counted, Listed, Attested
  <2>4. poll' = [poll EXCEPT ![p] = n] /\ UNCHANGED <<shown, pageErr>>
    BY <1>6 DEF Dashboard!ReadLists, n
  <2> QED
    BY <1>1, <1>2, <2>3, <2>4, OnePollMoves
<1>7. CASE Dashboard!Attest(p)
  <2> DEFINE a == IF q.ids = {} THEN None ELSE [id |-> q.count, valid |-> up]
             n == [q EXCEPT !.phase = "answered", !.attested = a]
  <2>1. q.phase = "listed" /\ Listed(q) /\ Counted(q)
    BY <1>1, <1>7 DEF Dashboard!Attest, PollInv
  <2>2. q.ids # {} => a # None /\ a.id = q.count
    <3>1. [id |-> q.count, valid |-> up] \in [id : Nat, valid : BOOLEAN]
      BY <1>1, <2>1 DEF Listed, Dashboard!PageAssumption
    <3> QED
      BY <3>1 DEF Dashboard!PageAssumption
  <2>3. q.ids = {} => a = None
    OBVIOUS
  <2> HIDE DEF a
  <2>4. /\ DOMAIN n = Fields /\ n.phase = "answered" /\ n.ids = q.ids /\ n.count = q.count
        /\ n.eventCount = q.eventCount /\ n.eventIds = q.eventIds /\ n.attested = a
    BY <1>1 DEF PollInv, Fields
  <2> HIDE DEF n
  <2>5. PollInv(n)
    BY <2>1, <2>2, <2>3, <2>4 DEF PollInv, Counted, Listed, Attested
  <2>6. poll' = [poll EXCEPT ![p] = n] /\ UNCHANGED <<shown, pageErr>>
    BY <1>7 DEF Dashboard!Attest, n, a
  <2> QED
    BY <1>1, <1>2, <2>5, <2>6, OnePollMoves
<1>8. CASE Dashboard!Fail(p)
  <2>1. poll' = [poll EXCEPT ![p] = Dashboard!Idle] /\ UNCHANGED shown /\ pageErr' \in BOOLEAN
    BY <1>1, <1>8 DEF Dashboard!Fail, Dashboard!ShowsErrors
  <2> QED
    BY <1>2, <2>1, IdlePoll, OnePollMoves
<1>9. CASE Dashboard!Answer(p)
  <2>1. /\ shown' = [engine |-> engine, count |-> q.count, eventCount |-> q.eventCount, ids |-> q.ids,
                     eventIds |-> q.eventIds, attested |-> q.attested]
        /\ poll' = [poll EXCEPT ![p] = Dashboard!Idle] /\ pageErr' = FALSE /\ q.phase = "answered"
    BY <1>9 DEF Dashboard!Answer, Dashboard!Show
  <2>2. engine' \in 0..engine'
    BY <1>2 DEF DashboardInv, Dashboard!PageAssumption
  <2>3. shown'.engine \in 0..engine' /\ Counted(shown)' /\ Listed(shown)' /\ Attested(shown)'
    BY <1>1, <1>2, <2>1, <2>2 DEF PollInv, Counted, Listed, Attested, Dashboard!Treasury
  <2>4. DOMAIN poll' = Polls /\ \A o \in Polls : PollInv(poll'[o])
    BY <2>1, IdlePoll DEF DashboardInv
  <2>5. \A o \in Polls : PollInv(poll[o])'
    BY <1>2, <2>4 DEF PollInv, Counted, Listed, Attested, Dashboard!Treasury
  <2> QED
    BY <1>2, <2>1, <2>3, <2>4, <2>5 DEF DashboardInv
<1> QED
  BY <1>3, <1>4, <1>5, <1>6, <1>7, <1>8, <1>9 DEF Dashboard!Serve

LEMMA DashboardInvariance ==
  ASSUME Dashboard!PageAssumption
  PROVE  Dashboard!Spec => []DashboardInv
<1>1. ASSUME Dashboard!Init
      PROVE  DashboardInv
  <2>1. decisions \in 0..MaxDecisions /\ busEvents \in 0..MaxEvents /\ engine \in 0..MaxDeploys
    BY <1>1 DEF Dashboard!Init, Dashboard!PageAssumption
  <2> QED
    BY <1>1, <2>1, IdlePoll DEF Dashboard!Init, DashboardInv
<1>2. ASSUME DashboardInv, [Dashboard!Next]_(Dashboard!vars)
      PROVE  DashboardInv'
  <2>1. CASE UNCHANGED Dashboard!vars
    BY <1>2, <2>1 DEF Dashboard!vars, DashboardInv, PollInv, Counted, Listed, Attested, Dashboard!Treasury
  <2> QED
    BY <1>2, <2>1, WorldMoves, PollStep DEF Dashboard!Next
<1> QED
  BY <1>1, <1>2, PTL DEF Dashboard!Spec

\* What a live page shows together belongs together, for any number of polls that overtake each
\* other, any list length, and although the chain moves on between one answer's reads.
THEOREM AnswersAreOfOneMoment ==
  ASSUME Dashboard!PageAssumption
  PROVE  Dashboard!Spec => []OneAnswerIsConsistent
<1>1. DashboardInv => Dashboard!OneAnswerIsConsistent
  BY DEF DashboardInv, Listed, Attested, Dashboard!OneAnswerIsConsistent
<1> QED
  BY <1>1, DashboardInvariance, PTL DEF OneAnswerIsConsistent

\* Types of the live pages.
THEOREM DashboardTypeCorrect ==
  ASSUME Dashboard!PageAssumption
  PROVE  Dashboard!Spec => []Dashboard!TypeOK
<1>1. DashboardInv => Dashboard!TypeOK
  BY DEF DashboardInv, PollInv, Counted, Listed, Dashboard!TypeOK
<1> QED
  BY <1>1, DashboardInvariance, PTL

-----------------------------------------------------------------------------
\* The parts together: a step of the whole is a step of one part, and leaves the others alone.
LEMMA PartsBehave ==
  ClientsSpec => Loop!Spec /\ Spec /\ Onboarding!Spec /\ Inspector!Spec /\ Dashboard!Spec
<1>1. ClientsInit => Loop!Init /\ Init /\ Onboarding!Init /\ Inspector!Init /\ Dashboard!Init
  BY DEF ClientsInit
<1>2. [ClientsNext]_clientsVars =>
        /\ [Loop!Next]_(Loop!vars) /\ [Next]_vars /\ [Onboarding!Next]_(Onboarding!vars)
        /\ [Inspector!Next]_(Inspector!vars) /\ [Dashboard!Next]_(Dashboard!vars)
  BY Zenon DEF ClientsNext, clientsVars, loopVars, onboardingVars, inspectorVars, dashboardVars, vars, chain,
     Loop!vars, Loop!agentVars, Loop!execVars, Loop!fileVars, Onboarding!vars, Onboarding!wallet,
     Onboarding!own, Onboarding!chainOwners, Inspector!vars, Dashboard!vars
<1> QED
  BY <1>1, <1>2, PTL DEF ClientsSpec, Loop!Spec, Spec, Onboarding!Spec, Inspector!Spec, Dashboard!Spec

\* The types of all parts, whichever of them moves.
THEOREM PartsTypeCorrect == ClientsSpec => []Types
<1>1. /\ Loop!LoopAssumption /\ Onboarding!PageAssumption
      /\ Inspector!PageAssumption /\ Dashboard!PageAssumption
  BY PartsAssumption
<1>2. /\ Loop!Spec => []Loop!TypeOK
      /\ Onboarding!Spec => []Onboarding!TypeOK
      /\ Inspector!Spec => []Inspector!TypeOK
      /\ Dashboard!Spec => []Dashboard!TypeOK
  BY <1>1, LoopTypeCorrect, OnboardingTypeCorrect, InspectorTypeCorrect, DashboardTypeCorrect
<1>3. /\ Loop!TypeOK /\ TypeOK /\ Onboarding!TypeOK /\ Inspector!TypeOK
      /\ Dashboard!TypeOK
      => Types
  BY DEF Types
<1> QED
  BY <1>2, <1>3, TypeCorrect, PartsBehave, PTL

\* What is proved of the parts holds of the clients as a whole, of the part that moves as of
\* those that stand still.
THEOREM ClientsAreSafe ==
  ClientsSpec => /\ []ActsOnNoOlderEvent /\ []LoneSwapSucceeds /\ []LogKeepsRecent
                 /\ []ValidIsSound /\ []SoundIsValid
                 /\ []AtRestShowsTheWallet /\ []NeverStuckConnecting /\ []BelongsToShownSafe
                 /\ []OnePaymentPerClick
                 /\ []OneAnswerIsConsistent
<1>1. /\ Loop!Spec => []ActsOnNoOlderEvent /\ []LoneSwapSucceeds /\ []LogKeepsRecent
      /\ Onboarding!Spec => []AtRestShowsTheWallet /\ []NeverStuckConnecting /\ []BelongsToShownSafe
      /\ Inspector!Spec => []OnePaymentPerClick
      /\ Dashboard!Spec => []OneAnswerIsConsistent
  BY PartsAssumption, NoOlderEventIsActedOn, LoneSwapsSucceed, TheLogIsRecent, TheWalletIsShown,
     TheButtonComesBack, TheSafeIsItsOwn, OneClickOnePayment, AnswersAreOfOneMoment
<1> QED
  BY <1>1, ValidVerdictsAreSound, SoundAttestationsAreValid, PartsBehave, PTL
=============================================================================
