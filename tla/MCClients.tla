----------------------------- MODULE MCClients ------------------------------
(***************************************************************************)
(* Two overlapping loops of a Safe with funds for a swap in either         *)
(* direction: at 4 USDC per WETH nothing is to be done, at 5 WETH is to be *)
(* bought and, once it is, sold; at both a swap brings the same, rounded.  *)
(* Two applications, each with an engine and a registry on a network of    *)
(* its own, to verify decisions of; a wallet with two accounts and two     *)
(* networks, and two Safes with an owner each, of which one gets others;   *)
(* two preset endpoints and one typed in; two polls that overtake each     *)
(* other.                                                                  *)
(***************************************************************************)
EXTENDS Clients

\* Of the parts that do not move one initial state is enough.  The verifier's node is on one of
\* two networks that are alike, and the wallet starts with the account that loses its Safe, on
\* either network, or with none, on Sepolia.
MCInit ==
  /\ ClientsInit
  /\ node = "sepolia"
  /\ account # "a2"
  /\ account = None => network = Sepolia
  /\ ~hasProvider => account = None
  /\ part # "onboarding" => ~hasProvider
  /\ part # "inspector"  => env = {"key", "rpc"} /\ url = "treasury"
  /\ part # "dashboard"  => page = "workspace" /\ up

MCSafeSpec == MCInit /\ [][ClientsNext]_clientsVars
MCSpec     == MCSafeSpec /\ Fairness

MCPortfolios  == {<<2, 2>>}
MCThresholds  == [hedge |-> 5000, signal |-> 4]
MCNetworkOf(x) == IF x = "payroll" THEN "mainnet" ELSE "sepolia"
MCCdeOf(r)    == IF r = "treasury" THEN "treasuryCde" ELSE "payrollCde"
MCOwnersOf(s) == IF s = "s1" THEN {"a1"} ELSE {"a2"}
MCNewOwners(s) == IF s = "s1" THEN {{"a2"}} ELSE {}
MCBodyOf(p)   == IF p = "treasury" THEN "decision" ELSE "raise"
=============================================================================
