----------------------------- MODULE MCServices -----------------------------
(***************************************************************************)
(* Encrypted words of two bits, so that sums wrap within five settlements; *)
(* four launchers, each giving up after two checks; two clients who call   *)
(* for ever, with a minimum of gas for one call; a call to each example;   *)
(* prices of up to three characters on each side of the point, or without  *)
(* one, or with two; two deployments and three demo runs, one after the    *)
(* other or overlapping.                                                   *)
(***************************************************************************)
EXTENDS Services

Strings == INSTANCE SequencesExt

\* AtomicPrice's characters
minus   == 16
plus    == 17
space   == 18
radixB  == 11
radixX  == 19
noDigit == 21

\* Digits, minus and what is in no number in any order, spaces, and 0x9, 0xa, 0b1, 0b9, 0x
Written == Strings!SeqOf({0, 9, minus, noDigit}, 3)
             \cup {<<space, 9>>, <<9, space>>, <<9, space, 9>>, <<plus, 1>>}
             \cup {<<0, radixX, 9>>, <<0, radixX, 10>>, <<0, radixB, 1>>, <<0, radixB, 9>>, <<0, radixX>>}
MCPrices == {<<w>> : w \in Written} \cup {<<w, f>> : w, f \in Written}
              \cup {<<w, f, <<9>>>> : w, f \in {<<9>>, <<0, 9>>}}

\* ServicesInit, where of the parts that do not move one initial state is enough
MCInit ==
  /\ part \in Parts
  /\ Init /\ Launcher!Init /\ Operator!Init /\ Examples!Init /\ Deployment!Init /\ Demo!Init
  /\ part # "launcher"   => contained
  /\ part # "operator"   => balance = 0
  /\ part # "examples"   => runtime
  /\ part # "deployment" => otherRuntime
  /\ IF part = "price" THEN Price!Init ELSE price = << << >> >> /\ decimals = 0 /\ amount = None

MCSpec == MCInit /\ [][ServicesNext]_allVars /\ Fairness
=============================================================================
