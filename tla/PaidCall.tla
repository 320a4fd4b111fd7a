------------------------------ MODULE PaidCall ------------------------------
(***************************************************************************)
(* What a c402 endpoint promises about a payment, whatever it sells: the   *)
(* answer is there before the payment is taken, the payment is taken       *)
(* before the answer goes out, and neither is ever undone.                 *)
(***************************************************************************)
CONSTANT Calls

VARIABLES answered, charged, delivered

vars == <<answered, charged, delivered>>

Init == answered = {} /\ charged = {} /\ delivered = {}

Answer(c) ==
  /\ c \notin answered /\ answered' = answered \cup {c}
  /\ UNCHANGED <<charged, delivered>>

Charge(c) ==
  /\ c \in answered \ charged /\ charged' = charged \cup {c}
  /\ UNCHANGED <<answered, delivered>>

Deliver(c) ==
  /\ c \in charged \ delivered /\ delivered' = delivered \cup {c}
  /\ UNCHANGED <<answered, charged>>

Next == \E c \in Calls : Answer(c) \/ Charge(c) \/ Deliver(c)
Spec == Init /\ [][Next]_vars
=============================================================================
