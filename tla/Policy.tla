------------------------------- MODULE Policy -------------------------------
(***************************************************************************)
(* The two decision policies of c402, as the contracts compute them:       *)
(* branchlessly, each output by two encrypted comparisons and two selects. *)
(* The action and the confidence of a decision are computed as separate    *)
(* ciphertexts; nothing but these select chains keeps them in agreement.   *)
(***************************************************************************)
EXTENDS Naturals

\* CDE.sol: treasury actions
ACTION_HOLD == 0
ACTION_HEDGE == 1
ACTION_ACCUMULATE == 2

\* PayrollCDE.sol: payroll actions
ACTION_APPROVE == 0
ACTION_DEFER == 1
ACTION_REJECT == 2

\* both: the public confidence buckets
CONF_STRONG == 100
CONF_MEDIUM == 60
CONF_LOW == 20

\* Nox.select
Select(condition, then, else) == IF condition THEN then ELSE else

\* in: the encrypted exposure and signal;  t: the encrypted thresholds
TreasuryAction(in, t) ==
  LET over   == in[1] > t.hedge
      strong == in[2] > t.signal
  IN  Select(over, ACTION_HEDGE, Select(strong, ACTION_ACCUMULATE, ACTION_HOLD))

TreasuryConfidence(in, t) ==
  LET over   == in[1] > t.hedge
      strong == in[2] > t.signal
  IN  Select(over, CONF_STRONG, Select(strong, CONF_MEDIUM, CONF_LOW))

\* Mutant: a raise that uses up the budget counts as affordable.
PayrollActionUpToBudget(in, t) ==
  LET affordable   == in[1] >= in[2]
      withinPolicy == t.cap > in[2]
  IN  Select(affordable, Select(withinPolicy, ACTION_APPROVE, ACTION_DEFER),
             ACTION_REJECT)

\* in: the encrypted remaining budget and requested raise;  t: the encrypted cap
PayrollAction(in, t) ==
  LET affordable   == in[1] > in[2]
      withinPolicy == t.cap > in[2]
  IN  Select(affordable, Select(withinPolicy, ACTION_APPROVE, ACTION_DEFER),
             ACTION_REJECT)

PayrollConfidence(in, t) ==
  LET affordable   == in[1] > in[2]
      withinPolicy == t.cap > in[2]
  IN  Select(affordable, Select(withinPolicy, CONF_STRONG, CONF_MEDIUM), CONF_LOW)

\* What the TEE computes for the output out ("action" or "confidence")
Outcome(kind, out, in, t) ==
  CASE kind = "treasury" /\ out = "action"     -> TreasuryAction(in, t)
    [] kind = "treasury" /\ out = "confidence" -> TreasuryConfidence(in, t)
    [] kind = "payroll"  /\ out = "action"     -> PayrollAction(in, t)
    [] kind = "payroll"  /\ out = "confidence" -> PayrollConfidence(in, t)

-----------------------------------------------------------------------------
\* The decision a reader of the contracts' policy comments expects.
Expected(kind, in, t) ==
  IF kind = "treasury"
  THEN CASE in[1] > t.hedge                        -> <<ACTION_HEDGE, CONF_STRONG>>
         [] in[1] <= t.hedge /\ in[2] > t.signal   -> <<ACTION_ACCUMULATE, CONF_MEDIUM>>
         [] in[1] <= t.hedge /\ in[2] <= t.signal  -> <<ACTION_HOLD, CONF_LOW>>
  ELSE CASE in[2] < in[1] /\ in[2] < t.cap         -> <<ACTION_APPROVE, CONF_STRONG>>
         [] in[2] < in[1] /\ in[2] >= t.cap        -> <<ACTION_DEFER, CONF_MEDIUM>>
         [] in[2] >= in[1]                         -> <<ACTION_REJECT, CONF_LOW>>
=============================================================================
