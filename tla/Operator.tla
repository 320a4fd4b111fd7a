------------------------------ MODULE Operator ------------------------------
(***************************************************************************)
(* The operator's gas: it pays for the decision and the settlement of      *)
(* every call and for its metering, and the gas guard of cde-api turns     *)
(* calls away while it is low, judging by a cached balance.  (Guards has   *)
(* the other guards, and what a cached balance is worth in time.)          *)
(*                                                                         *)
(* A member of Slots makes one call after the other.  Gas is counted in    *)
(* transactions.  Times are ages, so that calls can go on for ever.        *)
(***************************************************************************)
EXTENDS Naturals, FiniteSets

CONSTANTS Slots,
          MinWei,      \* MIN_GAS_WEI
          MaxBalance,  \* bound: the balance after a refill
          CacheMs,     \* the balance's time in the cache, in ticks
          None

VARIABLES
  balance,
  cached,  \* the cached balance: its age, what it was, and what was spent since it was read
  call     \* call[c]: state, and what it was judged by (as in cached)

vars == <<balance, cached, call>>

Ages    == 0..CacheMs + 1  \* the last stands for all above
Older(age)   == IF age > CacheMs THEN age ELSE age + 1
Count(n)     == IF n < MinWei THEN n + 1 ELSE n   \* spent: from MinWei on it makes no difference

Idle == [state |-> "idle", age |-> 0, wei |-> None, spent |-> 0]
Ended == {"refilling", "unpaid", "failed", "unsettled", "delivered"}

Init ==
  /\ balance \in 0..MaxBalance
  /\ cached = None
  /\ call = [c \in Slots |-> Idle]

Goto(c, state) == [call EXCEPT ![c].state = state]

\* Mutant: one transaction less is enough.
VerdictGenerous(wei) == IF wei + 1 < MinWei THEN "refilling" ELSE "passed"

Verdict(wei) == IF wei < MinWei THEN "refilling" ELSE "passed"

\* Mutant: a balance is never read again.
StaleNever == cached = None

Stale == IF cached = None THEN TRUE ELSE cached.age > CacheMs

-----------------------------------------------------------------------------
\* gasGuard
Arrive(c) ==
  /\ call[c].state = "idle"
  /\ call' = [call EXCEPT ![c] =
       IF Stale THEN [Idle EXCEPT !.state = "asking"]
       ELSE [state |-> Verdict(cached.wei), age |-> 0, wei |-> cached.wei, spent |-> cached.spent]]
  /\ UNCHANGED <<balance, cached>>

ReadBalance(c) ==
  /\ call[c].state = "asking"
  /\ call' = [call EXCEPT ![c].state = "answering", ![c].wei = balance, ![c].spent = 0]
  /\ UNCHANGED <<balance, cached>>

BalanceAnswered(c) ==
  /\ call[c].state = "answering"
  /\ cached' = [age |-> call[c].age, wei |-> call[c].wei, spent |-> call[c].spent]
  /\ call' = [call EXCEPT ![c].state = Verdict(call[c].wei), ![c].age = 0]
  /\ UNCHANGED balance

\* The read throws: the call goes ahead, judged by nothing.
BalanceFailed(c) ==
  /\ call[c].state \in {"asking", "answering"}
  /\ call' = [call EXCEPT ![c] = [Idle EXCEPT !.state = "passed"]]
  /\ UNCHANGED <<balance, cached>>

-----------------------------------------------------------------------------
\* A transaction of c: sent if its gas is covered, and spent as everybody else sees it.
Spend(c, next) ==
  /\ balance > 0 /\ balance' = balance - 1
  /\ cached' = IF cached = None THEN None ELSE [cached EXCEPT !.spent = Count(@)]
  /\ call' = [d \in Slots |->
       IF d = c THEN [call[d] EXCEPT !.state = next]
       ELSE IF call[d].wei = None THEN call[d] ELSE [call[d] EXCEPT !.spent = Count(@)]]

\* The gate answers 402 to the request without a payment; one with a payment decides.
Unpaid(c) ==
  /\ call[c].state = "passed" /\ call' = Goto(c, "unpaid")
  /\ UNCHANGED <<balance, cached>>

Decide(c) ==
  /\ call[c].state = "passed"
  /\ \/ Spend(c, "decided")
     \/ balance = 0 /\ call' = Goto(c, "failed") /\ UNCHANGED <<balance, cached>>

\* The settlement, and its metering; without gas the latter is skipped.
Settle(c) ==
  /\ call[c].state = "decided"
  /\ \/ Spend(c, "metering")
     \/ balance = 0 /\ call' = Goto(c, "unsettled") /\ UNCHANGED <<balance, cached>>

MeterPayment(c) ==
  /\ call[c].state = "metering"
  /\ \/ Spend(c, "delivered")
     \/ balance = 0 /\ call' = Goto(c, "delivered") /\ UNCHANGED <<balance, cached>>

-----------------------------------------------------------------------------
\* The client's next call
Again(c) ==
  /\ call[c].state \in Ended /\ call' = [call EXCEPT ![c] = Idle]
  /\ UNCHANGED <<balance, cached>>

Refill ==
  /\ balance' \in (balance + 1)..MaxBalance
  /\ UNCHANGED <<cached, call>>

Tick ==
  /\ cached' = IF cached = None THEN None ELSE [cached EXCEPT !.age = Older(@)]
  /\ call' = [c \in Slots |-> IF call[c].state \in {"asking", "answering"}
                              THEN [call[c] EXCEPT !.age = Older(@)] ELSE call[c]]
  /\ UNCHANGED balance

Answered(c) == BalanceAnswered(c) \/ BalanceFailed(c)

Next ==
  \/ \E c \in Slots :
       \/ Arrive(c) \/ ReadBalance(c) \/ Answered(c)
       \/ Unpaid(c) \/ Decide(c) \/ Settle(c) \/ MeterPayment(c) \/ Again(c)
  \/ Refill \/ Tick

Spec == Init /\ [][Next]_vars

\* Time passes, and a read is answered or fails (viem gives up in the end).
FairSpec == Spec /\ WF_vars(Tick) /\ \A c \in Slots : WF_vars(ReadBalance(c) \/ Answered(c))

-----------------------------------------------------------------------------
\* What the proofs assume: amounts and times are numbers.
GasAssumption == {MinWei, MaxBalance, CacheMs} \subseteq Nat /\ None \notin Nat

\* Types; nothing is spent that is not there.
TypeOK ==
  /\ balance \in 0..MaxBalance
  /\ cached # None => cached.age \in Ages /\ cached.wei \in 0..MaxBalance /\ cached.spent \in 0..MinWei
  /\ \A c \in Slots :
       /\ call[c].state \in Ended \cup {"idle", "asking", "answering", "passed", "decided", "metering"}
       /\ call[c].age \in Ages /\ call[c].spent \in 0..MinWei
       /\ call[c].wei # None => call[c].wei \in 0..MaxBalance

\* "degrade gracefully (a clear 503) instead of failing mid-decision", as far as it holds: a
\* call that was judged by a balance and then fails for want of gas is one of several that
\* shared it, others having spent at least MinWei less its own two transactions.
FailsOnlyWhenOthersSpent ==
  \A c \in Slots : call[c].wei # None =>
    /\ call[c].state = "failed"    => call[c].spent >= MinWei
    /\ call[c].state = "unsettled" => call[c].spent >= MinWei - 1

\* The guard follows the balance: once there is enough for good it comes to turn nobody away,
\* and once there is too little for good it comes to let nobody through on a balance, however
\* slow and out of order the answers were before.
TurnsAway(c)  == call[c].state # "refilling" /\ call'[c].state = "refilling"
LetsIn(c)     == call[c].state # "passed" /\ call'[c].state = "passed" /\ call'[c].wei # None
FollowsTheBalance ==
  /\ <>[](balance >= MinWei) => <>[][\A c \in Slots : ~TurnsAway(c)]_vars
  /\ <>[](balance < MinWei)  => <>[][\A c \in Slots : ~LetsIn(c)]_vars
=============================================================================
