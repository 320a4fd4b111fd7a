------------------------------- MODULE Guards -------------------------------
(***************************************************************************)
(* The guardrails of the public endpoint (cde-api/guards.ts): a per-IP     *)
(* fixed-window rate limit, a daily cap over all callers, and a gas guard  *)
(* that refuses calls while the operator's balance is low.  A request goes *)
(* through the three in this order before it reaches the x402 gate.  The   *)
(* first two are synchronous; the gas guard reads the balance over RPC,    *)
(* caches it, and lets other requests in while it waits.                   *)
(*                                                                         *)
(* calls[i] is the i-th request.  A "probe" is the unpaid request by which *)
(* a client learns the price (it is answered 402), a "paid" one carries    *)
(* the payment.                                                            *)
(***************************************************************************)
EXTENDS Naturals, Sequences, FiniteSets

CONSTANTS IPs,
          Kinds,       \* the kinds of request made: "probe", "paid"
          PerMin,      \* RATE_LIMIT_PER_MIN, 0 if off
          Cap,         \* DAILY_CALL_CAP, 0 if off
          Window,      \* the rate limit's minute, in ticks
          CacheMs,     \* the balance's time in the cache, in ticks
          DayLength,   \* a day, in ticks
          MaxTime,     \* bound: ticks
          MaxCalls,    \* bound: requests
          None         \* no entry, no balance

ASSUME NumbersAssumption ==
  /\ Kinds \subseteq {"probe", "paid"}
  /\ PerMin \in Nat /\ Cap \in Nat /\ Window \in Nat /\ CacheMs \in Nat
  /\ DayLength \in Nat \ {0}
  /\ MaxTime \in Nat /\ MaxCalls \in Nat
  /\ None \notin [count : Nat, resetAt : Nat]

VARIABLES
  now,
  hits,       \* hits[ip]: the window's count and its end, or None
  day, count, \* the daily cap's current day and its count
  cached,     \* the cached balance: when it was asked for and what it was, or None
  balance,    \* the operator's balance, against the minimum
  calls

vars == <<now, hits, day, count, cached, balance, calls>>

Balances == {"low", "enough"}
Times    == 0..MaxTime
Today    == now \div DayLength

Init ==
  /\ now = 0
  /\ hits = [ip \in IPs |-> None]
  /\ day = 0
  /\ count = 0
  /\ cached = None
  /\ balance \in Balances
  /\ calls = << >>

-----------------------------------------------------------------------------
\* rateLimit
\* Mutant: the window's last moment opens the next one.
NewWindowAtEnd(ip) == hits[ip] = None \/ now >= hits[ip].resetAt

NewWindow(ip)   == hits[ip] = None \/ now > hits[ip].resetAt
RateLimited(ip) == PerMin > 0 /\ ~NewWindow(ip) /\ hits[ip].count >= PerMin

Hit(ip) ==
  IF PerMin = 0 THEN hits[ip]
  ELSE IF NewWindow(ip) THEN [count |-> 1, resetAt |-> now + Window]
  ELSE [hits[ip] EXCEPT !.count = @ + 1]

\* dailyCap: a new day starts a new count
CountToday == IF Today = day THEN count ELSE 0

\* Mutant: one request too many per day.
CappedLate == Cap > 0 /\ CountToday > Cap

Capped == Cap > 0 /\ CountToday >= Cap

\* gasGuard: a balance asked for no longer than CacheMs ago is used as it is.
\* A balance carries the time it was read at, which no code sees.
Stale      == cached = None \/ now - cached.at > CacheMs
Verdict(w) == IF w = "low" THEN "refilling" ELSE "passed"

Outcome(ip, kind, state, wei, readAt) ==
  [ip |-> ip, kind |-> kind, at |-> now, state |-> state, wei |-> wei, readAt |-> readAt]
Arrived(call) == calls' = Append(calls, call)

-----------------------------------------------------------------------------
Limited(ip, kind) ==
  /\ RateLimited(ip)
  /\ Arrived(Outcome(ip, kind, "limited", None, None))
  /\ UNCHANGED <<now, hits, day, count, cached, balance>>

\* A request the cap refuses has used up its place in the rate limit.
OverCap(ip, kind) ==
  /\ ~RateLimited(ip) /\ Capped
  /\ hits' = [hits EXCEPT ![ip] = Hit(ip)]
  /\ day' = Today /\ count' = CountToday
  /\ Arrived(Outcome(ip, kind, "capped", None, None))
  /\ UNCHANGED <<now, cached, balance>>

\* A request that gets to the gas guard has used up both.
ReachGasGuard(ip, kind) ==
  /\ ~RateLimited(ip) /\ ~Capped
  /\ hits' = [hits EXCEPT ![ip] = Hit(ip)]
  /\ IF Cap = 0 THEN UNCHANGED <<day, count>> ELSE day' = Today /\ count' = CountToday + 1
  /\ IF Stale
     THEN Arrived(Outcome(ip, kind, "asking", None, None))
     ELSE Arrived(Outcome(ip, kind, Verdict(cached.wei), cached.wei, cached.readAt))
  /\ UNCHANGED <<now, cached, balance>>

Arrive(ip, kind) ==
  /\ Len(calls) < MaxCalls
  /\ Limited(ip, kind) \/ OverCap(ip, kind) \/ ReachGasGuard(ip, kind)

\* The RPC node reads the balance; the answer is on its way.
ReadBalance(i) ==
  /\ calls[i].state = "asking"
  /\ calls' = [calls EXCEPT ![i].state = "answering", ![i].wei = balance, ![i].readAt = now]
  /\ UNCHANGED <<now, hits, day, count, cached, balance>>

\* Mutant: the cache entry is dated by the answer instead of the question.
BalanceAnsweredDatedNow(i) ==
  /\ calls[i].state = "answering"
  /\ cached' = [at |-> now, wei |-> calls[i].wei, readAt |-> calls[i].readAt]
  /\ calls' = [calls EXCEPT ![i].state = Verdict(calls[i].wei)]
  /\ UNCHANGED <<now, hits, day, count, balance>>

\* The await returns: the balance is cached as of the moment it was asked for, over
\* whatever another request has cached meanwhile.
BalanceAnswered(i) ==
  /\ calls[i].state = "answering"
  /\ cached' = [at |-> calls[i].at, wei |-> calls[i].wei, readAt |-> calls[i].readAt]
  /\ calls' = [calls EXCEPT ![i].state = Verdict(calls[i].wei)]
  /\ UNCHANGED <<now, hits, day, count, balance>>

\* The read throws: the request goes ahead.
BalanceFailed(i) ==
  /\ calls[i].state \in {"asking", "answering"}
  /\ calls' = [calls EXCEPT ![i].state = "passed", ![i].wei = None, ![i].readAt = None]
  /\ UNCHANGED <<now, hits, day, count, cached, balance>>

Tick ==
  /\ now < MaxTime
  /\ now' = now + 1
  /\ UNCHANGED <<hits, day, count, cached, balance, calls>>

\* Decisions and settlements spend gas; the operator refills.
BalanceChanges ==
  /\ balance' \in Balances \ {balance}
  /\ UNCHANGED <<now, hits, day, count, cached, calls>>

Next ==
  \/ \E ip \in IPs, kind \in Kinds : Arrive(ip, kind)
  \/ \E i \in 1..Len(calls) : ReadBalance(i) \/ BalanceAnswered(i) \/ BalanceFailed(i)
  \/ Tick
  \/ BalanceChanges

Spec == Init /\ [][Next]_vars

-----------------------------------------------------------------------------
Call == [ip : IPs, kind : Kinds, at : Times,
         state : {"limited", "capped", "refilling", "asking", "answering", "passed"},
         wei : Balances \cup {None}, readAt : Times \cup {None}]

TypeOK ==
  /\ now \in Times
  /\ hits \in [IPs -> [count : 1..PerMin, resetAt : Nat] \cup {None}]
  /\ day \in Nat /\ count \in 0..Cap
  /\ cached \in [at : Times, wei : Balances, readAt : Times] \cup {None}
  /\ balance \in Balances
  /\ calls \in Seq(Call)

\* The requests of ip that the rate limit let through between t and t + Window
Admitted(ip, t) ==
  {i \in 1..Len(calls) : /\ calls[i].ip = ip /\ calls[i].state # "limited"
                         /\ calls[i].at \in t..(t + Window)}

\* A fixed window restarts on the first request after its end, so a minute can straddle
\* two windows.  It never holds all of both, since the request that opened the first is
\* more than a minute older than the one that opened the second: in ANY minute fewer than
\* twice perMin requests of a caller are let through, and 2 * perMin - 1 may be.
FewerThanTwicePerMin ==
  PerMin > 0 => \A ip \in IPs, t \in Times : Cardinality(Admitted(ip, t)) <= 2 * PerMin - 1

\* No more requests than the cap get past it on one day, also when the day turns while
\* balances are being read.
CapPerDay ==
  Cap > 0 => \A d \in 0..Today :
    Cardinality({i \in 1..Len(calls) : /\ calls[i].at \div DayLength = d
                                       /\ calls[i].state \notin {"limited", "capped"}}) <= Cap

\* Whatever the order in which slow balance reads come back and overwrite the cache, a
\* request is judged by a balance that was read at most CacheMs before it arrived.
JudgedByFreshBalance ==
  \A i \in 1..Len(calls) :
    calls[i].readAt # None => calls[i].readAt + CacheMs >= calls[i].at

-----------------------------------------------------------------------------
\* "allows ${perMin} paid decisions/min per IP" (the 429's message): a caller is turned
\* away only after perMin paid requests in the window.
LimitedOnlyAfterPaidDecisions ==
  \A i \in 1..Len(calls) : calls[i].state = "limited" =>
    Cardinality({j \in 1..i : /\ calls[j].ip = calls[i].ip /\ calls[j].kind = "paid"
                              /\ calls[j].state # "limited"}) >= PerMin
=============================================================================
