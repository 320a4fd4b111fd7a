---------------------------- MODULE GuardsProofs ----------------------------
(***************************************************************************)
(* The guards' bounds hold for any number of callers, any limits, cache    *)
(* time, length of the window and of the day.                              *)
(*                                                                         *)
(* FreshInv dates balances by what they were asked for.  DayInv counts the *)
(* requests of each day, and WindowInv those of a caller's window and of   *)
(* as long a time before it: a minute reaches into no third window,        *)
(* because each begins after the one before has ended, and of that one it  *)
(* misses the request that opened it.  QuotaInv says the converse, that    *)
(* the window counts nothing else, and so what a caller that is turned     *)
(* away can have been turned away for.                                     *)
(***************************************************************************)
EXTENDS Guards, Integers, FiniteSetTheorems, TLAPS

\* An answer on its way, and what is cached of one, is no older than its question.
FreshInv ==
  /\ cached # None => cached.readAt >= cached.at
  /\ \A i \in 1..Len(calls) :
       /\ calls[i].at <= now
       /\ calls[i].state = "answering" =>
            calls[i].wei \in Balances /\ calls[i].readAt \in Times /\ calls[i].readAt >= calls[i].at
  /\ JudgedByFreshBalance

\* The requests of day d that got past the cap
OnDay(d) == {i \in 1..Len(calls) : /\ calls[i].at \div DayLength = d
                                   /\ calls[i].state \notin {"limited", "capped"}}

DayInv ==
  Cap > 0 =>
    /\ day <= Today
    /\ \A d \in Nat : Cardinality(OnDay(d)) <= IF d < day THEN Cap ELSE IF d = day THEN count ELSE 0

\* The requests of ip that the rate limit let through, and those of them from a to b
LetThrough(ip)    == {i \in 1..Len(calls) : calls[i].ip = ip /\ calls[i].state # "limited"}
Between(ip, a, b) == {i \in LetThrough(ip) : a <= calls[i].at /\ calls[i].at <= b}

Opened(ip) == hits[ip].resetAt - Window

InWindow(ip) ==
  /\ Opened(ip) <= now
  /\ \A i \in LetThrough(ip) : calls[i].at <= hits[ip].resetAt
  /\ Cardinality(Between(ip, Opened(ip), hits[ip].resetAt)) <= hits[ip].count
  /\ Cardinality(Between(ip, Opened(ip) + 1, hits[ip].resetAt)) < hits[ip].count
  /\ Cardinality(Between(ip, Opened(ip) - Window, Opened(ip) - 1)) < PerMin

WindowsOf(ip) ==
  /\ hits[ip] = None => LetThrough(ip) = {}
  /\ hits[ip] # None => InWindow(ip)
  /\ \A t \in Times : Cardinality(Between(ip, t, t + Window)) <= 2 * PerMin - 1

WindowInv == PerMin > 0 => \A ip \in IPs : WindowsOf(ip)

-----------------------------------------------------------------------------
(***************************************************************************)
(* Arithmetic and counting                                                 *)
(***************************************************************************)

\* Days are numbers, and follow each other.
LEMMA DaysPass ==
  ASSUME NEW n \in Nat
  PROVE  /\ n \div DayLength \in Nat
         /\ n \div DayLength <= (n + 1) \div DayLength
         /\ 0 \div DayLength = 0
BY NumbersAssumption

\* Requests are finitely many.
LEMMA RequestsAreFinite ==
  ASSUME TypeOK, NEW S \in SUBSET (1..Len(calls))
  PROVE  IsFiniteSet(S) /\ Cardinality(S) \in Nat /\ Len(calls) \in Nat
<1>1. Len(calls) \in Nat
  BY DEF TypeOK
<1>2. IsFiniteSet(1..Len(calls))
  BY <1>1, FS_Interval
<1> QED
  BY <1>1, <1>2, FS_Subset, FS_CardinalityType

\* Fewer requests count less.
LEMMA SubsetsCountLess ==
  ASSUME TypeOK, NEW T \in SUBSET (1..Len(calls)), NEW S \in SUBSET T
  PROVE  Cardinality(S) <= Cardinality(T)
BY RequestsAreFinite, FS_Subset

\* One request more counts one more at most.
LEMMA OneMoreCountsOne ==
  ASSUME TypeOK, NEW S \in SUBSET (1..Len(calls)), NEW x
  PROVE  Cardinality(S \cup {x}) <= Cardinality(S) + 1
BY RequestsAreFinite, FS_AddElement

\* A part of two sets counts no more than both.
LEMMA PartsCountTogether ==
  ASSUME NEW S, NEW T, NEW U, IsFiniteSet(S), IsFiniteSet(T), U \subseteq S \cup T
  PROVE  Cardinality(U) <= Cardinality(S) + Cardinality(T)
<1>1. /\ IsFiniteSet(S \cup T) /\ IsFiniteSet(S \cap T)
      /\ Cardinality(S \cup T) = Cardinality(S) + Cardinality(T) - Cardinality(S \cap T)
  BY FS_Union, FS_Intersection
<1>2. Cardinality(U) <= Cardinality(S \cup T)
  BY <1>1, FS_Subset
<1>3. /\ Cardinality(S) \in Nat /\ Cardinality(T) \in Nat /\ Cardinality(S \cap T) \in Nat
      /\ Cardinality(S \cup T) \in Nat /\ Cardinality(U) \in Nat
  BY <1>1, FS_CardinalityType, FS_Subset
<1> QED
  BY <1>1, <1>2, <1>3

-----------------------------------------------------------------------------
(***************************************************************************)
(* What steps do to requests                                               *)
(***************************************************************************)

\* A request arrives at the end.
LEMMA ArrivalIsAppended ==
  ASSUME TypeOK, NEW c \in Call, Arrived(c)
  PROVE  /\ calls' \in Seq(Call) /\ Len(calls) \in Nat /\ Len(calls') = Len(calls) + 1
         /\ calls'[Len(calls) + 1] = c
         /\ \A i \in 1..Len(calls) : calls'[i] = calls[i] /\ calls[i] \in Call
         /\ \A i \in 1..Len(calls') : i \in 1..Len(calls) \/ i = Len(calls) + 1
<1>1. calls \in Seq(Call) /\ calls' = Append(calls, c)
  BY DEF TypeOK, Arrived
<1> HIDE DEF Call
<1>2. /\ calls' \in Seq(Call) /\ Len(calls) \in Nat /\ Len(calls') = Len(calls) + 1
      /\ calls'[Len(calls) + 1] = c
      /\ \A i \in 1..Len(calls) : calls'[i] = calls[i] /\ calls[i] \in Call
  BY <1>1
<1> QED
  BY <1>2

\* What a step says of a request that is under way
SameRequests ==
  /\ Len(calls') = Len(calls)
  /\ \A i \in 1..Len(calls) :
       /\ calls'[i].ip = calls[i].ip /\ calls'[i].at = calls[i].at
       /\ calls'[i].state = "limited" <=> calls[i].state = "limited"
       /\ calls'[i].state \in {"limited", "capped"} <=> calls[i].state \in {"limited", "capped"}

\* Requests are well typed at any time.
LEMMA RequestsAreCalls ==
  ASSUME TypeOK, NEW i \in 1..Len(calls)
  PROVE  calls[i] \in Call
<1>1. calls \in Seq(Call)
  BY DEF TypeOK
<1> HIDE DEF Call
<1> QED
  BY <1>1

\* A request's balance is read, answered, or fails to be: ip, time and admission stay.
LEMMA ReadsKeepRequests ==
  ASSUME TypeOK, NEW i \in 1..Len(calls), ReadBalance(i) \/ BalanceAnswered(i) \/ BalanceFailed(i)
  PROVE  /\ SameRequests /\ calls' \in Seq(Call)
         /\ \A j \in 1..Len(calls) : j # i => calls'[j] = calls[j]
<1>1. calls[i] \in Call /\ calls \in Seq(Call)
  BY RequestsAreCalls DEF TypeOK
<1>2. PICK c \in Call :
        /\ calls' = [calls EXCEPT ![i] = c]
        /\ c.ip = calls[i].ip /\ c.at = calls[i].at
        /\ c.state \in {"answering", "refilling", "passed"}
  <2>1. CASE ReadBalance(i)
    <3> DEFINE c == [calls[i] EXCEPT !.state = "answering", !.wei = balance, !.readAt = now]
    <3>1. c \in Call
      BY <1>1 DEF TypeOK, Call
    <3>2. c.ip = calls[i].ip /\ c.at = calls[i].at /\ c.state \in {"answering"}
      BY <1>1 DEF Call
    <3>3. calls' = [calls EXCEPT ![i] = c]
      BY <2>1 DEF ReadBalance
    <3> QED
      BY <3>1, <3>2, <3>3
  <2>2. CASE BalanceAnswered(i)
    <3> DEFINE c == [calls[i] EXCEPT !.state = Verdict(calls[i].wei)]
    <3>1. c \in Call
      BY <1>1 DEF Verdict, Call
    <3>2. c.ip = calls[i].ip /\ c.at = calls[i].at /\ c.state \in {"refilling", "passed"}
      BY <1>1 DEF Verdict, Call
    <3>3. calls' = [calls EXCEPT ![i] = c]
      BY <2>2 DEF BalanceAnswered
    <3> QED
      BY <3>1, <3>2, <3>3
  <2>3. CASE BalanceFailed(i)
    <3> DEFINE c == [calls[i] EXCEPT !.state = "passed", !.wei = None, !.readAt = None]
    <3>1. c \in Call
      BY <1>1 DEF Call
    <3>2. c.ip = calls[i].ip /\ c.at = calls[i].at /\ c.state \in {"passed"}
      BY <1>1 DEF Call
    <3>3. calls' = [calls EXCEPT ![i] = c]
      BY <2>3 DEF BalanceFailed
    <3> QED
      BY <3>1, <3>2, <3>3
  <2> QED
    BY <2>1, <2>2, <2>3
<1>3. calls[i].state \in {"asking", "answering"}
  BY DEF ReadBalance, BalanceAnswered, BalanceFailed
<1>4. /\ calls' \in Seq(Call) /\ Len(calls') = Len(calls) /\ calls'[i] = c
      /\ \A j \in 1..Len(calls) : j # i => calls'[j] = calls[j]
  <2> HIDE DEF Call
  <2> QED
    BY <1>1, <1>2
<1> QED
  BY <1>2, <1>3, <1>4 DEF SameRequests

\* What arrives is a request, of now.
LEMMA ArrivalsAreCalls ==
  ASSUME TypeOK, NEW ip \in IPs, NEW kind \in Kinds, Arrive(ip, kind)
  PROVE  \E c \in Call :
           /\ Arrived(c) /\ c.ip = ip /\ c.at = now
           /\ Limited(ip, kind)       => c.state = "limited" /\ c.readAt = None
           /\ OverCap(ip, kind)       => c.state = "capped" /\ c.readAt = None
           /\ ReachGasGuard(ip, kind) =>
                /\ c.state \in {"asking", "refilling", "passed"}
                /\ c.readAt = IF Stale THEN None ELSE cached.readAt
<1>1. CASE Limited(ip, kind)
  <2>1. Outcome(ip, kind, "limited", None, None) \in Call
    BY NumbersAssumption DEF Outcome, Call, TypeOK
  <2>2. ~OverCap(ip, kind) /\ ~ReachGasGuard(ip, kind)
    BY <1>1 DEF Limited, OverCap, ReachGasGuard
  <2> QED
    BY <1>1, <2>1, <2>2 DEF Limited, Outcome
<1>2. CASE OverCap(ip, kind)
  <2>1. Outcome(ip, kind, "capped", None, None) \in Call
    BY NumbersAssumption DEF Outcome, Call, TypeOK
  <2>2. ~Limited(ip, kind) /\ ~ReachGasGuard(ip, kind)
    BY <1>2 DEF Limited, OverCap, ReachGasGuard
  <2> QED
    BY <1>2, <2>1, <2>2 DEF OverCap, Outcome
<1>3. CASE ReachGasGuard(ip, kind)
  <2>1. ~Limited(ip, kind) /\ ~OverCap(ip, kind)
    BY <1>3 DEF Limited, OverCap, ReachGasGuard
  <2>2. CASE Stale
    <3>1. Outcome(ip, kind, "asking", None, None) \in Call
      BY NumbersAssumption DEF Outcome, Call, TypeOK
    <3> QED
      BY <1>3, <2>1, <2>2, <3>1 DEF ReachGasGuard, Outcome
  <2>3. CASE ~Stale
    <3>1. cached \in [at : Times, wei : Balances, readAt : Times]
      BY <2>3 DEF Stale, TypeOK
    <3>2. Outcome(ip, kind, Verdict(cached.wei), cached.wei, cached.readAt) \in Call
      BY NumbersAssumption, <3>1 DEF Outcome, Call, TypeOK, Verdict
    <3> QED
      BY <1>3, <2>1, <2>3, <3>2 DEF ReachGasGuard, Outcome, Verdict
  <2> QED
    BY <2>2, <2>3
<1> QED
  BY <1>1, <1>2, <1>3 DEF Arrive

-----------------------------------------------------------------------------
(***************************************************************************)
(* Types and fresh balances                                                *)
(***************************************************************************)

\* A place in the window is one of PerMin.
LEMMA HitsAreTyped ==
  ASSUME TypeOK, NEW ip \in IPs, ~RateLimited(ip)
  PROVE  Hit(ip) \in [count : 1..PerMin, resetAt : Nat] \cup {None}
<1>1. hits[ip] \in [count : 1..PerMin, resetAt : Nat] \cup {None} /\ now \in Nat
  BY NumbersAssumption DEF TypeOK, Times
<1>2. CASE PerMin = 0
  BY <1>1, <1>2 DEF Hit
<1>3. CASE PerMin # 0 /\ NewWindow(ip)
  BY <1>1, <1>3, NumbersAssumption DEF Hit
<1>4. CASE PerMin # 0 /\ ~NewWindow(ip)
  <2>1. hits[ip] \in [count : 1..PerMin, resetAt : Nat] /\ hits[ip].count < PerMin
    BY <1>1, <1>4, NumbersAssumption DEF NewWindow, RateLimited
  <2>2. [hits[ip] EXCEPT !.count = @ + 1] \in [count : 1..PerMin, resetAt : Nat]
    BY <2>1, NumbersAssumption
  <2> QED
    BY <1>4, <2>2 DEF Hit
<1> QED
  BY <1>2, <1>3, <1>4

\* Types are kept.
LEMMA TypeStep == ASSUME TypeOK, FreshInv, [Next]_vars PROVE TypeOK'
<1>1. now \in Nat /\ Today \in Nat
  BY DaysPass, NumbersAssumption DEF TypeOK, Times, Today
<1>2. ASSUME NEW ip \in IPs, NEW kind \in Kinds, Arrive(ip, kind)
      PROVE  TypeOK'
  <2>1. calls' \in Seq(Call)
    BY <1>2, ArrivalsAreCalls, ArrivalIsAppended
  <2>2. hits' \in [IPs -> [count : 1..PerMin, resetAt : Nat] \cup {None}]
    BY <1>2, HitsAreTyped DEF Arrive, Limited, OverCap, ReachGasGuard, TypeOK
  <2>3. day' \in Nat /\ count' \in 0..Cap
    BY <1>1, <1>2, NumbersAssumption
       DEF Arrive, Limited, OverCap, ReachGasGuard, TypeOK, CountToday, Capped
  <2>4. UNCHANGED <<now, cached, balance>>
    BY <1>2 DEF Arrive, Limited, OverCap, ReachGasGuard
  <2> QED
    BY <2>1, <2>2, <2>3, <2>4 DEF TypeOK, Times
<1>3. ASSUME NEW i \in 1..Len(calls), ReadBalance(i) \/ BalanceAnswered(i) \/ BalanceFailed(i)
      PROVE  TypeOK'
  <2>1. calls' \in Seq(Call)
    BY <1>3, ReadsKeepRequests
  <2>2. cached' \in [at : Times, wei : Balances, readAt : Times] \cup {None}
    <3>1. CASE UNCHANGED cached
      BY <3>1 DEF TypeOK
    <3>2. CASE BalanceAnswered(i)
      <4>1. calls[i].at \in Times
        BY RequestsAreCalls DEF Call
      <4>2. calls[i].wei \in Balances /\ calls[i].readAt \in Times
        BY <3>2 DEF BalanceAnswered, FreshInv
      <4> QED
        BY <3>2, <4>1, <4>2 DEF BalanceAnswered
    <3> QED
      BY <1>3, <3>1, <3>2 DEF ReadBalance, BalanceFailed
  <2> QED
    BY <1>3, <2>1, <2>2 DEF TypeOK, Times, ReadBalance, BalanceAnswered, BalanceFailed
<1>4. CASE Tick
  BY <1>4, NumbersAssumption DEF Tick, TypeOK, Times
<1>5. CASE BalanceChanges
  BY <1>5 DEF BalanceChanges, TypeOK, Times
<1>6. CASE UNCHANGED vars
  BY <1>6 DEF vars, TypeOK, Times
<1> QED
  BY <1>2, <1>3, <1>4, <1>5, <1>6 DEF Next

\* Balances are as fresh after a step.
LEMMA FreshStep == ASSUME TypeOK, FreshInv, [Next]_vars PROVE FreshInv'
<1>1. now \in Nat /\ CacheMs \in Nat
  BY NumbersAssumption DEF TypeOK, Times
<1>2. ASSUME NEW ip \in IPs, NEW kind \in Kinds, Arrive(ip, kind)
      PROVE  FreshInv'
  <2>1. UNCHANGED <<now, cached, balance>>
    BY <1>2 DEF Arrive, Limited, OverCap, ReachGasGuard
  <2>2. PICK c \in Call :
          /\ Arrived(c) /\ c.at = now /\ c.state # "answering"
          /\ c.readAt # None => ~Stale /\ c.readAt = cached.readAt
    <3>1. Limited(ip, kind) \/ OverCap(ip, kind) \/ ReachGasGuard(ip, kind)
      BY <1>2 DEF Arrive
    <3> QED
      BY <1>2, <3>1, ArrivalsAreCalls
  <2>3. c.readAt # None => c.readAt + CacheMs >= c.at
    <3>1. ~Stale => /\ cached.at \in Nat /\ cached.readAt \in Nat /\ cached.readAt >= cached.at
                    /\ now - cached.at <= CacheMs
      BY <1>1, NumbersAssumption DEF Stale, TypeOK, Times, FreshInv
    <3> QED
      BY <1>1, <2>2, <3>1
  <2>4. ASSUME NEW i \in 1..Len(calls')
        PROVE  /\ calls'[i].at <= now
               /\ calls'[i].state = "answering" =>
                    /\ calls'[i].wei \in Balances /\ calls'[i].readAt \in Times
                    /\ calls'[i].readAt >= calls'[i].at
               /\ calls'[i].readAt # None => calls'[i].readAt + CacheMs >= calls'[i].at
    <3>1. CASE i \in 1..Len(calls)
      BY <2>2, <3>1, ArrivalIsAppended DEF FreshInv, JudgedByFreshBalance
    <3>2. CASE i = Len(calls) + 1
      BY <1>1, <2>2, <2>3, <3>2, ArrivalIsAppended
    <3> QED
      BY <2>2, <2>4, <3>1, <3>2, ArrivalIsAppended
  <2> QED
    BY <2>1, <2>4 DEF FreshInv, JudgedByFreshBalance, Times
<1>3. ASSUME NEW i \in 1..Len(calls), ReadBalance(i) \/ BalanceAnswered(i) \/ BalanceFailed(i)
      PROVE  FreshInv'
  <2>1. /\ calls[i] \in Call /\ now' = now /\ calls[i].at \in Nat /\ calls[i].at <= now
        /\ Len(calls') = Len(calls) /\ \A j \in 1..Len(calls) : j # i => calls'[j] = calls[j]
    <3>1. calls[i] \in Call /\ calls[i].at \in Nat
      BY RequestsAreCalls DEF Call, Times
    <3>2. now' = now /\ calls[i].at <= now
      BY <1>3 DEF FreshInv, ReadBalance, BalanceAnswered, BalanceFailed
    <3>3. Len(calls') = Len(calls) /\ \A j \in 1..Len(calls) : j # i => calls'[j] = calls[j]
      BY <1>3, ReadsKeepRequests DEF SameRequests
    <3> QED
      BY <3>1, <3>2, <3>3
  <2>2. calls \in Seq(Call)
    BY DEF TypeOK
  <2>3. /\ calls'[i].at = calls[i].at
        /\ calls'[i].state = "answering" =>
             /\ calls'[i].wei \in Balances /\ calls'[i].readAt = now
             /\ cached' = cached
        /\ calls'[i].readAt # None => calls'[i].readAt \in Nat /\ calls'[i].readAt >= calls[i].at
    <3>1. CASE ReadBalance(i)
      BY <1>1, <2>1, <2>2, <3>1 DEF ReadBalance, TypeOK
    <3>2. CASE BalanceAnswered(i)
      BY <2>1, <2>2, <3>2 DEF BalanceAnswered, Verdict, FreshInv, Times
    <3>3. CASE BalanceFailed(i)
      BY <2>1, <2>2, <3>3 DEF BalanceFailed
    <3> QED
      BY <1>3, <3>1, <3>2, <3>3
  <2>4. cached' # None => cached'.readAt >= cached'.at
    <3>1. CASE BalanceAnswered(i)
      BY <3>1 DEF BalanceAnswered, FreshInv
    <3>2. CASE UNCHANGED cached
      BY <3>2 DEF FreshInv
    <3> QED
      BY <1>3, <3>1, <3>2 DEF ReadBalance, BalanceFailed
  <2>5. now \in Times
    BY DEF TypeOK
  <2> QED
    BY <1>1, <2>1, <2>3, <2>4, <2>5 DEF FreshInv, JudgedByFreshBalance, Times
<1>4. CASE Tick
  <2>1. \A i \in 1..Len(calls) : calls[i].at \in Nat
    BY RequestsAreCalls DEF Call, Times
  <2> QED
    BY <1>1, <1>4, <2>1 DEF Tick, FreshInv, JudgedByFreshBalance, Times
<1>5. CASE BalanceChanges
  BY <1>5 DEF BalanceChanges, FreshInv, JudgedByFreshBalance, Times, Balances
<1>6. CASE UNCHANGED vars
  BY <1>6 DEF vars, FreshInv, JudgedByFreshBalance, Times, Balances
<1> QED
  BY <1>2, <1>3, <1>4, <1>5, <1>6 DEF Next

-----------------------------------------------------------------------------
(***************************************************************************)
(* The day's cap                                                           *)
(***************************************************************************)

\* What a step says of the requests of ip that it does not add to
SameFor(ip) ==
  /\ LetThrough(ip)' = LetThrough(ip)
  /\ \A i \in LetThrough(ip) : calls'[i].at = calls[i].at

\* What is counted of requests stays as it is while they are answered, and when nothing happens.
LEMMA CountsStay ==
  ASSUME SameRequests \/ UNCHANGED calls
  PROVE  (\A d : OnDay(d)' = OnDay(d)) /\ \A ip : SameFor(ip)
<1>1. ASSUME NEW d PROVE OnDay(d)' = OnDay(d)
  BY DEF SameRequests, OnDay
<1>2. ASSUME NEW ip PROVE SameFor(ip)
  BY DEF SameRequests, LetThrough, SameFor
<1> QED
  BY <1>1, <1>2

\* What a step that lets no request past the cap leaves
LEMMA DayStays ==
  ASSUME TypeOK, DayInv, UNCHANGED <<day, count>>, Today' \in Nat, Today' >= Today,
         \A d : OnDay(d)' = OnDay(d)
  PROVE  DayInv'
<1>1. Today \in Nat /\ day \in Nat
  BY DaysPass DEF TypeOK, Times, Today
<1> QED
  BY <1>1 DEF DayInv

\* The counter bounds the requests of its day, and the cap those of the days before.
LEMMA DayStep == ASSUME TypeOK, DayInv, [Next]_vars PROVE DayInv'
<1>1. now \in Nat /\ Today \in Nat /\ day \in Nat /\ count \in 0..Cap /\ Cap \in Nat
  BY DaysPass, NumbersAssumption DEF TypeOK, Times, Today
<1>2. UNCHANGED now => Today' = Today
  BY DEF Today
<1>3. ASSUME NEW ip \in IPs, NEW kind \in Kinds, Arrive(ip, kind)
      PROVE  DayInv'
  <2>1. now' = now /\ Today' = Today
    BY <1>2, <1>3 DEF Arrive, Limited, OverCap, ReachGasGuard
  <2>2. PICK c \in Call :
          /\ Arrived(c) /\ c.at = now
          /\ Limited(ip, kind) => c.state = "limited"
          /\ OverCap(ip, kind) => c.state = "capped"
          /\ ReachGasGuard(ip, kind) => c.state \in {"asking", "refilling", "passed"}
    BY <1>3, ArrivalsAreCalls
  <2>3. /\ Len(calls) \in Nat /\ Len(calls') = Len(calls) + 1 /\ calls'[Len(calls) + 1] = c
        /\ \A i \in 1..Len(calls) : calls'[i] = calls[i]
    BY <2>2, ArrivalIsAppended
  <2>4. ASSUME c.state \in {"limited", "capped"}, NEW d
        PROVE  OnDay(d)' = OnDay(d)
    BY <2>3, <2>4 DEF OnDay
  <2>5. CASE Limited(ip, kind)
    BY <1>1, <2>1, <2>2, <2>4, <2>5, DayStays DEF Limited
  <2>6. ASSUME Cap > 0
        PROVE  \A d \in Nat : Cardinality(OnDay(d)) <=
                 IF d < Today THEN Cap ELSE IF d = Today THEN CountToday ELSE 0
    <3>1. \A d \in Nat : Cardinality(OnDay(d)) \in Nat
      BY RequestsAreFinite DEF OnDay
    <3>2. /\ day <= Today
          /\ \A d \in Nat : Cardinality(OnDay(d)) <= IF d < day THEN Cap ELSE IF d = day THEN count ELSE 0
      BY <2>6 DEF DayInv
    <3>3. CountToday = IF Today = day THEN count ELSE 0
      BY DEF CountToday
    <3> TAKE d \in Nat
    <3>4. CASE d < day
      BY <1>1, <3>1, <3>2, <3>3, <3>4
    <3>5. CASE d = day
      BY <1>1, <3>1, <3>2, <3>3, <3>5
    <3>6. CASE d > day
      BY <1>1, <2>6, <3>1, <3>2, <3>3, <3>6
    <3> QED
      BY <1>1, <3>4, <3>5, <3>6
  <2>7. CASE OverCap(ip, kind)
    BY <1>1, <2>1, <2>2, <2>4, <2>6, <2>7 DEF OverCap, DayInv
  <2>8. CASE ReachGasGuard(ip, kind)
    <3>1. SUFFICES ASSUME Cap > 0
                   PROVE  DayInv'
      BY DEF DayInv
    <3>2. /\ day' = Today /\ count' = CountToday + 1
          /\ CountToday < Cap /\ CountToday \in Nat
      BY <1>1, <2>8, <3>1 DEF ReachGasGuard, Capped, CountToday
    <3>3. ASSUME NEW d \in Nat
          PROVE  OnDay(d)' = IF d = Today THEN OnDay(d) \cup {Len(calls) + 1} ELSE OnDay(d)
      BY <2>2, <2>3, <2>8 DEF OnDay, Today
    <3>4. ASSUME NEW d \in Nat
          PROVE  /\ Cardinality(OnDay(d)) \in Nat
                 /\ Cardinality(OnDay(d)')  \in Nat
                 /\ Cardinality(OnDay(d)') <=
                      IF d = Today THEN Cardinality(OnDay(d)) + 1 ELSE Cardinality(OnDay(d))
      <4>1. OnDay(d) \in SUBSET (1..Len(calls)) /\ Len(calls) \in Nat
        BY <2>3 DEF OnDay
      <4>2. Cardinality(OnDay(d)) \in Nat /\ IsFiniteSet(OnDay(d))
        BY <4>1, RequestsAreFinite
      <4>3. IsFiniteSet(OnDay(d) \cup {Len(calls) + 1})
        BY <4>2, FS_AddElement
      <4>4. Cardinality(OnDay(d) \cup {Len(calls) + 1}) \in Nat
        BY <4>3, FS_CardinalityType
      <4>5. Cardinality(OnDay(d) \cup {Len(calls) + 1}) <= Cardinality(OnDay(d)) + 1
        BY <4>1, OneMoreCountsOne
      <4>6. CASE d = Today
        <5>1. OnDay(d)' = OnDay(d) \cup {Len(calls) + 1}
          BY <3>3, <4>6
        <5> QED
          BY <4>2, <4>4, <4>5, <4>6, <5>1
      <4>7. CASE d # Today
        <5>1. OnDay(d)' = OnDay(d)
          BY <3>3, <4>7
        <5> QED
          BY <4>2, <4>7, <5>1
      <4> QED
        BY <4>6, <4>7
    <3>8. Today' = Today
      BY <2>1
    <3>9. ASSUME NEW d \in Nat
          PROVE  Cardinality(OnDay(d)') <= IF d < day' THEN Cap ELSE IF d = day' THEN count' ELSE 0
      BY <1>1, <2>6, <3>1, <3>2, <3>4
    <3> QED
      BY <1>1, <3>2, <3>8, <3>9 DEF DayInv
  <2> QED
    BY <1>3, <2>5, <2>7, <2>8 DEF Arrive
<1>4. ASSUME NEW i \in 1..Len(calls), ReadBalance(i) \/ BalanceAnswered(i) \/ BalanceFailed(i)
      PROVE  DayInv'
  <2>1. SameRequests
    BY <1>4, ReadsKeepRequests
  <2>2. UNCHANGED <<now, day, count>>
    BY <1>4 DEF ReadBalance, BalanceAnswered, BalanceFailed
  <2> QED
    BY <1>1, <1>2, <2>1, <2>2, CountsStay, DayStays
<1>5. CASE Tick
  <2>1. Today' \in Nat /\ Today' >= Today
    BY <1>1, <1>5, DaysPass DEF Tick, Today
  <2> QED
    BY <1>5, <2>1, CountsStay, DayStays DEF Tick
<1>6. CASE BalanceChanges \/ UNCHANGED vars
  BY <1>1, <1>2, <1>6, CountsStay, DayStays DEF BalanceChanges, vars
<1> QED
  BY <1>3, <1>4, <1>5, <1>6 DEF Next

-----------------------------------------------------------------------------
(***************************************************************************)
(* The minute's limit                                                      *)
(***************************************************************************)

\* Some of n requests are finitely many.
LEMMA SomeAreFinite ==
  ASSUME NEW n \in Nat, NEW S \in SUBSET (1..n)
  PROVE  IsFiniteSet(S) /\ Cardinality(S) \in Nat
<1>1. IsFiniteSet(1..n)
  BY FS_Interval
<1> QED
  BY <1>1, FS_Subset, FS_CardinalityType

\* A caller's windows are as they were when time passes or others make requests.
LEMMA WindowsStay ==
  ASSUME TypeOK, NEW ip \in IPs, WindowsOf(ip), SameFor(ip),
         hits'[ip] = hits[ip], now' \in Nat, now' >= now
  PROVE  WindowsOf(ip)'
<1>1. now \in Nat /\ Window \in Nat /\ (hits[ip] # None => hits[ip].resetAt \in Nat)
  BY NumbersAssumption DEF TypeOK, Times
<1>2. ASSUME NEW a, NEW b PROVE Between(ip, a, b)' = Between(ip, a, b)
  BY DEF SameFor, Between
<1>3. hits[ip] # None => InWindow(ip)'
  BY <1>1, <1>2 DEF WindowsOf, InWindow, Opened, SameFor
<1> QED
  BY <1>2, <1>3 DEF WindowsOf, SameFor, Times

\* A request let through is counted in its window, and a minute that it falls into reaches
\* no further back than the window before.
LEMMA LetThroughStep ==
  ASSUME TypeOK, FreshInv, PerMin > 0, NEW ip \in IPs, WindowsOf(ip), ~RateLimited(ip),
         NEW c \in Call, Arrived(c), c.ip = ip, c.at = now, c.state # "limited",
         hits'[ip] = Hit(ip), now' = now
  PROVE  WindowsOf(ip)'
<1> DEFINE n == Len(calls) + 1
<1>1. /\ now \in Nat /\ Window \in Nat /\ PerMin \in Nat /\ Len(calls) \in Nat /\ Len(calls') \in Nat
      /\ hits[ip] # None => hits[ip].resetAt \in Nat /\ hits[ip].count \in 1..PerMin
  BY NumbersAssumption, ArrivalIsAppended DEF TypeOK, Times
<1>2. /\ LetThrough(ip)' = LetThrough(ip) \cup {n}
      /\ n \notin LetThrough(ip) /\ calls'[n].at = now
      /\ \A i \in LetThrough(ip) : /\ calls'[i].at = calls[i].at /\ calls[i].at \in Nat
                                    /\ calls[i].at <= now
  <2>1. \A i \in 1..Len(calls) : calls'[i] = calls[i] /\ calls[i].at \in Nat /\ calls[i].at <= now
    <3>1. \A i \in 1..Len(calls) : calls'[i] = calls[i]
      BY ArrivalIsAppended
    <3>2. \A i \in 1..Len(calls) : calls[i].at \in Nat
      BY RequestsAreCalls DEF Call, Times
    <3> QED
      BY <3>1, <3>2 DEF FreshInv
  <2>2. Len(calls') = n /\ calls'[n] = c /\ n \notin 1..Len(calls) /\ 1..n = 1..Len(calls) \cup {n}
    BY <1>1, ArrivalIsAppended
  <2> QED
    BY <2>1, <2>2 DEF LetThrough
<1>3. PICK t \in Nat : t = now
  BY <1>1
<1>4. ASSUME NEW a \in Int, NEW b \in Int
      PROVE  /\ Between(ip, a, b)' = IF a <= t /\ t <= b THEN Between(ip, a, b) \cup {n}
                                                           ELSE Between(ip, a, b)
             /\ Between(ip, a, b) \in SUBSET (1..Len(calls))
  BY <1>2, <1>4, <1>3 DEF Between, LetThrough
<1>5. ASSUME NEW a \in Int, NEW b \in Int
      PROVE  /\ IsFiniteSet(Between(ip, a, b)) /\ Cardinality(Between(ip, a, b)) \in Nat
             /\ IsFiniteSet(Between(ip, a, b)') /\ Cardinality(Between(ip, a, b)') \in Nat
  <2>1. Between(ip, a, b) \in SUBSET (1..Len(calls))
    BY <1>4, <1>5
  <2>2. Between(ip, a, b)' \in SUBSET (1..Len(calls'))
    BY DEF Between, LetThrough
  <2> QED
    BY <1>1, <2>1, <2>2, SomeAreFinite
<1>6. PICK s \in Int :
        /\ hits'[ip] # None /\ hits'[ip].resetAt = s + Window /\ s <= t /\ t <= s + Window
        /\ hits'[ip].count \in 1..PerMin
        /\ \A i \in LetThrough(ip) : calls[i].at <= s + Window
        /\ Cardinality(Between(ip, s, s + Window)') <= hits'[ip].count
        /\ Cardinality(Between(ip, s + 1, s + Window)') < hits'[ip].count
        /\ Cardinality(Between(ip, s - Window, s - 1)') < PerMin
  <2>1. CASE NewWindow(ip)
    <3>1. hits'[ip] = [count |-> 1, resetAt |-> t + Window]
      BY <1>1, <1>3, <2>1 DEF Hit
    <3>2. hits'[ip] # None
      BY <1>1, <3>1, NumbersAssumption
    <3>3. Cardinality(Between(ip, t, t + Window)') = 1
      <4>1. Between(ip, t, t + Window) = {}
        BY <1>1, <1>2, <1>3, <2>1 DEF NewWindow, WindowsOf, InWindow, Between
      <4>2. Between(ip, t, t + Window)' = {n}
        BY <1>1, <1>4, <1>3, <4>1
      <4>3. Cardinality({n}) = 1
        BY FS_Singleton
      <4> QED
        BY <4>2, <4>3
    <3>4. Cardinality(Between(ip, t - Window, t - 1)') < PerMin
      <4>1. Between(ip, t - Window, t - 1)' = Between(ip, t - Window, t - 1)
        <5>1. t - Window \in Int /\ t - 1 \in Int /\ ~(t <= t - 1)
          BY <1>1
        <5> QED
          BY <1>4, <5>1
      <4>2. CASE hits[ip] = None
        <5>1. Between(ip, t - Window, t - 1) = {}
          BY <4>2 DEF WindowsOf, Between
        <5>2. Cardinality({}) = 0
          BY FS_EmptySet
        <5>3. Cardinality(Between(ip, t - Window, t - 1)') = 0
          BY <4>1, <5>1, <5>2, Zenon
        <5> QED
          BY <1>1, <5>3
      <4>3. CASE hits[ip] # None
        <5>1. PICK a \in Int, b \in Int : a = Opened(ip) /\ b = hits[ip].resetAt
          BY <1>1, <4>3 DEF Opened
        <5>2. b = a + Window /\ t > b
          BY <1>1, <1>3, <2>1, <4>3, <5>1 DEF NewWindow, Opened
        <5>3. Between(ip, t - Window, t - 1) \subseteq Between(ip, a + 1, b)
          <6>1. \A i \in LetThrough(ip) : calls[i].at \in Nat /\ calls[i].at <= b
            BY <1>2, <4>3, <5>1 DEF WindowsOf, InWindow
          <6>2. a + 1 <= t - Window
            BY <1>1, <5>2
          <6> QED
            BY <1>1, <6>1, <6>2 DEF Between
        <5>4. Cardinality(Between(ip, t - Window, t - 1)) <= Cardinality(Between(ip, a + 1, b))
          BY <1>4, <5>3, SubsetsCountLess
        <5>5. Cardinality(Between(ip, a + 1, b)) < hits[ip].count
          BY <4>3, <5>1 DEF WindowsOf, InWindow
        <5>6. t - Window \in Int /\ t - 1 \in Int /\ a + 1 \in Int
          BY <1>1
        <5>7. /\ Cardinality(Between(ip, t - Window, t - 1)) \in Nat
              /\ Cardinality(Between(ip, a + 1, b)) \in Nat
          BY <1>5, <5>6
        <5>8. hits[ip].count \in 1..PerMin
          BY <1>1, <4>3
        <5>9. Cardinality(Between(ip, t - Window, t - 1)) < PerMin
          BY <1>1, <5>4, <5>5, <5>7, <5>8
        <5> QED
          BY <4>1, <5>9, Zenon
      <4> QED
        BY <4>2, <4>3
    <3>8. Cardinality(Between(ip, t + 1, t + Window)') = 0
      <4>1. Between(ip, t + 1, t + Window) = {}
        BY <1>1, <1>2, <1>3 DEF Between
      <4>2. Between(ip, t + 1, t + Window)' = {}
        BY <1>1, <1>4, <1>3, <4>1
      <4> QED
        BY <4>2, FS_EmptySet
    <3>5. \A i \in LetThrough(ip) : calls[i].at <= t + Window
      BY <1>1, <1>2, <1>3
    <3>6. /\ hits'[ip].count = 1 /\ hits'[ip].count \in 1..PerMin
          /\ hits'[ip].resetAt = t + Window /\ t \in Int /\ t <= t + Window /\ t <= t
      BY <1>1, <3>1
    <3>7. Cardinality(Between(ip, t, t + Window)') <= hits'[ip].count
      BY <3>3, <3>6
    <3>9. Cardinality(Between(ip, t + 1, t + Window)') < hits'[ip].count
      BY <3>6, <3>8
    <3> WITNESS t \in Int
    <3> QED
      BY <3>2, <3>4, <3>5, <3>6, <3>7, <3>9
  <2>2. CASE ~NewWindow(ip)
    <3>1. /\ hits[ip] # None /\ now <= hits[ip].resetAt /\ hits[ip].count < PerMin
          /\ hits[ip] \in [count : 1..PerMin, resetAt : Nat]
      BY <1>1, <2>2 DEF NewWindow, RateLimited, TypeOK
    <3>2. hits'[ip] = [hits[ip] EXCEPT !.count = @ + 1]
      BY <1>1, <2>2 DEF Hit
    <3>3. /\ hits'[ip].count = hits[ip].count + 1 /\ hits'[ip].resetAt = hits[ip].resetAt
          /\ hits'[ip] \in [count : Nat, resetAt : Nat] /\ hits'[ip].count \in 1..PerMin
      BY <1>1, <3>1, <3>2
    <3>4. hits'[ip] # None
      BY <3>3, NumbersAssumption
    <3>5. PICK a \in Int : a = Opened(ip)
      BY <1>1, <3>1 DEF Opened
    <3>6. /\ InWindow(ip) /\ hits[ip].resetAt = a + Window /\ a <= t /\ t <= a + Window
          /\ a + Window \in Int /\ a - Window \in Int /\ a - 1 \in Int
      <4>1. InWindow(ip)
        BY <3>1 DEF WindowsOf
      <4>2. hits[ip].resetAt \in Nat /\ a = hits[ip].resetAt - Window /\ a <= now
        BY <3>1, <3>5, <4>1 DEF InWindow, Opened
      <4> QED
        BY <1>1, <1>3, <3>1, <4>1, <4>2
    <3>7. Cardinality(Between(ip, a, a + Window)') <= hits'[ip].count
      <4>1. Between(ip, a, a + Window)' = Between(ip, a, a + Window) \cup {n}
        BY <1>4, <1>3, <3>6
      <4>2. Cardinality(Between(ip, a, a + Window) \cup {n}) <= Cardinality(Between(ip, a, a + Window)) + 1
        BY <1>4, <3>6, OneMoreCountsOne
      <4>3. Cardinality(Between(ip, a, a + Window)) <= hits[ip].count
        BY <3>5, <3>6 DEF InWindow
      <4>4. /\ Cardinality(Between(ip, a, a + Window)) \in Nat
            /\ Cardinality(Between(ip, a, a + Window)') \in Nat
        BY <1>5, <3>6
      <4>5. Cardinality(Between(ip, a, a + Window)') <= Cardinality(Between(ip, a, a + Window)) + 1
        BY <4>1, <4>2, Zenon
      <4>6. hits[ip].count \in Int
        BY <3>1, <1>1
      <4> QED
        BY <3>3, <4>3, <4>4, <4>5, <4>6
    <3>10. Cardinality(Between(ip, a + 1, a + Window)') < hits'[ip].count
      <4>1. /\ a + 1 \in Int
            /\ \/ Between(ip, a + 1, a + Window)' = Between(ip, a + 1, a + Window)
               \/ Between(ip, a + 1, a + Window)' = Between(ip, a + 1, a + Window) \cup {n}
        BY <1>4, <1>3, <3>6
      <4>2. Cardinality(Between(ip, a + 1, a + Window) \cup {n})
              <= Cardinality(Between(ip, a + 1, a + Window)) + 1
        BY <1>4, <3>6, <4>1, OneMoreCountsOne
      <4>3. Cardinality(Between(ip, a + 1, a + Window)) < hits[ip].count
        BY <3>5, <3>6 DEF InWindow
      <4>4. /\ Cardinality(Between(ip, a + 1, a + Window)) \in Nat
            /\ Cardinality(Between(ip, a + 1, a + Window)') \in Nat
        BY <1>5, <3>6, <4>1
      <4>5. Cardinality(Between(ip, a + 1, a + Window)') <= Cardinality(Between(ip, a + 1, a + Window)) + 1
        <5>1. CASE Between(ip, a + 1, a + Window)' = Between(ip, a + 1, a + Window)
          BY <4>4, <5>1
        <5>2. CASE Between(ip, a + 1, a + Window)' = Between(ip, a + 1, a + Window) \cup {n}
          BY <4>2, <5>2, Zenon
        <5> QED
          BY <4>1, <5>1, <5>2
      <4>6. hits[ip].count \in Int
        BY <3>1, <1>1
      <4> QED
        BY <3>3, <4>3, <4>4, <4>5, <4>6
    <3>8. Cardinality(Between(ip, a - Window, a - 1)') < PerMin
      <4>1. Between(ip, a - Window, a - 1)' = Between(ip, a - Window, a - 1)
        <5>1. a \in Int /\ ~(t <= a - 1)
          BY <3>6
        <5> QED
          BY <1>4, <3>6, <5>1
      <4>2. Cardinality(Between(ip, a - Window, a - 1)) < PerMin
        BY <3>5, <3>6 DEF InWindow
      <4> QED
        BY <4>1, <4>2
    <3>9. \A i \in LetThrough(ip) : calls[i].at <= a + Window
      BY <3>6 DEF InWindow
    <3> QED
      BY <3>3, <3>4, <3>6, <3>7, <3>8, <3>9, <3>10
  <2> QED
    BY <2>1, <2>2
<1>7. InWindow(ip)'
  <2>1. \A i \in LetThrough(ip)' : calls'[i].at <= s + Window
    BY <1>2, <1>3, <1>6
  <2>2. hits'[ip].resetAt - Window = s /\ s <= now'
    BY <1>1, <1>3, <1>6
  <2> QED
    BY <1>6, <2>1, <2>2 DEF InWindow, Opened
<1>8. ASSUME NEW u \in Times
      PROVE  Cardinality(Between(ip, u, u + Window)') <= 2 * PerMin - 1
  <2>1. u \in Int /\ u + Window \in Int /\ s + Window \in Int /\ s - Window \in Int /\ s - 1 \in Int
    <3>1. u \in Int
      BY NumbersAssumption DEF Times
    <3> QED
      BY <1>1, <3>1
  <2>2. CASE u <= t /\ t <= u + Window
    <3>1. Between(ip, u, u + Window)' \subseteq
            Between(ip, s - Window, s - 1)' \cup Between(ip, s, s + Window)'
      <4>1. \A i \in LetThrough(ip)' : calls'[i].at \in Int /\ calls'[i].at <= s + Window
        <5>1. \A i \in LetThrough(ip)' : i = n \/ i \in LetThrough(ip)
          BY <1>2
        <5>2. calls'[n].at \in Int /\ calls'[n].at <= s + Window
          BY <1>2, <1>3, <1>6
        <5>3. \A i \in LetThrough(ip) : calls'[i].at \in Int /\ calls'[i].at <= s + Window
          BY <1>2, <1>6
        <5> QED
          BY <5>1, <5>2, <5>3
      <4>2. s - Window <= u
        BY <1>1, <1>6, <2>1, <2>2
      <4>3. ASSUME NEW i \in Between(ip, u, u + Window)'
            PROVE  i \in Between(ip, s - Window, s - 1)' \cup Between(ip, s, s + Window)'
        <5>1. i \in LetThrough(ip)' /\ u <= calls'[i].at
          BY <4>3 DEF Between
        <5>2. \/ s - Window <= calls'[i].at /\ calls'[i].at <= s - 1
              \/ s <= calls'[i].at /\ calls'[i].at <= s + Window
          BY <1>1, <2>1, <4>1, <4>2, <5>1
        <5> QED
          BY <5>1, <5>2 DEF Between
      <4> QED
        BY <4>3
    <3>2. Cardinality(Between(ip, u, u + Window)') <=
            Cardinality(Between(ip, s - Window, s - 1)') + Cardinality(Between(ip, s, s + Window)')
      BY <1>5, <2>1, <3>1, PartsCountTogether
    <3>3. /\ Cardinality(Between(ip, u, u + Window)') \in Nat
          /\ Cardinality(Between(ip, s - Window, s - 1)') \in Nat
          /\ Cardinality(Between(ip, s, s + Window)') \in Nat
      BY <1>5, <2>1
    <3> QED
      BY <1>1, <1>6, <3>2, <3>3
  <2>3. CASE ~(u <= t /\ t <= u + Window)
    <3>1. Between(ip, u, u + Window)' = Between(ip, u, u + Window)
      BY <1>4, <1>3, <2>1, <2>3
    <3>2. Cardinality(Between(ip, u, u + Window)) <= 2 * PerMin - 1
      BY DEF WindowsOf
    <3> QED
      BY <3>1, <3>2
  <2> QED
    BY <2>2, <2>3
<1> QED
  BY <1>6, <1>7, <1>8 DEF WindowsOf, Times

\* Every caller's windows stay in bounds.
LEMMA WindowStep == ASSUME TypeOK, FreshInv, WindowInv, [Next]_vars PROVE WindowInv'
<1> SUFFICES ASSUME PerMin > 0, NEW ip \in IPs
             PROVE  WindowsOf(ip)'
  BY DEF WindowInv
<1>1. now \in Nat /\ WindowsOf(ip)
  BY NumbersAssumption DEF TypeOK, Times, WindowInv
<1>2. ASSUME NEW caller \in IPs, NEW kind \in Kinds, Arrive(caller, kind)
      PROVE  WindowsOf(ip)'
  <2>1. now' = now
    BY <1>2 DEF Arrive, Limited, OverCap, ReachGasGuard
  <2>2. PICK c \in Call :
          /\ Arrived(c) /\ c.ip = caller /\ c.at = now
          /\ IF Limited(caller, kind) THEN c.state = "limited" ELSE c.state # "limited"
    <3>1. Limited(caller, kind) \/ OverCap(caller, kind) \/ ReachGasGuard(caller, kind)
      BY <1>2 DEF Arrive
    <3>2. Limited(caller, kind) => ~OverCap(caller, kind) /\ ~ReachGasGuard(caller, kind)
      BY DEF Limited, OverCap, ReachGasGuard
    <3> QED
      BY <1>2, <3>1, <3>2, ArrivalsAreCalls
  <2>3. ASSUME c.ip # ip \/ c.state = "limited"
        PROVE  SameFor(ip)
    BY <2>2, <2>3, ArrivalIsAppended DEF SameFor, LetThrough
  <2>4. CASE caller # ip \/ Limited(caller, kind)
    <3>1. hits'[ip] = hits[ip]
      BY <1>2, <2>4 DEF Arrive, Limited, OverCap, ReachGasGuard, TypeOK
    <3> QED
      BY <1>1, <2>1, <2>2, <2>3, <2>4, <3>1, WindowsStay
  <2>5. CASE caller = ip /\ ~Limited(caller, kind)
    <3>1. ~RateLimited(ip) /\ hits'[ip] = Hit(ip)
      BY <1>2, <2>5 DEF Arrive, OverCap, ReachGasGuard, TypeOK
    <3> QED
      BY <1>1, <2>1, <2>2, <2>5, <3>1, LetThroughStep
  <2> QED
    BY <2>4, <2>5
<1>3. ASSUME NEW i \in 1..Len(calls), ReadBalance(i) \/ BalanceAnswered(i) \/ BalanceFailed(i)
      PROVE  WindowsOf(ip)'
  <2>1. SameFor(ip)
    BY <1>3, ReadsKeepRequests, CountsStay
  <2>2. UNCHANGED <<now, hits>>
    BY <1>3 DEF ReadBalance, BalanceAnswered, BalanceFailed
  <2> QED
    BY <1>1, <2>1, <2>2, WindowsStay
<1>4. CASE Tick \/ BalanceChanges \/ UNCHANGED vars
  <2>1. UNCHANGED <<calls, hits>> /\ now' \in Nat /\ now' >= now
    BY <1>1, <1>4 DEF Tick, BalanceChanges, vars
  <2> QED
    BY <1>1, <2>1, CountsStay, WindowsStay
<1> QED
  BY <1>2, <1>3, <1>4 DEF Next

-----------------------------------------------------------------------------
(***************************************************************************)
(* Theorems                                                                *)
(***************************************************************************)

IInv == TypeOK /\ FreshInv /\ DayInv /\ WindowInv

\* At the start there is nothing to count.
LEMMA InitInv == Init => IInv
<1> SUFFICES ASSUME Init PROVE IInv
  OBVIOUS
<1>1. now \in Nat /\ now \in Times /\ Today = 0 /\ Len(calls) = 0 /\ calls \in Seq(Call)
  BY DaysPass, NumbersAssumption DEF Init, Times, Today
<1>2. Cardinality({}) = 0
  BY FS_EmptySet
<1>3. TypeOK /\ FreshInv
  BY <1>1, NumbersAssumption DEF Init, TypeOK, FreshInv, JudgedByFreshBalance
<1>4. DayInv
  <2>1. \A d : OnDay(d) = {}
    BY <1>1 DEF OnDay
  <2>2. day = 0 /\ count = 0 /\ Cap \in Nat
    BY NumbersAssumption DEF Init
  <2>3. \A d \in Nat : Cardinality(OnDay(d)) = 0
    BY <1>2, <2>1
  <2> QED
    BY <1>1, <2>2, <2>3 DEF DayInv
<1>5. WindowInv
  <2>1. \A ip : LetThrough(ip) = {}
    BY <1>1 DEF LetThrough
  <2>2. \A ip, a, b : Between(ip, a, b) = {}
    BY <2>1 DEF Between
  <2>3. \A ip \in IPs : hits[ip] = None
    BY DEF Init
  <2>4. \A ip, a, b : Cardinality(Between(ip, a, b)) = 0
    BY <1>2, <2>2
  <2>5. PerMin > 0 => 0 <= 2 * PerMin - 1
    BY NumbersAssumption
  <2> QED
    BY <2>1, <2>3, <2>4, <2>5 DEF WindowInv, WindowsOf
<1> QED
  BY <1>3, <1>4, <1>5 DEF IInv

\* What is cached is fresh, the day's counter counts what the cap let pass, and each caller's
\* window counts what the rate limit let through, whatever the order of requests and answers.
THEOREM Invariance == Spec => []IInv
<1>1. IInv /\ [Next]_vars => IInv'
  BY TypeStep, FreshStep, DayStep, WindowStep DEF IInv
<1> QED
  BY InitInv, <1>1, PTL DEF Spec

\* Every variable keeps its type.
THEOREM Typing == Spec => []TypeOK
<1>1. IInv => TypeOK
  BY DEF IInv
<1> QED
  BY Invariance, <1>1, PTL

\* gasGuard never judges by a balance read longer than the cache time before the request.
THEOREM BalancesAreFresh == Spec => []JudgedByFreshBalance
<1>1. IInv => JudgedByFreshBalance
  BY DEF IInv, FreshInv
<1> QED
  BY Invariance, <1>1, PTL

\* dailyCap lets no more than the cap through on any day.
THEOREM DaysAreCapped == Spec => []CapPerDay
<1>1. IInv => CapPerDay
  <2> SUFFICES ASSUME IInv, Cap > 0, NEW d \in 0..Today
               PROVE  Cardinality(OnDay(d)) <= Cap
    BY DEF CapPerDay, OnDay
  <2>1. Today \in Nat /\ count \in 0..Cap /\ Cap \in Nat /\ day \in Nat
    BY DaysPass, NumbersAssumption DEF IInv, TypeOK, Times, Today
  <2>2. Cardinality(OnDay(d)) \in Nat
    BY RequestsAreFinite DEF OnDay, IInv
  <2>3. Cardinality(OnDay(d)) <= IF d < day THEN Cap ELSE IF d = day THEN count ELSE 0
    BY <2>1 DEF IInv, DayInv
  <2> QED
    BY <2>1, <2>2, <2>3
<1> QED
  BY Invariance, <1>1, PTL

\* rateLimit lets a caller through fewer than twice the limit's times in any minute.
THEOREM MinutesAreBounded == Spec => []FewerThanTwicePerMin
<1>1. IInv => FewerThanTwicePerMin
  <2> SUFFICES ASSUME IInv, PerMin > 0, NEW ip \in IPs, NEW t \in Times
               PROVE  Cardinality(Admitted(ip, t)) <= 2 * PerMin - 1
    BY DEF FewerThanTwicePerMin
  <2>1. Admitted(ip, t) = Between(ip, t, t + Window)
    <3>1. t \in Nat /\ Window \in Nat /\ \A i \in 1..Len(calls) : calls[i].at \in Nat
      BY RequestsAreCalls, NumbersAssumption DEF IInv, Call, Times
    <3> QED
      BY <3>1 DEF Admitted, Between, LetThrough
  <2>2. Cardinality(Between(ip, t, t + Window)) <= 2 * PerMin - 1
    BY DEF IInv, WindowInv, WindowsOf
  <2> QED
    BY <2>1, <2>2
<1> QED
  BY Invariance, <1>1, PTL

-----------------------------------------------------------------------------
(***************************************************************************)
(* Who is turned away                                                      *)
(*                                                                         *)
(* A caller is limited by requests of its own, no older than a window;     *)
(* the limit is what its message says exactly for callers that never ask   *)
(* for the price.                                                          *)
(***************************************************************************)

\* The requests of ip that its current window counts
Counted(ip) == {i \in LetThrough(ip) : calls[i].at + Window >= hits[ip].resetAt}

\* The counter counts no request that was not made.
QuotaOf(ip) == hits[ip] # None => Cardinality(Counted(ip)) >= hits[ip].count

\* The requests let through to the i-th's caller within a window before it
Lately(i) ==
  {j \in 1..i : /\ calls[j].ip = calls[i].ip /\ calls[j].state # "limited"
                /\ calls[j].at + Window >= calls[i].at}

\* Only a caller's own requests, none older than a window, use up its limit.
LimitedByOwnRequests ==
  \A i \in 1..Len(calls) : calls[i].state = "limited" => Cardinality(Lately(i)) >= PerMin

QuotaInv ==
  /\ \A ip \in IPs : PerMin > 0 => QuotaOf(ip)
  /\ LimitedByOwnRequests

\* A request is turned away for what the window counts.
LEMMA TurnedAwayStep ==
  ASSUME TypeOK, FreshInv, NEW ip \in IPs, PerMin > 0, QuotaOf(ip), RateLimited(ip),
         NEW c \in Call, Arrived(c), c.ip = ip, c.at = now,
         NEW n \in Nat, n = Len(calls) + 1
  PROVE  Cardinality(Lately(n)') >= PerMin
<1>1. /\ now \in Nat /\ Window \in Nat /\ PerMin \in Nat /\ Len(calls) \in Nat
      /\ hits[ip] # None /\ hits[ip].resetAt \in Nat /\ hits[ip].count \in Nat
      /\ now <= hits[ip].resetAt /\ hits[ip].count >= PerMin
  <2>1. now \in Nat /\ Len(calls) \in Nat
    BY NumbersAssumption, ArrivalIsAppended DEF TypeOK, Times
  <2>2. hits[ip] # None /\ ~(now > hits[ip].resetAt) /\ hits[ip].count >= PerMin
    BY DEF RateLimited, NewWindow
  <2>3. hits[ip] \in [count : 1..PerMin, resetAt : Nat]
    BY <2>2 DEF TypeOK
  <2> QED
    BY <2>1, <2>2, <2>3, NumbersAssumption
<1>2. /\ calls'[n] = c
      /\ \A j \in 1..Len(calls) : calls'[j] = calls[j] /\ calls[j].at \in Nat
  BY ArrivalIsAppended, RequestsAreCalls DEF Call, Times
<1>3. Counted(ip) \subseteq Lately(n)'
  BY <1>1, <1>2 DEF Counted, LetThrough, Lately
<1>4. /\ IsFiniteSet(Lately(n)') /\ Cardinality(Lately(n)') \in Nat
      /\ Cardinality(Counted(ip)) \in Nat
  <2>1. Lately(n)' \in SUBSET (1..n)
    BY DEF Lately
  <2>2. Counted(ip) \in SUBSET (1..Len(calls))
    BY DEF Counted, LetThrough
  <2> QED
    BY <1>1, <2>1, <2>2, SomeAreFinite
<1>5. Cardinality(Counted(ip)) <= Cardinality(Lately(n)')
  BY <1>3, <1>4, FS_Subset
<1>6. Cardinality(Counted(ip)) >= hits[ip].count
  BY <1>1 DEF QuotaOf
<1> QED
  BY <1>1, <1>4, <1>5, <1>6

\* A request let through is one that the window counts.
LEMMA CountedStep ==
  ASSUME TypeOK, NEW ip \in IPs, WindowsOf(ip), PerMin > 0, QuotaOf(ip), ~RateLimited(ip),
         NEW c \in Call, Arrived(c), c.ip = ip, c.at = now, c.state # "limited",
         hits'[ip] = Hit(ip)
  PROVE  QuotaOf(ip)'
<1> DEFINE n == Len(calls) + 1
<1>1. /\ now \in Nat /\ Window \in Nat /\ PerMin \in Nat /\ Len(calls) \in Nat /\ n \in Nat
  BY NumbersAssumption, ArrivalIsAppended DEF TypeOK, Times
<1>2. /\ Len(calls') = n /\ calls'[n] = c /\ n \notin 1..Len(calls)
      /\ \A j \in 1..Len(calls) : calls'[j] = calls[j] /\ calls[j].at \in Nat
  BY <1>1, ArrivalIsAppended, RequestsAreCalls DEF Call, Times
<1>3. IsFiniteSet(Counted(ip)') /\ Cardinality(Counted(ip)') \in Nat
  <2>1. Counted(ip)' \in SUBSET (1..n)
    BY <1>2 DEF Counted, LetThrough
  <2> QED
    BY <1>1, <2>1, SomeAreFinite
<1>4. CASE NewWindow(ip)
  <2>1. hits'[ip] = [count |-> 1, resetAt |-> now + Window]
    BY <1>1, <1>4 DEF Hit
  <2>2. {n} \subseteq Counted(ip)'
    <3>1. n \in 1..Len(calls') /\ calls'[n].at + Window >= hits'[ip].resetAt
      BY <1>1, <1>2, <2>1
    <3> QED
      BY <1>2, <3>1 DEF Counted, LetThrough
  <2>3. Cardinality({n}) <= Cardinality(Counted(ip)') /\ Cardinality({n}) = 1
    BY <1>3, <2>2, FS_Subset, FS_Singleton
  <2> QED
    BY <1>3, <2>1, <2>3 DEF QuotaOf
<1>5. CASE ~NewWindow(ip)
  <2>1. /\ hits[ip] # None /\ hits[ip] \in [count : 1..PerMin, resetAt : Nat]
        /\ hits[ip].resetAt <= now + Window
    <3>1. hits[ip] # None /\ hits[ip] \in [count : 1..PerMin, resetAt : Nat]
      BY <1>5 DEF NewWindow, TypeOK
    <3>2. hits[ip].resetAt - Window <= now
      BY <3>1 DEF WindowsOf, InWindow, Opened
    <3> QED
      BY <1>1, <3>1, <3>2
  <2>2. /\ hits'[ip].count = hits[ip].count + 1
        /\ hits'[ip].resetAt = hits[ip].resetAt
    BY <1>1, <1>5, <2>1 DEF Hit
  <2>3. Counted(ip) \cup {n} \subseteq Counted(ip)'
    <3>1. n \in 1..Len(calls') /\ calls'[n].at + Window >= hits'[ip].resetAt
      BY <1>1, <1>2, <2>1, <2>2
    <3>2. n \in Counted(ip)'
      BY <1>2, <3>1 DEF Counted, LetThrough
    <3>3. Counted(ip) \subseteq Counted(ip)'
      BY <1>1, <1>2, <2>2 DEF Counted, LetThrough
    <3> QED
      BY <3>2, <3>3
  <2>4. /\ IsFiniteSet(Counted(ip)) /\ Cardinality(Counted(ip)) \in Nat /\ n \notin Counted(ip)
    <3>1. Counted(ip) \in SUBSET (1..Len(calls))
      BY DEF Counted, LetThrough
    <3> QED
      BY <1>1, <1>2, <3>1, SomeAreFinite
  <2>5. Cardinality(Counted(ip) \cup {n}) = Cardinality(Counted(ip)) + 1
    BY <2>4, FS_AddElement
  <2>6. Cardinality(Counted(ip) \cup {n}) <= Cardinality(Counted(ip)')
    BY <1>3, <2>3, FS_Subset
  <2>7. Cardinality(Counted(ip)) >= hits[ip].count /\ hits[ip].count \in Nat
    BY <1>1, <2>1 DEF QuotaOf
  <2>8. Cardinality(Counted(ip)') >= hits[ip].count + 1
    BY <1>3, <2>4, <2>5, <2>6, <2>7
  <2> QED
    BY <2>2, <2>8 DEF QuotaOf
<1> QED
  BY <1>4, <1>5

\* What a caller has used up stays when nothing is added to it.
LEMMA QuotaStays ==
  ASSUME NEW ip \in IPs, QuotaOf(ip), SameFor(ip), hits'[ip] = hits[ip]
  PROVE  QuotaOf(ip)'
<1>1. Counted(ip)' = Counted(ip)
  BY DEF Counted, SameFor
<1> QED
  BY <1>1 DEF QuotaOf

\* Requests made stay made: those turned away before were so for good.
LEMMA LatelyStays ==
  ASSUME TypeOK, NEW i \in 1..Len(calls), Len(calls') \in Nat,
         \A j \in 1..Len(calls) :
           /\ calls'[j].ip = calls[j].ip /\ calls'[j].at = calls[j].at
           /\ calls'[j].state = "limited" <=> calls[j].state = "limited"
  PROVE  Lately(i)' = Lately(i)
<1>1. Len(calls) \in Nat
  BY DEF TypeOK
<1>2. 1..i \subseteq 1..Len(calls)
  BY <1>1
<1> QED
  BY <1>2 DEF Lately

\* Every step keeps account of what callers have used up.
LEMMA QuotaStep == ASSUME TypeOK, FreshInv, WindowInv, QuotaInv, [Next]_vars PROVE QuotaInv'
<1> DEFINE Turned(i) == calls[i].state = "limited" => Cardinality(Lately(i)) >= PerMin
<1>1. ASSUME NEW caller \in IPs, NEW kind \in Kinds, Arrive(caller, kind)
      PROVE  QuotaInv'
  <2>1. PICK c \in Call :
          /\ Arrived(c) /\ c.ip = caller /\ c.at = now
          /\ IF Limited(caller, kind) THEN c.state = "limited" ELSE c.state # "limited"
    <3>1. Limited(caller, kind) \/ OverCap(caller, kind) \/ ReachGasGuard(caller, kind)
      BY <1>1 DEF Arrive
    <3>2. Limited(caller, kind) => ~OverCap(caller, kind) /\ ~ReachGasGuard(caller, kind)
      BY DEF Limited, OverCap, ReachGasGuard
    <3> QED
      BY <1>1, <3>1, <3>2, ArrivalsAreCalls
  <2>2. /\ Len(calls) \in Nat /\ Len(calls') = Len(calls) + 1 /\ calls'[Len(calls) + 1] = c
        /\ \A i \in 1..Len(calls) : calls'[i] = calls[i]
    BY <2>1, ArrivalIsAppended
  <2>3. ASSUME NEW ip \in IPs, PerMin > 0
        PROVE  QuotaOf(ip)'
    <3>1. QuotaOf(ip) /\ WindowsOf(ip)
      BY <2>3 DEF QuotaInv, WindowInv
    <3>2. CASE caller # ip \/ Limited(caller, kind)
      <4>1. hits'[ip] = hits[ip]
        BY <1>1, <3>2 DEF Arrive, Limited, OverCap, ReachGasGuard, TypeOK
      <4>2. SameFor(ip)
        BY <2>1, <2>2, <3>2, ArrivalIsAppended DEF SameFor, LetThrough
      <4> QED
        BY <3>1, <4>1, <4>2, QuotaStays
    <3>3. CASE caller = ip /\ ~Limited(caller, kind)
      <4>1. ~RateLimited(ip) /\ hits'[ip] = Hit(ip)
        BY <1>1, <3>3 DEF Arrive, OverCap, ReachGasGuard, TypeOK
      <4> QED
        BY <2>1, <2>3, <3>1, <3>3, <4>1, CountedStep
    <3> QED
      BY <3>2, <3>3
  <2>4. ASSUME NEW i \in 1..Len(calls'), calls'[i].state = "limited"
        PROVE  Cardinality(Lately(i)') >= PerMin
    <3>1. CASE i \in 1..Len(calls)
      <4>1. Lately(i)' = Lately(i)
        BY <2>2, <3>1, LatelyStays
      <4>2. Cardinality(Lately(i)) >= PerMin
        BY <2>2, <2>4, <3>1 DEF QuotaInv, LimitedByOwnRequests
      <4> QED
        BY <4>1, <4>2
    <3>2. CASE i = Len(calls) + 1
      <4>1. Limited(caller, kind) /\ RateLimited(caller) /\ PerMin > 0
        BY <2>1, <2>2, <2>4, <3>2 DEF Limited, RateLimited
      <4>2. QuotaOf(caller) /\ i \in Nat
        BY <2>2, <3>2, <4>1 DEF QuotaInv
      <4> QED
        BY <2>1, <3>2, <4>1, <4>2, TurnedAwayStep
    <3> QED
      BY <2>2, <3>1, <3>2
  <2> QED
    BY <2>3, <2>4 DEF QuotaInv, LimitedByOwnRequests
<1>2. ASSUME SameRequests \/ UNCHANGED calls, hits' = hits
      PROVE  QuotaInv'
  <2>1. /\ Len(calls') = Len(calls) /\ Len(calls) \in Nat
        /\ \A j \in 1..Len(calls) :
             /\ calls'[j].ip = calls[j].ip /\ calls'[j].at = calls[j].at
             /\ calls'[j].state = "limited" <=> calls[j].state = "limited"
    BY <1>2 DEF SameRequests, TypeOK
  <2>2. ASSUME NEW ip \in IPs, PerMin > 0
        PROVE  QuotaOf(ip)'
    BY <1>2, <2>2, CountsStay, QuotaStays DEF QuotaInv
  <2>3. ASSUME NEW i \in 1..Len(calls'), calls'[i].state = "limited"
        PROVE  Cardinality(Lately(i)') >= PerMin
    <3>1. i \in 1..Len(calls) /\ Lately(i)' = Lately(i)
      BY <2>1, LatelyStays
    <3>2. Cardinality(Lately(i)) >= PerMin
      BY <2>1, <2>3, <3>1 DEF QuotaInv, LimitedByOwnRequests
    <3> QED
      BY <3>1, <3>2
  <2> QED
    BY <2>2, <2>3 DEF QuotaInv, LimitedByOwnRequests
<1>3. ASSUME NEW i \in 1..Len(calls), ReadBalance(i) \/ BalanceAnswered(i) \/ BalanceFailed(i)
      PROVE  QuotaInv'
  <2>1. SameRequests /\ hits' = hits
    BY <1>3, ReadsKeepRequests DEF ReadBalance, BalanceAnswered, BalanceFailed
  <2> QED
    BY <1>2, <2>1
<1>4. CASE Tick \/ BalanceChanges \/ UNCHANGED vars
  BY <1>2, <1>4 DEF Tick, BalanceChanges, vars
<1> QED
  BY <1>1, <1>3, <1>4 DEF Next

\* rateLimit turns nobody away for the requests of others or for requests older than a window:
\* before each request it refuses, at least the limit's number of the caller's own were let through.
THEOREM NobodyIsLimitedByOthers == Spec => []LimitedByOwnRequests
<1>1. Init => QuotaInv
  <2>1. Init => Len(calls) = 0 /\ \A ip \in IPs : hits[ip] = None
    BY DEF Init
  <2> QED
    BY <2>1 DEF QuotaInv, QuotaOf, LimitedByOwnRequests
<1>2. IInv /\ QuotaInv /\ [Next]_vars => QuotaInv'
  BY QuotaStep DEF IInv
<1>3. QuotaInv => LimitedByOwnRequests
  BY DEF QuotaInv
<1> QED
  BY Invariance, <1>1, <1>2, <1>3, PTL DEF Spec

\* The i-th request's caller has not asked for the price, and what it was let to pay for.
PaysOnly(i) == \A j \in 1..i : calls[j].ip = calls[i].ip => calls[j].kind = "paid"
Paid(i) == {j \in 1..i : /\ calls[j].ip = calls[i].ip /\ calls[j].kind = "paid"
                         /\ calls[j].state # "limited"}

PayersHaveTheirQuota ==
  \A i \in 1..Len(calls) : calls[i].state = "limited" /\ PaysOnly(i) => Cardinality(Paid(i)) >= PerMin

\* The limit's message is true of a caller that never asks for the price: it is turned away only
\* after so many of its paid requests.
THEOREM PayersAreLimitedByPaidDecisions == Spec => []PayersHaveTheirQuota
<1>1. TypeOK /\ LimitedByOwnRequests => PayersHaveTheirQuota
  <2> SUFFICES ASSUME TypeOK, LimitedByOwnRequests, NEW i \in 1..Len(calls),
                      calls[i].state = "limited", PaysOnly(i)
               PROVE  Cardinality(Paid(i)) >= PerMin
    BY DEF PayersHaveTheirQuota
  <2>1. Lately(i) \subseteq Paid(i) /\ Paid(i) \in SUBSET (1..i) /\ Lately(i) \in SUBSET (1..i)
    BY DEF Lately, Paid, PaysOnly
  <2>2. i \in Nat /\ PerMin \in Nat
    BY NumbersAssumption DEF TypeOK
  <2>3. /\ IsFiniteSet(Paid(i)) /\ Cardinality(Paid(i)) \in Nat /\ Cardinality(Lately(i)) \in Nat
    BY <2>1, <2>2, SomeAreFinite
  <2>4. Cardinality(Lately(i)) <= Cardinality(Paid(i))
    BY <2>1, <2>3, FS_Subset
  <2>5. Cardinality(Lately(i)) >= PerMin
    BY DEF LimitedByOwnRequests
  <2> QED
    BY <2>2, <2>3, <2>4, <2>5
<1> QED
  BY <1>1, Typing, NobodyIsLimitedByOthers, PTL

\* Where every request is paid, the message is true of every caller.
THEOREM WithoutProbesTheLimitIsOnPaidDecisions ==
  ASSUME Kinds \subseteq {"paid"}
  PROVE  Spec => []LimitedOnlyAfterPaidDecisions
<1>1. TypeOK /\ PayersHaveTheirQuota => LimitedOnlyAfterPaidDecisions
  <2> SUFFICES ASSUME TypeOK, PayersHaveTheirQuota, NEW i \in 1..Len(calls),
                      calls[i].state = "limited"
               PROVE  Cardinality(Paid(i)) >= PerMin
    BY DEF LimitedOnlyAfterPaidDecisions, Paid
  <2>1. \A j \in 1..Len(calls) : calls[j].kind = "paid"
    BY RequestsAreCalls DEF Call
  <2>2. 1..i \subseteq 1..Len(calls)
    BY DEF TypeOK
  <2> QED
    BY <2>1, <2>2 DEF PayersHaveTheirQuota, PaysOnly
<1> QED
  BY <1>1, Typing, PayersAreLimitedByPaidDecisions, PTL
=============================================================================
