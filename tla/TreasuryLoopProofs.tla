------------------------- MODULE TreasuryLoopProofs -------------------------
(***************************************************************************)
(* What the treasury loops keep, for any number of them, any portfolio,    *)
(* prices, limits and log size.  The three properties are about what the   *)
(* loops share, and each is made inductive by what a loop's position says  *)
(* of it: of the bus (Heard), of the Safe (Alone), and of the log file     *)
(* (Recent).  At the end: when a logged swap has happened, and why the     *)
(* steps of a loop run out.                                                *)
(***************************************************************************)
EXTENDS Clients, SequenceTheorems, TLAPS

\* Amounts bought and topped up are amounts.
LEMMA ProductIsNat ==
  ASSUME NEW a \in Nat, NEW b \in Nat
  PROVE  a * b \in Nat
OBVIOUS

LEMMA ProductIsPositive ==
  ASSUME NEW a \in Nat \ {0}, NEW b \in Nat \ {0}
  PROVE  a * b \in Nat \ {0}
OBVIOUS

LEMMA QuotientIsNat ==
  ASSUME NEW a \in Nat, NEW b \in Nat \ {0}
  PROVE  a \div b \in Nat
OBVIOUS

\* activity.ts: of the records appended the last LogSize are kept, and none more.
LEMMA LastOfProperties ==
  ASSUME LogSize \in Nat \ {0}, NEW S, NEW s \in Seq(S)
  PROVE  /\ Loop!LastOf(s) \in Seq(S)
         /\ Len(Loop!LastOf(s)) = IF Len(s) < LogSize THEN Len(s) ELSE LogSize
         /\ \A i \in 1..Len(Loop!LastOf(s)) : Loop!LastOf(s)[i] = s[Len(s) - Len(Loop!LastOf(s)) + i]
<1> DEFINE k == IF Len(s) < LogSize THEN 1 ELSE Len(s) - LogSize + 1
<1>1. Loop!Largest({1, Len(s) - LogSize + 1}) = k
  <2>1. k \in {1, Len(s) - LogSize + 1} /\ \A y \in {1, Len(s) - LogSize + 1} : y <= k
    OBVIOUS
  <2>2. \A x \in {1, Len(s) - LogSize + 1} : (\A y \in {1, Len(s) - LogSize + 1} : y <= x) => x = k
    OBVIOUS
  <2> QED
    BY <2>1, <2>2 DEF Loop!Largest
<1>2. Loop!LastOf(s) = SubSeq(s, k, Len(s))
  BY <1>1 DEF Loop!LastOf
<1>3. k \in 1..Len(s) + 1 /\ Len(s) - k + 1 = IF Len(s) < LogSize THEN Len(s) ELSE LogSize
  BY LenProperties
<1> HIDE DEF k
<1>4. /\ SubSeq(s, k, Len(s)) \in Seq(S)
      /\ Len(SubSeq(s, k, Len(s))) = Len(s) - k + 1
      /\ \A i \in 1..Len(s) - k + 1 : SubSeq(s, k, Len(s))[i] = s[k + i - 1]
  BY <1>3, SubSeqProperties
<1>5. Len(Loop!LastOf(s)) = Len(s) - k + 1 /\ Loop!LastOf(s) \in Seq(S)
  BY <1>2, <1>4
<1>6. ASSUME NEW i \in 1..Len(Loop!LastOf(s))
      PROVE  Loop!LastOf(s)[i] = s[Len(s) - Len(Loop!LastOf(s)) + i]
  <2>1. k + i - 1 = Len(s) - Len(Loop!LastOf(s)) + i
    BY <1>3, <1>5, LenProperties
  <2> QED
    BY <1>2, <1>4, <1>5, <2>1
<1> QED
  BY <1>3, <1>5, <1>6

\* Where a position of the new log lies in the old ones: x records before, y of them kept.
LEMMA KeptPositions ==
  ASSUME NEW n \in Nat \ {0}, NEW x \in Nat, NEW y \in Nat, y = IF x < n THEN x ELSE n,
         NEW k \in Nat, k = IF y + 1 < n THEN y + 1 ELSE n, NEW i \in 1..k
  PROVE  /\ k = IF x + 1 < n THEN x + 1 ELSE n
         /\ i = k => y + 1 - k + i = y + 1 /\ x + 1 - k + i = x + 1
         /\ i # k => /\ y + 1 - k + i \in 1..y /\ x + 1 - k + i \in 1..x
                     /\ x - y + (y + 1 - k + i) = x + 1 - k + i
OBVIOUS

\* The last records of a log that is cut are those of the log.
LEMMA LastOfAppend ==
  ASSUME LogSize \in Nat \ {0}, NEW S, NEW s \in Seq(S), NEW e \in S
  PROVE  Loop!LastOf(Append(Loop!LastOf(s), e)) = Loop!LastOf(Append(s, e))
<1> DEFINE t  == Loop!LastOf(s)
           te == Append(t, e)
           se == Append(s, e)
           a  == Loop!LastOf(te)
           b  == Loop!LastOf(se)
<1>1. /\ t \in Seq(S) /\ Len(t) = IF Len(s) < LogSize THEN Len(s) ELSE LogSize
      /\ \A i \in 1..Len(t) : t[i] = s[Len(s) - Len(t) + i]
  BY LastOfProperties
<1> HIDE DEF t
<1>2. /\ te \in Seq(S) /\ Len(te) = Len(t) + 1 /\ te[Len(t) + 1] = e
      /\ \A i \in 1..Len(t) : te[i] = t[i]
  BY <1>1, AppendProperties
<1>3. /\ se \in Seq(S) /\ Len(se) = Len(s) + 1 /\ se[Len(s) + 1] = e
      /\ \A i \in 1..Len(s) : se[i] = s[i]
  BY AppendProperties
<1> HIDE DEF te, se
<1>4. /\ a \in Seq(S) /\ Len(a) = IF Len(te) < LogSize THEN Len(te) ELSE LogSize
      /\ \A i \in 1..Len(a) : a[i] = te[Len(te) - Len(a) + i]
  BY <1>2, LastOfProperties
<1>5. /\ b \in Seq(S) /\ Len(b) = IF Len(se) < LogSize THEN Len(se) ELSE LogSize
      /\ \A i \in 1..Len(b) : b[i] = se[Len(se) - Len(b) + i]
  BY <1>3, LastOfProperties
<1> HIDE DEF a, b
<1>6. Len(s) \in Nat /\ Len(t) \in Nat /\ Len(a) \in Nat /\ Len(b) \in Nat
  BY <1>1, <1>4, <1>5, LenProperties
<1>7. Len(a) = Len(b)
  BY <1>1, <1>2, <1>3, <1>4, <1>5, <1>6
<1>8. ASSUME NEW i \in 1..Len(a)
      PROVE  a[i] = b[i]
  <2>1. a[i] = te[Len(t) + 1 - Len(a) + i] /\ b[i] = se[Len(s) + 1 - Len(a) + i]
    <3>1. a[i] = te[Len(te) - Len(a) + i] /\ b[i] = se[Len(se) - Len(b) + i]
      BY <1>4, <1>5, <1>7
    <3> QED
      BY <1>2, <1>3, <1>7, <3>1
  <2>2. /\ i = Len(a) => /\ Len(t) + 1 - Len(a) + i = Len(t) + 1
                         /\ Len(s) + 1 - Len(a) + i = Len(s) + 1
        /\ i # Len(a) => /\ Len(t) + 1 - Len(a) + i \in 1..Len(t)
                         /\ Len(s) + 1 - Len(a) + i \in 1..Len(s)
                         /\ Len(s) - Len(t) + (Len(t) + 1 - Len(a) + i) = Len(s) + 1 - Len(a) + i
    <3>1. Len(a) = IF Len(t) + 1 < LogSize THEN Len(t) + 1 ELSE LogSize
      BY <1>2, <1>4
    <3>2. Len(t) = IF Len(s) < LogSize THEN Len(s) ELSE LogSize
      BY <1>1
    <3>3. PICK x \in Nat, y \in Nat, k \in Nat : x = Len(s) /\ y = Len(t) /\ k = Len(a)
      BY <1>6
    <3>4. /\ y = IF x < LogSize THEN x ELSE LogSize
          /\ k = IF y + 1 < LogSize THEN y + 1 ELSE LogSize
          /\ i \in 1..k
      BY <3>1, <3>2, <3>3
    <3>5. /\ i = k => y + 1 - k + i = y + 1 /\ x + 1 - k + i = x + 1
          /\ i # k => /\ y + 1 - k + i \in 1..y /\ x + 1 - k + i \in 1..x
                      /\ x - y + (y + 1 - k + i) = x + 1 - k + i
      BY <3>4, KeptPositions
    <3> QED
      BY <3>3, <3>5
  <2>3. CASE i = Len(a)
    BY <1>2, <1>3, <2>1, <2>2, <2>3
  <2>4. CASE i # Len(a)
    BY <1>1, <1>2, <1>3, <2>1, <2>2, <2>4
  <2> QED
    BY <2>3, <2>4
<1>9. a = b
  BY <1>4, <1>5, <1>7, <1>8, SeqEqual
<1> QED
  BY <1>9 DEF a, b, te, se, t
-----------------------------------------------------------------------------
Positions == {"idle"} \cup Loop!Running \cup Loop!Ended

Typed ==
  /\ Loop!TypeOK
  /\ event \in [Loops -> Nat] /\ snapshot \in [Loops -> Seq(Loop!Records)] /\ written \in Seq(Loop!Records)

\* Where a loop has published nothing, and where it has read no id
Before == {"idle", "loading", "reading", "paying", "publishing"}
Market == Before \cup {"published"}

\* EventBus: a loop's own event has its decision, and the id it read is no smaller; what it acts
\* on is what the event of that id says.
HeardBy(l) ==
  /\ loop[l] \in Market => tries[l] = 0
  /\ loop[l] = "consuming" => tries[l] > 0
  /\ \A i \in 1..Len(events) : events[i].by = l =>
       loop[l] \notin Before /\ events[i].payload = code[l] /\ (tries[l] > 0 => i <= event[l])
  /\ loop[l] \in Loop!Acting => /\ event[l] \in 1..Len(events)
                               /\ action[l] = Loop!Action(events[event[l]].payload)

Heard == \A l \in Loops : HeardBy(l)

LEMMA ActionIsTyped ==
  ASSUME NEW c \in Loop!Codes
  PROVE  Loop!Action(c) \in {"HOLD", "HEDGE", "ACCUMULATE"}
<1>1. Len(Loop!ActionNames) = 3
  BY DEF Loop!ActionNames
<1>2. CASE c = 3
  BY <1>1, <1>2 DEF Loop!Action
<1>3. CASE c \in 0..2
  BY <1>1, <1>3 DEF Loop!Action, Loop!ActionNames
<1> QED
  BY <1>2, <1>3 DEF Loop!Codes

\* A record of the log says what the loop decided, and what became of it.
LEMMA RecordIsTyped ==
  ASSUME Typed, NEW l \in Loops
  PROVE  Loop!Record(l) \in Loop!Records
<1>1. code[l] \in 0..2 /\ action[l] \in {"HOLD", "HEDGE", "ACCUMULATE"}
  BY DEF Typed, Loop!TypeOK
<1>2. Loop!Action(code[l]) \in {"HOLD", "HEDGE", "ACCUMULATE"}
  BY <1>1, ActionIsTyped DEF Loop!Codes
<1>3. Loop!Intent(action[l]) \in {"none", "USDC->WETH", "WETH->USDC"}
  BY <1>1 DEF Loop!Intent
<1> QED
  BY <1>2, <1>3 DEF Loop!Record, Loop!Records

\* Init starts with nothing published, moved or logged.
LEMMA InitTyped ==
  ASSUME Loop!LoopAssumption, Loop!Init
  PROVE  Typed
<1>1. safe \in [usdc : Nat, weth : Nat, nonce : Nat]
  BY DEF Loop!Init, Loop!LoopAssumption
<1>2. events \in Seq([by : Loops \cup {Foreign}, payload : Loop!Codes \cup {None}]) /\ Len(events) = 0
      /\ file \in Seq(Loop!Records) /\ Len(file) = 0 /\ written \in Seq(Loop!Records)
      /\ << >> \in Seq(Loop!Records)
  BY DEF Loop!Init
<1>3. /\ Len(file) <= LogSize
      /\ tries \in [Loops -> 0..Tries]
  BY <1>2 DEF Loop!Init, Loop!LoopAssumption
<1> QED
  BY <1>1, <1>2, <1>3 DEF Loop!Init, Typed, Loop!TypeOK

\* Steps that only move the loop on, and those of the market agent
LEMMA MarketTyped ==
  ASSUME Loop!LoopAssumption, Typed, NEW l \in Loops,
         \/ Loop!Start(l) \/ Loop!LoadConfig(l) \/ Loop!ReadMarketState(l) \/ Loop!PayForDecision(l)
         \/ Loop!SendBatch(l) \/ Loop!BatchReceipt(l) \/ Loop!VerifyDecision(l)
  PROVE  Typed'
<1>1. /\ loop' \in [Loops -> Positions]
      /\ UNCHANGED <<event, tries, action, Loop!execVars, Loop!fileVars, events, safe>>
  BY DEF Typed, Loop!TypeOK, Loop!Goto, Loop!Start, Loop!LoadConfig, Loop!ReadMarketState,
     Loop!PayForDecision, Loop!SendBatch,
         Loop!BatchReceipt, Loop!VerifyDecision, Loop!agentVars, Positions, Loop!Running, Loop!Executing,
         Loop!Ended
<1>2. code' \in [Loops -> 0..2]
  <2>1. CASE Loop!ReadMarketState(l)
    <3>1. PICK p \in Prices :
            code' = [code EXCEPT ![l] = Loop!Policy!TreasuryAction(<<Loop!Exposure(p), p>>, Thresholds)]
      BY <2>1 DEF Loop!ReadMarketState
    <3>2. Loop!Policy!TreasuryAction(<<Loop!Exposure(p), p>>, Thresholds) \in 0..2
      BY DEF Loop!Policy!TreasuryAction, Loop!Policy!Select, Loop!Policy!ACTION_HOLD,
         Loop!Policy!ACTION_HEDGE,
             Loop!Policy!ACTION_ACCUMULATE
    <3> QED
      BY <3>1, <3>2 DEF Typed, Loop!TypeOK
  <2> QED
    BY <2>1 DEF Typed, Loop!TypeOK, Loop!Start, Loop!LoadConfig, Loop!PayForDecision, Loop!SendBatch,
       Loop!BatchReceipt,
                Loop!VerifyDecision, Loop!agentVars
<1> QED
  BY <1>1, <1>2 DEF Typed, Loop!TypeOK, Loop!execVars, Loop!fileVars, Positions

\* Steps that publish
LEMMA PublishTyped ==
  ASSUME Loop!LoopAssumption, Typed, Loop!ForeignPublish \/ \E l \in Loops : Loop!Publish(l)
  PROVE  Typed'
<1>1. events' = events \/ \E e \in [by : Loops \cup {Foreign}, payload : Loop!Codes \cup {None}] : events' = Append(events, e)
  <2>1. CASE Loop!ForeignPublish
    BY <2>1 DEF Loop!ForeignPublish
  <2>2. CASE \E l \in Loops : Loop!Publish(l)
    <3>1. PICK l \in Loops : events' = Append(events, [by |-> l, payload |-> code[l]]) \/ UNCHANGED events
      BY <2>2 DEF Loop!Publish
    <3>2. code[l] \in Loop!Codes
      BY DEF Typed, Loop!TypeOK, Loop!Codes
    <3> QED
      BY <3>1, <3>2
  <2> QED
    BY <2>1, <2>2
<1>2. events' \in Seq([by : Loops \cup {Foreign}, payload : Loop!Codes \cup {None}])
      /\ Len(events) \in Nat /\ Len(events') \in Nat /\ Len(events) <= Len(events')
  <2> DEFINE T == [by : Loops \cup {Foreign}, payload : Loop!Codes \cup {None}]
  <2>1. events \in Seq(T) /\ Len(events) \in Nat
    BY DEF Typed, Loop!TypeOK
  <2>2. CASE events' = events
    BY <2>1, <2>2
  <2>3. ASSUME NEW e \in T, events' = Append(events, e)
        PROVE  events' \in Seq(T) /\ Len(events') = Len(events) + 1
    <3> HIDE DEF T
    <3> QED
      BY <2>1, <2>3, AppendProperties
  <2>4. Len(events) <= Len(events) + 1 /\ Len(events) + 1 \in Nat
    BY <2>1
  <2> QED
    BY <1>1, <2>1, <2>2, <2>3, <2>4
<1>3. loop' \in [Loops -> Positions]
  BY DEF Typed, Loop!TypeOK, Loop!ForeignPublish, Loop!Publish, Loop!Goto, Positions, Loop!Running
<1>4. UNCHANGED <<Loop!agentVars, Loop!execVars, Loop!fileVars, safe>>
  BY DEF Loop!ForeignPublish, Loop!Publish
<1>5. \A l \in Loops : event'[l] \in 0..Len(events')
  BY <1>2, <1>4 DEF Loop!agentVars, Typed, Loop!TypeOK
<1> QED
  BY <1>2, <1>3, <1>4, <1>5 DEF Typed, Loop!TypeOK, Loop!agentVars, Loop!execVars, Loop!fileVars, Positions

\* Steps of the treasury agent
LEMMA AgentTyped ==
  ASSUME Loop!LoopAssumption, Typed, NEW l \in Loops,
         Loop!ReadEventId(l) \/ Loop!ConsumeRetry(l) \/ Loop!Consume(l)
  PROVE  Typed'
<1>1. UNCHANGED <<code, Loop!execVars, Loop!fileVars, events, safe>>
  BY DEF Loop!ReadEventId, Loop!ConsumeRetry, Loop!Consume
<1>2. loop' \in [Loops -> Positions]
  <2>1. loop' = loop \/ \E to \in Positions : loop' = [loop EXCEPT ![l] = to]
    BY DEF Loop!ReadEventId, Loop!ConsumeRetry, Loop!Consume, Loop!Goto, Positions, Loop!Running, Loop!Ended
  <2> QED
    BY <2>1 DEF Typed, Loop!TypeOK, Positions
<1>3. Len(events) \in Nat
  BY DEF Typed, Loop!TypeOK
<1>4. event' \in [Loops -> Nat] /\ \A k \in Loops : event'[k] \in 0..Len(events)
  <2>1. event' = event \/ event' = [event EXCEPT ![l] = Len(events)]
    BY DEF Loop!ReadEventId, Loop!ConsumeRetry, Loop!Consume
  <2>2. event \in [Loops -> Nat] /\ \A k \in Loops : event[k] \in 0..Len(events)
    BY DEF Typed, Loop!TypeOK
  <2> QED
    BY <1>3, <2>1, <2>2
<1>5. tries' \in [Loops -> 0..Tries]
  <2>1. \/ tries' = tries \/ tries' = [tries EXCEPT ![l] = 1]
        \/ tries[l] < Tries /\ tries' = [tries EXCEPT ![l] = @ + 1]
    BY DEF Loop!ReadEventId, Loop!ConsumeRetry, Loop!Consume
  <2>2. tries \in [Loops -> 0..Tries] /\ Tries \in Nat /\ 1 \in 0..Tries
    BY DEF Typed, Loop!TypeOK, Loop!LoopAssumption
  <2>3. tries[l] < Tries => tries[l] + 1 \in 0..Tries
    BY <2>2
  <2> QED
    BY <2>1, <2>2, <2>3
<1>6. action' \in [Loops -> {"HOLD", "HEDGE", "ACCUMULATE"}]
  <2>1. CASE Loop!Consume(l)
    <3>1. event[l] \in 1..Len(events)
      BY <1>3, <2>1 DEF Typed, Loop!TypeOK, Loop!Consume
    <3>2. events[event[l]] \in [by : Loops \cup {Foreign}, payload : Loop!Codes \cup {None}]
      BY <3>1, ElementOfSeq DEF Typed, Loop!TypeOK
    <3>3. Loop!Action(events[event[l]].payload) \in {"HOLD", "HEDGE", "ACCUMULATE"}
      BY <2>1, <3>2, ActionIsTyped DEF Loop!Consume
    <3> QED
      BY <2>1, <3>3 DEF Loop!Consume, Typed, Loop!TypeOK
  <2> QED
    BY <2>1 DEF Loop!ReadEventId, Loop!ConsumeRetry, Typed, Loop!TypeOK
<1> QED
  BY <1>1, <1>2, <1>4, <1>5, <1>6 DEF Typed, Loop!TypeOK, Loop!execVars, Loop!fileVars, Positions

\* Steps that read and move the Safe
LEMMA SafeTyped ==
  ASSUME Loop!LoopAssumption, Typed, NEW l \in Loops,
         Loop!EnsureFunds(l) \/ Loop!TopUp(l) \/ Loop!SignBatch(l) \/ Loop!MineBatch(l)
  PROVE  Typed'
<1>1. UNCHANGED <<Loop!agentVars, Loop!fileVars, events>>
  BY DEF Loop!EnsureFunds, Loop!TopUp, Loop!SignBatch, Loop!MineBatch, Loop!execVars
<1>2. loop' \in [Loops -> Positions]
  <2>1. \E to \in Positions : loop' = [loop EXCEPT ![l] = to]
    BY DEF Loop!EnsureFunds, Loop!TopUp, Loop!SignBatch, Loop!MineBatch, Loop!Goto, Positions,
       Loop!Running, Loop!Executing
  <2> QED
    BY <2>1 DEF Typed, Loop!TypeOK, Positions
<1>3. /\ UsdcUnit \in Nat \ {0} /\ WethUnit \in Nat \ {0} /\ Step \in Nat /\ Prices \subseteq Nat \ {0}
      /\ safe \in [usdc : Nat, weth : Nat, nonce : Nat]
      /\ safe.usdc \in Nat /\ safe.weth \in Nat /\ safe.nonce \in Nat
  BY DEF Loop!LoopAssumption, Typed, Loop!TypeOK
<1>4. top' \in [Loops -> Nat] /\ txNonce' \in [Loops -> Nat]
  <2>1. \/ top' = top
        \/ safe.usdc < Step /\ top' = [top EXCEPT ![l] = Step - safe.usdc + UsdcUnit]
    BY DEF Loop!EnsureFunds, Loop!TopUp, Loop!SignBatch, Loop!MineBatch, Loop!execVars
  <2>2. safe.usdc < Step => Step - safe.usdc + UsdcUnit \in Nat
    BY <1>3
  <2>3. txNonce' = txNonce \/ txNonce' = [txNonce EXCEPT ![l] = safe.nonce]
    BY DEF Loop!EnsureFunds, Loop!TopUp, Loop!SignBatch, Loop!MineBatch, Loop!execVars
  <2>4. top \in [Loops -> Nat] /\ txNonce \in [Loops -> Nat]
    BY DEF Typed, Loop!TypeOK
  <2> QED
    BY <1>3, <2>1, <2>2, <2>3, <2>4
<1>5. /\ receipt' \in [Loops -> [ok : BOOLEAN, received : Nat] \cup {None}]
      /\ safe' \in [usdc : Nat, weth : Nat, nonce : Nat]
  <2>1. CASE Loop!MineBatch(l)
    <3> DEFINE buys == Loop!Intent(action[l]) = "USDC->WETH"
               bought(p) == IF buys THEN (Step * WethUnit) \div (p * UsdcUnit)
                                    ELSE (Step * p * UsdcUnit) \div WethUnit
               fits == Loop!BatchSucceeds(l)
    <3>1. PICK p \in Prices :
            /\ receipt' = [receipt EXCEPT ![l] = [ok |-> fits, received |-> IF fits THEN bought(p) ELSE 0]]
            /\ safe' = IF ~fits THEN safe
                       ELSE IF buys
                       THEN [usdc |-> safe.usdc - Step, weth |-> safe.weth + bought(p),
                             nonce |-> safe.nonce + 1]
                       ELSE [usdc |-> safe.usdc + bought(p), weth |-> safe.weth - Step,
                             nonce |-> safe.nonce + 1]
      BY <2>1 DEF Loop!MineBatch
    <3>2. bought(p) \in Nat
      <4>1. p \in Nat \ {0} /\ Step * WethUnit \in Nat /\ Step * p \in Nat
        BY <1>3, ProductIsNat
      <4>2. p * UsdcUnit \in Nat \ {0} /\ Step * p * UsdcUnit \in Nat
        BY <1>3, <4>1, ProductIsNat, ProductIsPositive
      <4> QED
        BY <1>3, <4>1, <4>2, QuotientIsNat
    <3>3. fits \in BOOLEAN /\ (fits /\ buys => safe.usdc - Step \in Nat)
          /\ (fits /\ ~buys => safe.weth - Step \in Nat)
      BY <1>3 DEF Loop!BatchSucceeds
    <3> HIDE DEF bought, buys, fits
    <3>4. PICK b \in Nat : b = bought(p)
      BY <3>2
    <3>5. [ok |-> fits, received |-> IF fits THEN b ELSE 0] \in [ok : BOOLEAN, received : Nat]
      BY <3>3
    <3>6. receipt' \in [Loops -> [ok : BOOLEAN, received : Nat] \cup {None}]
      BY <3>1, <3>4, <3>5 DEF Typed, Loop!TypeOK
    <3>7. safe.usdc + b \in Nat /\ safe.weth + b \in Nat /\ safe.nonce + 1 \in Nat
      BY <1>3
    <3>8. safe' \in [usdc : Nat, weth : Nat, nonce : Nat]
      BY <1>3, <3>1, <3>3, <3>4, <3>7
    <3> QED
      BY <3>6, <3>8
  <2>2. CASE Loop!TopUp(l)
    <3>1. top[l] \in Nat
      BY DEF Typed, Loop!TypeOK
    <3>2. safe.usdc + top[l] \in Nat
      BY <1>3, <3>1
    <3> QED
      BY <1>3, <2>2, <3>2 DEF Loop!TopUp, Loop!execVars, Typed, Loop!TypeOK
  <2>3. CASE Loop!EnsureFunds(l) \/ Loop!SignBatch(l)
    BY <2>3 DEF Loop!EnsureFunds, Loop!SignBatch, Typed, Loop!TypeOK
  <2> QED
    BY <2>1, <2>2, <2>3
<1>6. overlapped' \subseteq Loops
  BY DEF Loop!EnsureFunds, Loop!TopUp, Loop!SignBatch, Loop!MineBatch, Loop!execVars, Typed, Loop!TypeOK,
     Loop!UsersOfSafe
<1> QED
  BY <1>1, <1>2, <1>4, <1>5, <1>6 DEF Typed, Loop!TypeOK, Loop!agentVars, Loop!fileVars, Positions

\* Steps that keep the log, and a stop
LEMMA LogTyped ==
  ASSUME Loop!LoopAssumption, Typed, NEW l \in Loops,
         Loop!ReadActivity(l) \/ Loop!WriteActivity(l) \/ Loop!Stop(l)
  PROVE  Typed'
<1>1. UNCHANGED <<Loop!agentVars, Loop!execVars, events, safe>>
  BY DEF Loop!ReadActivity, Loop!WriteActivity, Loop!Stop
<1>2. loop' \in [Loops -> Positions]
  BY DEF Typed, Loop!TypeOK, Loop!ReadActivity, Loop!WriteActivity, Loop!Stop, Loop!Goto, Positions,
     Loop!Running, Loop!Ended
<1>3. clean' \in BOOLEAN
  BY DEF Typed, Loop!TypeOK, Loop!ReadActivity, Loop!WriteActivity, Loop!Stop
<1>4. CASE Loop!ReadActivity(l)
  <2>1. (IF file = Torn THEN << >> ELSE file) \in Seq(Loop!Records)
    BY DEF Typed, Loop!TypeOK
  <2>2. snapshot' \in [Loops -> Seq(Loop!Records)]
    BY <1>4, <2>1 DEF Loop!ReadActivity, Typed
  <2> QED
    BY <1>1, <1>2, <1>3, <1>4, <2>2 DEF Loop!ReadActivity, Typed, Loop!TypeOK, Loop!agentVars,
       Loop!execVars, Positions
<1>5. CASE Loop!WriteActivity(l)
  <2>1. Loop!Record(l) \in Loop!Records
    BY RecordIsTyped
  <2>2. Append(snapshot[l], Loop!Record(l)) \in Seq(Loop!Records) /\ Append(written, Loop!Record(l)) \in Seq(Loop!Records)
    BY <2>1, AppendProperties DEF Typed
  <2>3. file' \in Seq(Loop!Records) /\ Len(file') <= LogSize
    <3> DEFINE s == Append(snapshot[l], Loop!Record(l))
    <3>1. s \in Seq(Loop!Records) /\ Len(s) \in Nat
      BY <2>2
    <3> HIDE DEF s
    <3>2. Loop!LastOf(s) \in Seq(Loop!Records) /\ Len(Loop!LastOf(s)) = IF Len(s) < LogSize THEN Len(s) ELSE LogSize
      BY <3>1, LastOfProperties DEF Loop!LoopAssumption
    <3>3. file' = Loop!LastOf(s)
      BY <1>5 DEF Loop!WriteActivity, s
    <3> QED
      BY <3>1, <3>2, <3>3 DEF Loop!LoopAssumption
  <2> QED
    BY <1>1, <1>2, <1>3, <1>5, <2>2, <2>3
       DEF Loop!WriteActivity, Typed, Loop!TypeOK, Loop!agentVars, Loop!execVars, Positions
<1>6. CASE Loop!Stop(l)
  BY <1>1, <1>2, <1>3, <1>6 DEF Loop!Stop, Typed, Loop!TypeOK, Loop!agentVars, Loop!execVars, Positions
<1> QED
  BY <1>4, <1>5, <1>6

-----------------------------------------------------------------------------
Event == [by : Loops \cup {Foreign}, payload : Loop!Codes \cup {None}]

\* What a loop hears does not depend on what the others publish.
LEMMA HeardOthers ==
  ASSUME Typed, NEW l \in Loops, HeardBy(l),
         loop'[l] = loop[l], code'[l] = code[l], event'[l] = event[l], tries'[l] = tries[l],
         action'[l] = action[l],
         events' = events \/ \E e \in Event : e.by # l /\ events' = Append(events, e)
  PROVE  HeardBy(l)'
<1>1. events \in Seq(Event) /\ Len(events) \in Nat
  BY DEF Typed, Loop!TypeOK, Event
<1>2. CASE events' = events
  BY <1>2 DEF HeardBy, Loop!Action, Loop!ActionNames
<1>3. ASSUME NEW e \in Event, e.by # l, events' = Append(events, e)
      PROVE  HeardBy(l)'
  <2>1. /\ Len(events') = Len(events) + 1 /\ events'[Len(events) + 1] = e
        /\ \A i \in 1..Len(events) : events'[i] = events[i]
    BY <1>1, <1>3, AppendProperties
  <2>2. \A i \in 1..Len(events') : events'[i].by = l => i \in 1..Len(events) /\ events'[i] = events[i]
    BY <1>1, <1>3, <2>1
  <2>3. \A i \in 1..Len(events') : events'[i].by = l =>
          loop'[l] \notin Before /\ events'[i].payload = code'[l] /\ (tries'[l] > 0 => i <= event'[l])
    BY <2>2 DEF HeardBy
  <2>4. loop'[l] \in Loop!Acting => /\ event'[l] \in 1..Len(events')
                                    /\ action'[l] = Loop!Action(events'[event'[l]].payload)
    BY <1>1, <2>1 DEF HeardBy
  <2> QED
    BY <2>3, <2>4 DEF HeardBy, Before, Market, Loop!Acting, Loop!Executing, Loop!Action, Loop!ActionNames
<1> QED
  BY <1>2, <1>3

\* A loop that moves on hears nothing else.
LEMMA HeardMovesOn ==
  ASSUME NEW l \in Loops, HeardBy(l), UNCHANGED events,
         code'[l] = code[l] \/ loop[l] \in Before, event'[l] = event[l], action'[l] = action[l],
         \/ tries'[l] = tries[l]
         \/ loop[l] = "consuming" /\ loop'[l] = "consuming" /\ tries'[l] > 0,
         \/ loop'[l] = loop[l]
         \/ loop'[l] \in Market /\ loop[l] \in Before
         \/ loop'[l] \in Loop!Acting /\ loop[l] \in Loop!Acting
         \/ loop'[l] = "failed",
         loop'[l] \in Before => loop[l] \in Before
  PROVE  HeardBy(l)'
<1>1. /\ loop'[l] \in Market => loop[l] \in Market /\ tries'[l] = tries[l]
      /\ loop'[l] = "consuming" => loop[l] = "consuming"
      /\ loop'[l] \in Loop!Acting => loop[l] \in Loop!Acting
  BY DEF Before, Market, Loop!Acting, Loop!Executing
<1>2. \A i \in 1..Len(events) : events[i].by = l =>
        loop'[l] \notin Before /\ events[i].payload = code'[l] /\ (tries'[l] > 0 => i <= event'[l])
  BY DEF HeardBy
<1>3. loop'[l] \in Loop!Acting => /\ event'[l] \in 1..Len(events)
                                  /\ action'[l] = Loop!Action(events[event'[l]].payload)
  BY <1>1 DEF HeardBy
<1>4. /\ loop'[l] \in Market => tries'[l] = 0
      /\ loop'[l] = "consuming" => tries'[l] > 0
  BY <1>1 DEF HeardBy
<1> QED
  BY <1>2, <1>3, <1>4 DEF HeardBy, Before, Market, Loop!Acting, Loop!Executing, Loop!Action, Loop!ActionNames

\* eventbus.ts: what a loop takes for its event is no older than its own.
LEMMA HeardStep ==
  ASSUME Loop!LoopAssumption, Typed, Heard, [Loop!Next]_(Loop!vars)
  PROVE  Heard'
<1>1. /\ events \in Seq(Event) /\ Len(events) \in Nat
      /\ event \in [Loops -> Nat] /\ loop \in [Loops -> Positions]
      /\ code \in [Loops -> 0..2] /\ tries \in [Loops -> 0..Tries] /\ DOMAIN action = Loops
      /\ \A l \in Loops : event[l] \in 0..Len(events) /\ HeardBy(l)
      /\ Foreign \notin Loops
  BY DEF Typed, Loop!TypeOK, Positions, Heard, Event, Loop!LoopAssumption
<1>2. CASE Loop!ForeignPublish
  <2>1. PICK e \in Event : e.by = Foreign /\ events' = Append(events, e)
    BY <1>2 DEF Loop!ForeignPublish, Event
  <2>2. UNCHANGED <<loop, code, event, tries, action>>
    BY <1>2 DEF Loop!ForeignPublish, Loop!agentVars
  <2>3. ASSUME NEW k \in Loops
        PROVE  HeardBy(k)'
    BY <1>1, <2>1, <2>2, HeardOthers
  <2> QED
    BY <2>3 DEF Heard
<1>3. ASSUME NEW l \in Loops, Loop!Publish(l)
      PROVE  Heard'
  <2> DEFINE e == [by |-> l, payload |-> code[l]]
  <2>1. /\ loop[l] = "publishing" /\ loop' = [loop EXCEPT ![l] = "published"]
        /\ UNCHANGED <<code, event, tries, action>> /\ (events' = Append(events, e) \/ events' = events)
    BY <1>3 DEF Loop!Publish, Loop!Goto, Loop!agentVars
  <2>2. e \in Event /\ e.by = l /\ e.payload = code[l]
    BY <1>1 DEF Event, Loop!Codes
  <2> HIDE DEF e
  <2>3. ASSUME NEW k \in Loops, k # l
        PROVE  HeardBy(k)'
    <3>1. loop'[k] = loop[k] /\ (events' = events \/ \E d \in Event : d.by # k /\ events' = Append(events, d))
      BY <1>1, <2>1, <2>2, <2>3
    <3> QED
      BY <1>1, <2>1, <3>1, HeardOthers
  <2>4. tries[l] = 0 /\ \A i \in 1..Len(events) : events[i].by # l
    BY <1>1, <2>1 DEF HeardBy, Before, Market
  <2>5. \A i \in 1..Len(events') : events'[i].by = l => events'[i].payload = code[l]
    <3>1. CASE events' = events
      BY <2>4, <3>1
    <3>2. CASE events' = Append(events, e)
      <4>1. /\ Len(events') = Len(events) + 1 /\ events'[Len(events) + 1] = e
            /\ \A i \in 1..Len(events) : events'[i] = events[i]
        BY <1>1, <2>2, <3>2, AppendProperties
      <4>2. ASSUME NEW i \in 1..Len(events')
            PROVE  i = Len(events) + 1 \/ (i \in 1..Len(events) /\ events'[i].by # l)
        BY <1>1, <2>4, <4>1
      <4> QED
        BY <2>2, <4>1, <4>2
    <3> QED
      BY <2>1, <3>1, <3>2
  <2>6. HeardBy(l)'
    BY <1>1, <2>1, <2>4, <2>5 DEF HeardBy, Before, Market, Loop!Acting, Loop!Executing
  <2> QED
    BY <2>3, <2>6 DEF Heard
<1>4. ASSUME NEW l \in Loops, Loop!ReadEventId(l)
      PROVE  Heard'
  <2>1. /\ loop[l] = "published" /\ loop' = [loop EXCEPT ![l] = "consuming"]
        /\ event' = [event EXCEPT ![l] = Len(events)] /\ tries' = [tries EXCEPT ![l] = 1]
        /\ UNCHANGED <<code, action, events>>
    BY <1>4 DEF Loop!ReadEventId, Loop!Goto
  <2>2. ASSUME NEW k \in Loops, k # l
        PROVE  HeardBy(k)'
    <3>1. loop'[k] = loop[k] /\ event'[k] = event[k] /\ tries'[k] = tries[k]
      BY <1>1, <2>1, <2>2
    <3> QED
      BY <1>1, <2>1, <3>1, HeardOthers
  <2>3. loop'[l] = "consuming" /\ event'[l] = Len(events) /\ tries'[l] = 1
    BY <1>1, <2>1
  <2>4. \A i \in 1..Len(events) : events[i].by = l => events[i].payload = code[l] /\ i <= Len(events)
    BY <1>1 DEF HeardBy
  <2>5. HeardBy(l)'
    BY <2>1, <2>3, <2>4 DEF HeardBy, Before, Market, Loop!Acting, Loop!Executing
  <2> QED
    BY <2>2, <2>5 DEF Heard
<1>5. ASSUME NEW l \in Loops, Loop!Consume(l)
      PROVE  Heard'
  <2>1. /\ loop[l] = "consuming" /\ event[l] # 0
        /\ action' = [action EXCEPT ![l] = Loop!Action(events[event[l]].payload)]
        /\ loop' = [loop EXCEPT ![l] = "verifying"] \/ loop' = [loop EXCEPT ![l] = "funding"]
        /\ UNCHANGED <<code, event, tries, events>>
    BY <1>5 DEF Loop!Consume, Loop!Goto
  <2>2. ASSUME NEW k \in Loops, k # l
        PROVE  HeardBy(k)'
    <3>1. loop'[k] = loop[k] /\ action'[k] = action[k]
      BY <1>1, <2>1, <2>2
    <3> QED
      BY <1>1, <2>1, <3>1, HeardOthers
  <2>3. /\ loop'[l] \in {"verifying", "funding"} /\ action'[l] = Loop!Action(events[event[l]].payload)
        /\ event[l] \in 1..Len(events)
    BY <1>1, <2>1
  <2>4. \A i \in 1..Len(events) : events[i].by = l => events[i].payload = code[l] /\ (tries[l] > 0 => i <= event[l])
    BY <1>1 DEF HeardBy
  <2>5. HeardBy(l)'
    BY <2>1, <2>3, <2>4 DEF HeardBy, Before, Market, Loop!Acting, Loop!Executing, Loop!Action, Loop!ActionNames
  <2> QED
    BY <2>2, <2>5 DEF Heard
<1>6. ASSUME NEW l \in Loops,
             \/ Loop!Start(l) \/ Loop!LoadConfig(l) \/ Loop!ReadMarketState(l) \/ Loop!PayForDecision(l) \/ Loop!ConsumeRetry(l)
             \/ Loop!EnsureFunds(l) \/ Loop!TopUp(l) \/ Loop!SignBatch(l) \/ Loop!SendBatch(l) \/ Loop!MineBatch(l)
             \/ Loop!BatchReceipt(l) \/ Loop!VerifyDecision(l) \/ Loop!ReadActivity(l) \/ Loop!WriteActivity(l) \/ Loop!Stop(l)
      PROVE  Heard'
  <2>1. UNCHANGED <<event, action, events>>
    BY <1>6 DEF Loop!Start, Loop!LoadConfig, Loop!ReadMarketState, Loop!PayForDecision,
       Loop!ConsumeRetry, Loop!EnsureFunds, Loop!TopUp, Loop!SignBatch, Loop!SendBatch, Loop!MineBatch,
       Loop!BatchReceipt, Loop!VerifyDecision, Loop!ReadActivity, Loop!WriteActivity, Loop!Stop, Loop!agentVars
  <2>2. /\ code' = code \/ (loop[l] \in Before /\ \A k \in Loops : k # l => code'[k] = code[k])
        /\ tries' = tries \/ (/\ loop[l] = "consuming" /\ loop' = loop
                              /\ tries' = [tries EXCEPT ![l] = @ + 1])
    BY <1>1, <1>6 DEF Loop!Start, Loop!LoadConfig, Loop!ReadMarketState, Loop!PayForDecision,
       Loop!ConsumeRetry, Loop!EnsureFunds, Loop!TopUp, Loop!SignBatch, Loop!SendBatch, Loop!MineBatch,
       Loop!BatchReceipt, Loop!VerifyDecision, Loop!ReadActivity, Loop!WriteActivity, Loop!Stop,
       Loop!agentVars, Loop!Goto, Before
  <2>3. \/ loop' = loop
        \/ \E to \in Market : loop' = [loop EXCEPT ![l] = to] /\ loop[l] \in Before
        \/ \E to \in Loop!Acting : loop' = [loop EXCEPT ![l] = to] /\ loop[l] \in Loop!Acting
        \/ loop' = [loop EXCEPT ![l] = "failed"]
    BY <1>6 DEF Loop!Start, Loop!LoadConfig, Loop!ReadMarketState, Loop!PayForDecision,
       Loop!ConsumeRetry, Loop!EnsureFunds, Loop!TopUp, Loop!SignBatch, Loop!SendBatch, Loop!MineBatch,
       Loop!BatchReceipt, Loop!VerifyDecision, Loop!ReadActivity, Loop!WriteActivity, Loop!Stop,
       Loop!Goto, Before, Market, Loop!Acting, Loop!Executing
  <2>4. ASSUME NEW k \in Loops, k # l
        PROVE  HeardBy(k)'
    <3>1. loop'[k] = loop[k] /\ code'[k] = code[k] /\ tries'[k] = tries[k]
      BY <1>1, <2>2, <2>3, <2>4
    <3> QED
      BY <1>1, <2>1, <3>1, HeardOthers
  <2>5. HeardBy(l)'
    <3>1. code'[l] = code[l] \/ loop[l] \in Before
      BY <2>2
    <3>2. \/ tries'[l] = tries[l]
          \/ loop[l] = "consuming" /\ loop'[l] = "consuming" /\ tries'[l] > 0
      BY <1>1, <2>2
    <3>3. \/ loop'[l] = loop[l]
          \/ loop'[l] \in Market /\ loop[l] \in Before
          \/ loop'[l] \in Loop!Acting /\ loop[l] \in Loop!Acting
          \/ loop'[l] = "failed"
      BY <1>1, <2>3
    <3>4. loop'[l] \in Before => loop[l] \in Before
      BY <3>3 DEF Before, Market, Loop!Acting, Loop!Executing
    <3> QED
      BY <1>1, <2>1, <3>1, <3>2, <3>3, <3>4, HeardMovesOn
  <2> QED
    BY <2>4, <2>5 DEF Heard
<1>7. CASE UNCHANGED Loop!vars
  <2>1. UNCHANGED <<loop, code, event, tries, action, events>>
    BY <1>7 DEF Loop!vars, Loop!agentVars
  <2>2. \A k \in Loops : HeardBy(k)'
    BY <1>1, <2>1, HeardOthers
  <2> QED
    BY <2>2 DEF Heard
<1> QED
  BY <1>2, <1>3, <1>4, <1>5, <1>6, <1>7 DEF Loop!Next, Loop!Proceed

\* execute.ts: a loop that met no other one at the Safe has it to itself, and sends its swap
\* to succeed as simulated.
Alone ==
  \A l \in Loops \ overlapped :
    /\ loop[l] \in Loop!Executing => \A m \in Loops : loop[m] \in Loop!Executing => m = l
    /\ loop[l] = "swapping" => Loop!BatchSucceeds(l)
    /\ receipt[l] # None => receipt[l].ok

LEMMA AloneStep ==
  ASSUME Typed, Alone, [Loop!Next]_(Loop!vars)
  PROVE  Alone'
<1>1. /\ loop \in [Loops -> Positions] /\ overlapped \subseteq Loops
      /\ receipt \in [Loops -> [ok : BOOLEAN, received : Nat] \cup {None}]
  BY DEF Typed, Loop!TypeOK, Positions
<1>2. ASSUME UNCHANGED <<overlapped, receipt, txNonce, action, safe>>,
             \A k \in Loops : \/ loop'[k] = loop[k]
                              \/ loop'[k] \notin Loop!Executing
                              \/ loop[k] \in Loop!Executing /\ (loop'[k] = "swapping" => Loop!BatchSucceeds(k))
      PROVE  Alone'
  BY <1>2 DEF Alone, Loop!BatchSucceeds, Loop!Executing
<1>3. ASSUME NEW l \in Loops,
             \/ Loop!Start(l) \/ Loop!LoadConfig(l) \/ Loop!ReadMarketState(l) \/ Loop!PayForDecision(l)
             \/ Loop!Publish(l) \/ Loop!ReadEventId(l) \/ Loop!ConsumeRetry(l)
             \/ Loop!SendBatch(l) \/ Loop!BatchReceipt(l) \/ Loop!VerifyDecision(l)
             \/ Loop!ReadActivity(l) \/ Loop!WriteActivity(l) \/ Loop!Stop(l)
      PROVE  Alone'
  <2>1. UNCHANGED <<overlapped, receipt, txNonce, action, safe>>
    BY <1>3 DEF Loop!Start, Loop!LoadConfig, Loop!ReadMarketState, Loop!PayForDecision, Loop!Publish,
       Loop!ReadEventId, Loop!ConsumeRetry,
                Loop!SendBatch, Loop!BatchReceipt, Loop!VerifyDecision, Loop!ReadActivity,
                Loop!WriteActivity, Loop!Stop,
                Loop!agentVars, Loop!execVars
  <2>2. \A k \in Loops : \/ loop'[k] = loop[k]
                         \/ loop'[k] \notin Loop!Executing
                         \/ loop[k] \in Loop!Executing /\ (loop'[k] = "swapping" => Loop!BatchSucceeds(k))
    BY <1>1, <1>3 DEF Loop!Start, Loop!LoadConfig, Loop!ReadMarketState, Loop!PayForDecision,
       Loop!Publish, Loop!ReadEventId,
                Loop!ConsumeRetry, Loop!SendBatch, Loop!BatchReceipt, Loop!VerifyDecision,
                Loop!ReadActivity, Loop!WriteActivity,
                Loop!Stop, Loop!Goto, Loop!Executing
  <2> QED
    BY <1>2, <2>1, <2>2
<1>4. ASSUME NEW l \in Loops, Loop!Consume(l)
      PROVE  Alone'
  <2>1. UNCHANGED <<overlapped, receipt, txNonce, safe>>
    BY <1>4 DEF Loop!Consume, Loop!execVars
  <2>2. /\ loop[l] = "consuming"
        /\ loop' = [loop EXCEPT ![l] = "verifying"] \/ loop' = [loop EXCEPT ![l] = "funding"]
        /\ \A k \in Loops : k # l => action'[k] = action[k]
    BY <1>1, <1>4 DEF Loop!Consume, Loop!Goto, Typed, Loop!TypeOK
  <2> QED
    BY <1>1, <2>1, <2>2 DEF Alone, Loop!BatchSucceeds, Loop!Executing
<1>5. ASSUME NEW l \in Loops, Loop!EnsureFunds(l)
      PROVE  Alone'
  <2>1. UNCHANGED <<receipt, txNonce, action, safe>>
    BY <1>5 DEF Loop!EnsureFunds, Loop!agentVars
  <2>2. /\ loop[l] = "funding"
        /\ \E to \in {"toppingUp", "batching", "verifying"} : loop' = [loop EXCEPT ![l] = to]
        /\ overlapped' = overlapped \cup (IF Loop!UsersOfSafe = {} THEN {} ELSE Loop!UsersOfSafe \cup {l})
    BY <1>5 DEF Loop!EnsureFunds, Loop!Goto
  <2>3. CASE Loop!UsersOfSafe = {}
    BY <1>1, <2>1, <2>2, <2>3 DEF Alone, Loop!BatchSucceeds, Loop!Executing, Loop!UsersOfSafe
  <2>4. CASE Loop!UsersOfSafe # {}
    BY <1>1, <2>1, <2>2, <2>4 DEF Alone, Loop!BatchSucceeds, Loop!Executing, Loop!UsersOfSafe
  <2> QED
    BY <2>3, <2>4
<1>6. ASSUME NEW l \in Loops, Loop!TopUp(l)
      PROVE  Alone'
  <2>1. /\ UNCHANGED <<overlapped, receipt, txNonce, action>>
        /\ loop[l] = "toppingUp" /\ loop' = [loop EXCEPT ![l] = "batching"]
    BY <1>6 DEF Loop!TopUp, Loop!Goto, Loop!agentVars, Loop!execVars
  <2>2. \A k \in Loops \ overlapped : loop[k] # "swapping"
    BY <2>1 DEF Alone, Loop!Executing
  <2> QED
    BY <1>1, <2>1, <2>2 DEF Alone, Loop!BatchSucceeds, Loop!Executing
<1>7. ASSUME NEW l \in Loops, Loop!SignBatch(l)
      PROVE  Alone'
  <2>1. /\ UNCHANGED <<overlapped, receipt, action, safe>>
        /\ txNonce' = [txNonce EXCEPT ![l] = safe.nonce]
        /\ loop[l] = "batching" /\ loop' = [loop EXCEPT ![l] = "sending"]
    BY <1>7 DEF Loop!SignBatch, Loop!Goto, Loop!agentVars, Loop!execVars
  <2>2. \A k \in Loops : k # l => txNonce'[k] = txNonce[k]
    BY <2>1 DEF Typed, Loop!TypeOK
  <2> QED
    BY <1>1, <2>1, <2>2 DEF Alone, Loop!BatchSucceeds, Loop!Executing
<1>8. ASSUME NEW l \in Loops, Loop!MineBatch(l)
      PROVE  Alone'
  <2>1. /\ UNCHANGED <<overlapped, txNonce, action>>
        /\ loop[l] = "swapping" /\ loop' = [loop EXCEPT ![l] = "swapped"]
    BY <1>8 DEF Loop!MineBatch, Loop!Goto, Loop!agentVars
  <2>2. \E n : receipt' = [receipt EXCEPT ![l] = [ok |-> Loop!BatchSucceeds(l), received |-> n]]
    BY <1>8 DEF Loop!MineBatch
  <2>3. receipt'[l].ok = Loop!BatchSucceeds(l) /\ \A k \in Loops : k # l => receipt'[k] = receipt[k]
    BY <1>1, <2>2
  <2>4. \A k \in Loops \ overlapped : k # l => loop[k] # "swapping"
    BY <2>1 DEF Alone, Loop!Executing
  <2> QED
    BY <1>1, <2>1, <2>3, <2>4 DEF Alone, Loop!Executing
<1>9. CASE Loop!ForeignPublish
  BY <1>2, <1>9 DEF Loop!ForeignPublish, Loop!agentVars, Loop!execVars
<1>10. CASE UNCHANGED Loop!vars
  BY <1>2, <1>10 DEF Loop!vars, Loop!agentVars, Loop!execVars
<1> QED
  BY <1>3, <1>4, <1>5, <1>6, <1>7, <1>8, <1>9, <1>10 DEF Loop!Next, Loop!Proceed

-----------------------------------------------------------------------------
\* activity.ts: while nothing overlaps or is cut short, the loop that appends has just read
\* the log, which is the end of what was written.
Recent ==
  clean =>
    /\ file = Loop!LastOf(written) /\ file # Torn
    /\ \A l \in Loops : loop[l] = "writing" =>
         snapshot[l] = file /\ \A m \in Loops : loop[m] = "writing" => m = l

LEMMA RecentStep ==
  ASSUME Loop!LoopAssumption, Typed, Recent, [Loop!Next]_(Loop!vars)
  PROVE  Recent'
<1>1. /\ loop \in [Loops -> Positions] /\ snapshot \in [Loops -> Seq(Loop!Records)]
      /\ written \in Seq(Loop!Records) /\ clean \in BOOLEAN
  BY DEF Typed, Loop!TypeOK, Positions
<1>2. ASSUME UNCHANGED Loop!fileVars,
             \A k \in Loops : loop'[k] = "writing" => loop[k] = "writing"
      PROVE  Recent'
  BY <1>2 DEF Recent, Loop!LastOf, Loop!fileVars
<1>3. ASSUME NEW l \in Loops,
             \/ Loop!Start(l) \/ Loop!LoadConfig(l) \/ Loop!ReadMarketState(l) \/ Loop!PayForDecision(l)
             \/ Loop!Publish(l) \/ Loop!ReadEventId(l) \/ Loop!ConsumeRetry(l) \/ Loop!Consume(l) \/ Loop!EnsureFunds(l)
             \/ Loop!TopUp(l) \/ Loop!SignBatch(l) \/ Loop!SendBatch(l) \/ Loop!MineBatch(l) \/ Loop!BatchReceipt(l)
             \/ Loop!VerifyDecision(l)
      PROVE  Recent'
  <2>1. UNCHANGED Loop!fileVars
    BY <1>3 DEF Loop!Start, Loop!LoadConfig, Loop!ReadMarketState, Loop!PayForDecision, Loop!Publish,
       Loop!ReadEventId, Loop!ConsumeRetry,
                Loop!Consume, Loop!EnsureFunds, Loop!TopUp, Loop!SignBatch, Loop!SendBatch,
                Loop!MineBatch, Loop!BatchReceipt,
                Loop!VerifyDecision
  <2>2. \A k \in Loops : loop'[k] = "writing" => loop[k] = "writing"
    BY <1>1, <1>3 DEF Loop!Start, Loop!LoadConfig, Loop!ReadMarketState, Loop!PayForDecision,
       Loop!Publish, Loop!ReadEventId,
                Loop!ConsumeRetry, Loop!Consume, Loop!EnsureFunds, Loop!TopUp, Loop!SignBatch,
                Loop!SendBatch, Loop!MineBatch,
                Loop!BatchReceipt, Loop!VerifyDecision, Loop!Goto
  <2> QED
    BY <1>2, <2>1, <2>2
<1>4. ASSUME NEW l \in Loops, Loop!ReadActivity(l)
      PROVE  Recent'
  <2>1. /\ loop' = [loop EXCEPT ![l] = "writing"] /\ UNCHANGED <<file, written>>
        /\ snapshot' = [snapshot EXCEPT ![l] = IF file = Torn THEN << >> ELSE file]
        /\ clean' => clean /\ \A m \in Loops : loop[m] # "writing"
    BY <1>4 DEF Loop!ReadActivity, Loop!Goto
  <2>2. Loop!LastOf(written)' = Loop!LastOf(written)
    BY <2>1 DEF Loop!LastOf
  <2> QED
    BY <1>1, <2>1, <2>2 DEF Recent
<1>5. ASSUME NEW l \in Loops, Loop!WriteActivity(l), clean
      PROVE  Recent'
  <2>1. /\ loop[l] = "writing" /\ loop' = [loop EXCEPT ![l] = "done"]
        /\ file' = Loop!LastOf(Append(snapshot[l], Loop!Record(l)))
        /\ written' = Append(written, Loop!Record(l))
    BY <1>5 DEF Loop!WriteActivity, Loop!Goto
  <2>2. snapshot[l] = Loop!LastOf(written) /\ \A m \in Loops : loop[m] = "writing" => m = l
    BY <1>5, <2>1 DEF Recent
  <2>3. Loop!Record(l) \in Loop!Records /\ LogSize \in Nat \ {0}
    BY RecordIsTyped DEF Loop!LoopAssumption
  <2>4. file' = Loop!LastOf(written')
    BY <1>1, <2>1, <2>2, <2>3, LastOfAppend
  <2>5. Loop!LastOf(written') \in Seq(Loop!Records)
    <3>1. written' \in Seq(Loop!Records)
      BY <1>1, <2>1, <2>3, AppendProperties
    <3> QED
      BY <2>3, <3>1, LastOfProperties
  <2>6. file' # Torn
    BY <2>4, <2>5 DEF Loop!LoopAssumption
  <2>7. Loop!LastOf(written)' = Loop!LastOf(written')
    BY DEF Loop!LastOf
  <2> QED
    BY <1>1, <2>1, <2>2, <2>4, <2>6, <2>7 DEF Recent
<1>6. ASSUME NEW l \in Loops, Loop!WriteActivity(l), ~clean
      PROVE  Recent'
  BY <1>6 DEF Loop!WriteActivity, Recent
<1>7. ASSUME NEW l \in Loops, Loop!Stop(l)
      PROVE  Recent'
  <2>1. CASE loop[l] = "writing"
    BY <1>7, <2>1 DEF Loop!Stop, Recent
  <2>2. CASE loop[l] # "writing"
    <3>1. UNCHANGED Loop!fileVars /\ loop' = [loop EXCEPT ![l] = "failed"]
      BY <1>7, <2>2 DEF Loop!Stop, Loop!fileVars
    <3> QED
      BY <1>1, <1>2, <3>1
  <2> QED
    BY <2>1, <2>2
<1>8. CASE Loop!ForeignPublish
  BY <1>2, <1>8 DEF Loop!ForeignPublish
<1>9. CASE UNCHANGED Loop!vars
  BY <1>2, <1>9 DEF Loop!vars
<1> QED
  BY <1>1, <1>3, <1>4, <1>5, <1>6, <1>7, <1>8, <1>9 DEF Loop!Next, Loop!Proceed

-----------------------------------------------------------------------------
LoopInv == Typed /\ Heard /\ Alone /\ Recent

LEMMA LoopInitInv ==
  ASSUME Loop!LoopAssumption, Loop!Init
  PROVE  LoopInv
<1>1. Typed
  BY InitTyped
<1>2. Heard /\ Alone
  BY DEF Loop!Init, Heard, HeardBy, Alone, Market, Before, Loop!Acting, Loop!Executing
<1>3. Recent
  <2>1. written = << >> /\ file = << >> /\ << >> \in Seq(Loop!Records)
    BY DEF Loop!Init
  <2>2. Loop!LastOf(written) \in Seq(Loop!Records) /\ Len(Loop!LastOf(written)) = 0
    <3>1. written \in Seq(Loop!Records) /\ Len(written) = 0
      BY <2>1
    <3>2. LogSize \in Nat \ {0} /\ 0 < LogSize
      BY DEF Loop!LoopAssumption
    <3>3. /\ Loop!LastOf(written) \in Seq(Loop!Records)
          /\ Len(Loop!LastOf(written)) = IF Len(written) < LogSize THEN Len(written) ELSE LogSize
      BY <3>1, <3>2, LastOfProperties
    <3> QED
      BY <3>1, <3>2, <3>3
  <2>3. Loop!LastOf(written) = << >>
    BY <2>2
  <2> QED
    BY <2>1, <2>3 DEF Loop!Init, Recent, Loop!LoopAssumption
<1> QED
  BY <1>1, <1>2, <1>3 DEF LoopInv

LEMMA LoopStepInv ==
  ASSUME Loop!LoopAssumption, LoopInv, [Loop!Next]_(Loop!vars)
  PROVE  LoopInv'
<1>1. Typed /\ Heard
  BY DEF LoopInv
<1>2. Typed'
  <2>1. CASE UNCHANGED Loop!vars
    BY <1>1, <2>1 DEF Loop!vars, Loop!agentVars, Loop!execVars, Loop!fileVars, Typed, Loop!TypeOK
  <2>2. CASE Loop!ForeignPublish
    BY <1>1, <2>2, PublishTyped
  <2>3. ASSUME NEW l \in Loops, Loop!Start(l) \/ Loop!Proceed(l)
        PROVE  Typed'
    BY <1>1, <2>3, MarketTyped, PublishTyped, AgentTyped, SafeTyped, LogTyped DEF Loop!Proceed
  <2> QED
    BY <2>1, <2>2, <2>3 DEF Loop!Next
<1> QED
  BY <1>1, <1>2, HeardStep, AloneStep, RecentStep DEF LoopInv

\* What each loop's position says of the bus, the Safe and the log
THEOREM LoopInvariance == ASSUME Loop!LoopAssumption PROVE Loop!Spec => []LoopInv
<1>1. Loop!Init => LoopInv
  BY LoopInitInv
<1>2. LoopInv /\ [Loop!Next]_(Loop!vars) => LoopInv'
  BY LoopStepInv
<1> QED
  BY <1>1, <1>2, PTL DEF Loop!Spec

\* Types, ids in range and a log of bounded length, for any loops, prices and limits.
THEOREM LoopTypeCorrect == ASSUME Loop!LoopAssumption PROVE Loop!Spec => []Loop!TypeOK
<1>1. LoopInv => Loop!TypeOK
  BY DEF LoopInv, Typed
<1> QED
  BY LoopInvariance, <1>1, PTL

\* eventbus.ts: whatever others publish between a loop's receipt and its read of eventCount, its
\* agent acts on its own event, and as the decision bought says, or on a newer one of whoever
\* published it; only if its own publish reverted may it be an older one.
THEOREM NoOlderEventIsActedOn == ASSUME Loop!LoopAssumption PROVE Loop!Spec => []ActsOnNoOlderEvent
<1>1. LoopInv => Loop!ActsOnNoOlderEvent
  BY DEF LoopInv, Heard, HeardBy, Loop!ActsOnNoOlderEvent
<1> QED
  BY LoopInvariance, <1>1, PTL DEF ActsOnNoOlderEvent

\* execute.ts: of any number of loops, one that shares the Safe with none between its balance
\* check and its swap never logs a swap that reverted.
THEOREM LoneSwapsSucceed == ASSUME Loop!LoopAssumption PROVE Loop!Spec => []LoneSwapSucceeds
<1>1. LoopInv => Loop!LoneSwapSucceeds
  BY DEF LoopInv, Alone, Loop!LoneSwapSucceeds
<1> QED
  BY LoopInvariance, <1>1, PTL DEF LoneSwapSucceeds

\* activity.ts: the log holds the last loops that finished, for any size of it, as long as
\* appends neither overlap nor are cut short.
THEOREM TheLogIsRecent == ASSUME Loop!LoopAssumption PROVE Loop!Spec => []LogKeepsRecent
<1>1. LoopInv => Loop!LogKeepsRecent
  BY DEF LoopInv, Recent, Loop!LogKeepsRecent
<1> QED
  BY LoopInvariance, <1>1, PTL DEF LogKeepsRecent

-----------------------------------------------------------------------------
(***************************************************************************)
(* What a record says of a swap.  A loop is logged once, when it is done,  *)
(* and its receipt is not written again.                                   *)
(***************************************************************************)
Logged(s) == \A i \in 1..Len(s) : /\ loop[s[i].loop] = "done"
                                  /\ s[i].executed => receipt[s[i].loop] # None

Reported == (file # Torn => Logged(file)) /\ \A l \in Loops : Logged(snapshot[l])

\* A loop that is done stays done, with the receipt it has.
LEMMA DoneStays ==
  ASSUME Typed, [Loop!Next]_(Loop!vars), NEW l \in Loops, loop[l] = "done"
  PROVE  loop'[l] = "done" /\ receipt'[l] = receipt[l]
<1>0. /\ loop \in [Loops -> Positions]
      /\ receipt \in [Loops -> [ok : BOOLEAN, received : Nat] \cup {None}]
  BY DEF Typed, Loop!TypeOK, Positions
<1>1. ASSUME NEW m \in Loops, Loop!Start(m) \/ Loop!Proceed(m)
      PROVE  m # l /\ loop'[l] = loop[l] /\ receipt'[l] = receipt[l]
  <2>1. m # l
    BY <1>1 DEF Loop!Start, Loop!Proceed, Loop!LoadConfig, Loop!ReadMarketState, Loop!PayForDecision,
       Loop!Publish, Loop!ReadEventId, Loop!ConsumeRetry, Loop!Consume, Loop!EnsureFunds, Loop!TopUp,
       Loop!SignBatch, Loop!SendBatch, Loop!MineBatch, Loop!BatchReceipt, Loop!VerifyDecision,
       Loop!ReadActivity, Loop!WriteActivity, Loop!Stop, Loop!Goto, Loop!Running, Loop!Executing
  <2>2. loop' = loop \/ \E to : loop' = [loop EXCEPT ![m] = to]
    BY <1>1 DEF Loop!Start, Loop!Proceed, Loop!LoadConfig, Loop!ReadMarketState, Loop!PayForDecision,
       Loop!Publish, Loop!ReadEventId, Loop!ConsumeRetry, Loop!Consume, Loop!EnsureFunds, Loop!TopUp,
       Loop!SignBatch, Loop!SendBatch, Loop!MineBatch, Loop!BatchReceipt, Loop!VerifyDecision,
       Loop!ReadActivity, Loop!WriteActivity, Loop!Stop, Loop!Goto
  <2>3. receipt' = receipt \/ \E r : receipt' = [receipt EXCEPT ![m] = r]
    BY <1>1 DEF Loop!Start, Loop!Proceed, Loop!LoadConfig, Loop!ReadMarketState, Loop!PayForDecision,
       Loop!Publish, Loop!ReadEventId, Loop!ConsumeRetry, Loop!Consume, Loop!EnsureFunds, Loop!TopUp,
       Loop!SignBatch, Loop!SendBatch, Loop!MineBatch, Loop!BatchReceipt, Loop!VerifyDecision,
       Loop!ReadActivity, Loop!WriteActivity, Loop!Stop, Loop!execVars
  <2> QED
    BY <1>0, <2>1, <2>2, <2>3
<1>2. CASE Loop!ForeignPublish \/ UNCHANGED Loop!vars
  BY <1>2 DEF Loop!ForeignPublish, Loop!vars, Loop!execVars
<1> QED
  BY <1>1, <1>2 DEF Loop!Next

\* What was logged of loops that are done stays true of them.
LEMMA LoggedStays ==
  ASSUME Typed, [Loop!Next]_(Loop!vars), NEW s \in Seq(Loop!Records), Logged(s)
  PROVE  \A i \in 1..Len(s) : /\ loop'[s[i].loop] = "done"
                              /\ s[i].executed => receipt'[s[i].loop] # None
<1> SUFFICES ASSUME NEW i \in 1..Len(s)
             PROVE  /\ loop'[s[i].loop] = "done"
                    /\ s[i].executed => receipt'[s[i].loop] # None
  OBVIOUS
<1>1. s[i] \in Loop!Records
  BY ElementOfSeq
<1>2. s[i].loop \in Loops
  BY <1>1 DEF Loop!Records
<1>3. loop[s[i].loop] = "done" /\ (s[i].executed => receipt[s[i].loop] # None)
  BY DEF Logged
<1> QED
  BY <1>2, <1>3, DoneStays

\* Every step keeps what the records say: a record is written as its loop ends.
LEMMA ReportedStep ==
  ASSUME Loop!LoopAssumption, Typed, Reported, [Loop!Next]_(Loop!vars)
  PROVE  Reported'
<1> DEFINE True(s) ==
             \A i \in 1..Len(s) : /\ loop'[s[i].loop] = "done"
                                  /\ s[i].executed => receipt'[s[i].loop] # None
<1>0. /\ file # Torn => file \in Seq(Loop!Records) /\ True(file)
      /\ \A l \in Loops : snapshot[l] \in Seq(Loop!Records) /\ True(snapshot[l])
  <2>1. file # Torn => file \in Seq(Loop!Records) /\ Logged(file)
    BY DEF Typed, Loop!TypeOK, Reported
  <2>2. \A l \in Loops : snapshot[l] \in Seq(Loop!Records) /\ Logged(snapshot[l])
    BY DEF Typed, Reported
  <2> QED
    BY <2>1, <2>2, LoggedStays
<1>1. SUFFICES (file' # Torn => True(file')) /\ \A l \in Loops : True(snapshot'[l])
  BY DEF Reported, Logged
<1> HIDE DEF True
<1>2. True(<< >>)
  BY DEF True
<1>3. CASE UNCHANGED <<file, snapshot>>
  BY <1>0, <1>3
<1>4. ASSUME NEW l \in Loops, Loop!ReadActivity(l)
      PROVE  (file' # Torn => True(file')) /\ \A m \in Loops : True(snapshot'[m])
  <2>1. file' = file /\ snapshot' = [snapshot EXCEPT ![l] = IF file = Torn THEN << >> ELSE file]
    BY <1>4 DEF Loop!ReadActivity
  <2>2. \A m \in Loops : snapshot'[m] = snapshot[m]
                         \/ snapshot'[m] = IF file = Torn THEN << >> ELSE file
    BY <2>1 DEF Typed
  <2> QED
    BY <1>0, <1>2, <2>1, <2>2
<1>5. ASSUME NEW l \in Loops, Loop!WriteActivity(l)
      PROVE  (file' # Torn => True(file')) /\ \A m \in Loops : True(snapshot'[m])
  <2> DEFINE r == Loop!Record(l)
             s == Append(snapshot[l], r)
  <2>1. file' = Loop!LastOf(s) /\ snapshot' = snapshot /\ receipt' = receipt
    BY <1>5 DEF Loop!WriteActivity, Loop!execVars
  <2>2. loop'[l] = "done"
    BY <1>5 DEF Loop!WriteActivity, Loop!Goto, Typed, Loop!TypeOK
  <2>3. r.loop = l /\ (r.executed <=> receipt[l] # None)
    BY DEF Loop!Record
  <2>4. r \in Loop!Records
    BY RecordIsTyped
  <2> HIDE DEF r
  <2>5. /\ s \in Seq(Loop!Records) /\ Len(s) = Len(snapshot[l]) + 1 /\ Len(snapshot[l]) \in Nat
        /\ \A i \in 1..Len(s) : (i \in 1..Len(snapshot[l]) /\ s[i] = snapshot[l][i]) \/ s[i] = r
    BY <1>0, <2>4, AppendProperties
  <2> HIDE DEF s
  <2>6. True(s)
    BY <1>0, <2>1, <2>2, <2>3, <2>5 DEF True
  <2>7. /\ Len(Loop!LastOf(s)) = (IF Len(s) < LogSize THEN Len(s) ELSE LogSize)
        /\ \A i \in 1..Len(Loop!LastOf(s)) : Loop!LastOf(s)[i] = s[Len(s) - Len(Loop!LastOf(s)) + i]
        /\ LogSize \in Nat \ {0} /\ Len(s) \in Nat
    <3>1. s \in Seq(Loop!Records) /\ Len(s) \in Nat /\ LogSize \in Nat \ {0}
      BY <2>5 DEF Loop!LoopAssumption
    <3> QED
      BY <3>1, LastOfProperties
  <2>8. \A i \in 1..Len(Loop!LastOf(s)) : Len(s) - Len(Loop!LastOf(s)) + i \in 1..Len(s)
    BY <2>7
  <2>9. True(Loop!LastOf(s))
    <3>1. ASSUME NEW i \in 1..Len(Loop!LastOf(s))
          PROVE  /\ loop'[Loop!LastOf(s)[i].loop] = "done"
                 /\ Loop!LastOf(s)[i].executed => receipt'[Loop!LastOf(s)[i].loop] # None
      <4>1. PICK j \in 1..Len(s) : Loop!LastOf(s)[i] = s[j]
        BY <2>7, <2>8
      <4>2. loop'[s[j].loop] = "done" /\ (s[j].executed => receipt'[s[j].loop] # None)
        BY <2>6 DEF True
      <4> QED
        BY <4>1, <4>2
    <3> QED
      BY <3>1, Zenon DEF True
  <2> QED
    BY <1>0, <2>1, <2>9
<1>6. ASSUME NEW l \in Loops, Loop!Stop(l)
      PROVE  (file' # Torn => True(file')) /\ \A m \in Loops : True(snapshot'[m])
  <2>1. snapshot' = snapshot /\ (file' = Torn \/ file' = file)
    BY <1>6 DEF Loop!Stop
  <2> QED
    BY <1>0, <2>1
<1>7. ASSUME NEW l \in Loops,
             \/ Loop!Start(l) \/ Loop!LoadConfig(l) \/ Loop!ReadMarketState(l) \/ Loop!PayForDecision(l)
             \/ Loop!Publish(l) \/ Loop!ReadEventId(l) \/ Loop!ConsumeRetry(l) \/ Loop!Consume(l)
             \/ Loop!EnsureFunds(l) \/ Loop!TopUp(l) \/ Loop!SignBatch(l) \/ Loop!SendBatch(l)
             \/ Loop!MineBatch(l) \/ Loop!BatchReceipt(l) \/ Loop!VerifyDecision(l)
      PROVE  UNCHANGED <<file, snapshot>>
  BY <1>7 DEF Loop!Start, Loop!LoadConfig, Loop!ReadMarketState, Loop!PayForDecision, Loop!Publish,
     Loop!ReadEventId, Loop!ConsumeRetry, Loop!Consume, Loop!EnsureFunds, Loop!TopUp, Loop!SignBatch,
     Loop!SendBatch, Loop!MineBatch, Loop!BatchReceipt, Loop!VerifyDecision, Loop!fileVars
<1>8. CASE Loop!ForeignPublish \/ UNCHANGED Loop!vars
  BY <1>3, <1>8 DEF Loop!ForeignPublish, Loop!vars, Loop!fileVars
<1> QED
  BY <1>3, <1>4, <1>5, <1>6, <1>7, <1>8 DEF Loop!Next, Loop!Proceed

\* activity.ts: in a log of loops that shared the Safe with nobody, executed does mean swapped;
\* what refutes the claim is another loop between the balance check and the swap.
THEOREM UnsharedSwapsHappened ==
  ASSUME Loop!LoopAssumption
  PROVE  Loop!Spec => /\ [](file # Torn => \A i \in 1..Len(file) :
                              file[i].executed /\ file[i].loop \notin overlapped
                                => receipt[file[i].loop].ok)
                      /\ [](overlapped = {} => LoggedSwapsHappened)
<1> DEFINE Unshared == file # Torn => \A i \in 1..Len(file) :
                         file[i].executed /\ file[i].loop \notin overlapped
                           => receipt[file[i].loop].ok
<1>1. Loop!Init => Reported
  BY DEF Loop!Init, Reported, Logged
<1>2. LoopInv /\ Reported /\ [Loop!Next]_(Loop!vars) => Reported'
  BY ReportedStep DEF LoopInv
<1>3. ASSUME LoopInv, Reported
      PROVE  Unshared
  <2> SUFFICES ASSUME file # Torn, NEW i \in 1..Len(file),
                      file[i].executed, file[i].loop \notin overlapped
               PROVE  receipt[file[i].loop].ok
    OBVIOUS
  <2>1. file \in Seq(Loop!Records)
    BY <1>3 DEF LoopInv, Typed, Loop!TypeOK
  <2>2. file[i] \in Loop!Records
    BY <2>1, ElementOfSeq
  <2>3. file[i].loop \in Loops \ overlapped
    BY <2>2 DEF Loop!Records
  <2>4. receipt[file[i].loop] # None
    BY <1>3 DEF Reported, Logged
  <2> QED
    BY <1>3, <2>3, <2>4 DEF LoopInv, Alone
<1>4. LoopInv /\ Reported => Unshared /\ (overlapped = {} => LoggedSwapsHappened)
  BY <1>3 DEF LoggedSwapsHappened, Loop!LoggedSwapsHappened
<1> HIDE DEF Unshared
<1>5. Loop!Spec => []Unshared /\ [](overlapped = {} => LoggedSwapsHappened)
  BY LoopInvariance, <1>1, <1>2, <1>4, PTL DEF Loop!Spec
<1> QED
  BY <1>5 DEF Unshared

-----------------------------------------------------------------------------
(***************************************************************************)
(* Why every loop ends: LoopStepsLeft(l) bounds the steps loop l has left, *)
(* its place on the way and, while it waits for the payload, the tries.    *)
(***************************************************************************)
LoopPlace == [p \in Positions |->
  CASE p = "idle"       -> Tries + 15 [] p = "loading"   -> Tries + 14 [] p = "reading"  -> Tries + 13
    [] p = "paying"     -> Tries + 12 [] p = "publishing" -> Tries + 11 [] p = "published" -> Tries + 10
    [] p = "consuming"  -> 10 [] p = "funding"   -> 9 [] p = "toppingUp" -> 8 [] p = "batching" -> 7
    [] p = "sending"    -> 6  [] p = "swapping"  -> 5 [] p = "swapped"   -> 4
    [] p = "verifying"  -> 3  [] p = "appending" -> 2 [] p = "writing"   -> 1 [] OTHER -> 0]

LoopStepsLeft(l) ==
  LoopPlace[loop[l]] + IF loop[l] = "consuming" THEN Tries - tries[l] ELSE 0

\* The places in their order
LEMMA LoopPlaces ==
  /\ LoopPlace["idle"] = Tries + 15 /\ LoopPlace["loading"] = Tries + 14
  /\ LoopPlace["reading"] = Tries + 13 /\ LoopPlace["paying"] = Tries + 12
  /\ LoopPlace["publishing"] = Tries + 11 /\ LoopPlace["published"] = Tries + 10
  /\ LoopPlace["consuming"] = 10 /\ LoopPlace["funding"] = 9 /\ LoopPlace["toppingUp"] = 8
  /\ LoopPlace["batching"] = 7 /\ LoopPlace["sending"] = 6 /\ LoopPlace["swapping"] = 5
  /\ LoopPlace["swapped"] = 4 /\ LoopPlace["verifying"] = 3 /\ LoopPlace["appending"] = 2
  /\ LoopPlace["writing"] = 1 /\ LoopPlace["done"] = 0 /\ LoopPlace["failed"] = 0
BY DEF LoopPlace, Positions, Loop!Running, Loop!Executing, Loop!Ended

\* The steps left are a number, and none exactly when the loop has ended.
LEMMA LoopStepsAreNumbers ==
  ASSUME Loop!LoopAssumption, NEW p \in Positions, NEW t \in 0..Tries
  PROVE  /\ LoopPlace[p] + (IF p = "consuming" THEN Tries - t ELSE 0) \in Nat
         /\ LoopPlace[p] = 0 <=> p \in Loop!Ended
         /\ LoopPlace[p] \in Nat
<1>1. Tries \in Nat \ {0}
  BY DEF Loop!LoopAssumption
<1> QED
  BY <1>1, LoopPlaces DEF Positions, Loop!Running, Loop!Executing, Loop!Ended

\* What the position after a step makes of the steps left
LEMMA LoopGoes ==
  ASSUME Typed, NEW l \in Loops, NEW from, NEW to, Loop!Goto(l, from, to)
  PROVE  /\ loop[l] = from /\ loop'[l] = to
         /\ \A k \in Loops : k # l => loop'[k] = loop[k]
BY DEF Typed, Loop!TypeOK, Loop!Goto

\* Each step a loop takes leaves it less.
LEMMA LoopStepsFall ==
  ASSUME Loop!LoopAssumption, Typed, NEW l \in Loops, Loop!Start(l) \/ Loop!Proceed(l)
  PROVE  LoopStepsLeft(l)' < LoopStepsLeft(l)
<1>1. Tries \in Nat \ {0} /\ tries[l] \in 0..Tries /\ loop[l] \in Positions
  BY DEF Loop!LoopAssumption, Typed, Loop!TypeOK, Positions
<1>2. ASSUME NEW from \in Positions \ {"consuming"}, NEW to \in Positions \ {"consuming"},
             Loop!Goto(l, from, to), LoopPlace[to] < LoopPlace[from]
      PROVE  LoopStepsLeft(l)' < LoopStepsLeft(l)
  <2>1. loop[l] = from /\ loop'[l] = to
    BY <1>2, LoopGoes
  <2>2. LoopPlace[from] \in Nat /\ LoopPlace[to] \in Nat
    BY <1>1, LoopStepsAreNumbers
  <2> QED
    BY <1>2, <2>1, <2>2 DEF LoopStepsLeft
<1>3. ASSUME NEW to \in {"funding", "verifying", "failed"}, Loop!Goto(l, "consuming", to)
      PROVE  LoopStepsLeft(l)' < LoopStepsLeft(l)
  <2>1. loop[l] = "consuming" /\ loop'[l] = to
    BY <1>3, LoopGoes
  <2>2. LoopStepsLeft(l)' \in 0..9
    BY <2>1, LoopPlaces DEF LoopStepsLeft
  <2>3. LoopStepsLeft(l) = 10 + (Tries - tries[l])
    BY <2>1, LoopPlaces DEF LoopStepsLeft
  <2> QED
    BY <1>1, <2>2, <2>3
<1>4. CASE \/ Loop!Start(l) \/ Loop!LoadConfig(l) \/ Loop!ReadMarketState(l) \/ Loop!PayForDecision(l)
           \/ Loop!Publish(l)
  BY <1>1, <1>2, <1>4, LoopPlaces
     DEF Loop!Start, Loop!LoadConfig, Loop!ReadMarketState, Loop!PayForDecision, Loop!Publish,
         Positions, Loop!Running
<1>5. CASE Loop!ReadEventId(l)
  <2>1. loop[l] = "published" /\ loop'[l] = "consuming"
    BY <1>5, LoopGoes DEF Loop!ReadEventId
  <2>2. tries'[l] = 1
    BY <1>5 DEF Loop!ReadEventId, Typed, Loop!TypeOK
  <2>3. LoopStepsLeft(l)' = 10 + (Tries - 1) /\ LoopStepsLeft(l) = Tries + 10 + 0
    BY <2>1, <2>2, LoopPlaces DEF LoopStepsLeft
  <2> QED
    BY <1>1, <2>3
<1>6. CASE Loop!ConsumeRetry(l)
  <2>1. CASE tries[l] < Tries
    <3>1. loop[l] = "consuming" /\ loop'[l] = "consuming" /\ tries'[l] = tries[l] + 1
      BY <1>6, <2>1 DEF Loop!ConsumeRetry, Typed, Loop!TypeOK
    <3>2. LoopStepsLeft(l)' = 10 + (Tries - (tries[l] + 1)) /\ LoopStepsLeft(l) = 10 + (Tries - tries[l])
      BY <3>1, LoopPlaces DEF LoopStepsLeft
    <3> QED
      BY <1>1, <2>1, <3>2
  <2>2. CASE ~(tries[l] < Tries)
    BY <1>3, <1>6, <2>2 DEF Loop!ConsumeRetry
  <2> QED
    BY <2>1, <2>2
<1>7. CASE Loop!Consume(l)
  BY <1>3, <1>7 DEF Loop!Consume
<1>8. CASE \/ Loop!EnsureFunds(l) \/ Loop!TopUp(l) \/ Loop!SignBatch(l) \/ Loop!SendBatch(l)
           \/ Loop!MineBatch(l) \/ Loop!BatchReceipt(l)
  BY <1>2, <1>8, LoopPlaces
     DEF Loop!EnsureFunds, Loop!TopUp, Loop!SignBatch, Loop!SendBatch, Loop!MineBatch,
         Loop!BatchReceipt, Positions, Loop!Running, Loop!Executing, Loop!Ended
<1>9. CASE Loop!VerifyDecision(l) \/ Loop!ReadActivity(l) \/ Loop!WriteActivity(l)
  BY <1>2, <1>9, LoopPlaces
     DEF Loop!VerifyDecision, Loop!ReadActivity, Loop!WriteActivity, Positions, Loop!Running, Loop!Ended
<1>10. CASE Loop!Stop(l)
  <2>1. loop'[l] = "failed" /\ loop[l] \in Loop!Running
    BY <1>10 DEF Loop!Stop, Typed, Loop!TypeOK
  <2>2. LoopStepsLeft(l)' = 0 + 0
    BY <2>1, LoopPlaces DEF LoopStepsLeft
  <2>3. LoopStepsLeft(l) \in Nat /\ LoopPlace[loop[l]] \in Nat \ {0}
    BY <1>1, <2>1, LoopStepsAreNumbers DEF LoopStepsLeft, Loop!Running, Loop!Ended, Loop!Executing
  <2>4. LoopStepsLeft(l) > 0
    BY <1>1, <2>3 DEF LoopStepsLeft
  <2> QED
    BY <2>2, <2>3, <2>4
<1> QED
  BY <1>4, <1>5, <1>6, <1>7, <1>8, <1>9, <1>10 DEF Loop!Proceed

\* Nobody gives a loop more to do.
LEMMA LoopsStepAlone ==
  ASSUME Typed, NEW l \in Loops, NEW k \in Loops, k # l, Loop!Start(l) \/ Loop!Proceed(l)
  PROVE  LoopStepsLeft(k)' = LoopStepsLeft(k)
<1>1. loop' = loop \/ \E to : loop' = [loop EXCEPT ![l] = to]
  BY DEF Loop!Start, Loop!Proceed, Loop!LoadConfig, Loop!ReadMarketState, Loop!PayForDecision,
     Loop!Publish, Loop!ReadEventId, Loop!ConsumeRetry, Loop!Consume, Loop!EnsureFunds, Loop!TopUp,
     Loop!SignBatch, Loop!SendBatch, Loop!MineBatch, Loop!BatchReceipt, Loop!VerifyDecision,
     Loop!ReadActivity, Loop!WriteActivity, Loop!Stop, Loop!Goto
<1>2. tries' = tries \/ \E n : tries' = [tries EXCEPT ![l] = n]
  BY DEF Loop!Start, Loop!Proceed, Loop!LoadConfig, Loop!ReadMarketState, Loop!PayForDecision,
     Loop!Publish, Loop!ReadEventId, Loop!ConsumeRetry, Loop!Consume, Loop!EnsureFunds, Loop!TopUp,
     Loop!SignBatch, Loop!SendBatch, Loop!MineBatch, Loop!BatchReceipt, Loop!VerifyDecision,
     Loop!ReadActivity, Loop!WriteActivity, Loop!Stop, Loop!agentVars
<1>3. loop'[k] = loop[k] /\ tries'[k] = tries[k]
  BY <1>1, <1>2 DEF Typed, Loop!TypeOK
<1> QED
  BY <1>3 DEF LoopStepsLeft

\* The steps of a loop run out (consumeEvent's tries, and no way back): its own lower what it has
\* left, those of other loops and publishers leave it, and at zero it has ended.
THEOREM LoopsRunOut ==
  ASSUME Loop!LoopAssumption
  PROVE  Loop!Spec =>
           /\ [](\A l \in Loops : /\ LoopStepsLeft(l) \in Nat
                                  /\ LoopStepsLeft(l) = 0 => loop[l] \in Loop!Ended)
           /\ [][\A l \in Loops : /\ LoopStepsLeft(l)' <= LoopStepsLeft(l)
                                  /\ Loop!Proceed(l) => LoopStepsLeft(l)' < LoopStepsLeft(l)]_(Loop!vars)
<1> DEFINE Numbers == \A l \in Loops : /\ LoopStepsLeft(l) \in Nat
                                       /\ LoopStepsLeft(l) = 0 => loop[l] \in Loop!Ended
           Falls == \A l \in Loops : /\ LoopStepsLeft(l)' <= LoopStepsLeft(l)
                                     /\ Loop!Proceed(l) => LoopStepsLeft(l)' < LoopStepsLeft(l)
<1>1. ASSUME LoopInv, NEW l \in Loops
      PROVE  LoopStepsLeft(l) \in Nat /\ (LoopStepsLeft(l) = 0 => loop[l] \in Loop!Ended)
  <2>1. loop[l] \in Positions /\ tries[l] \in 0..Tries /\ Tries \in Nat
    BY <1>1 DEF LoopInv, Typed, Loop!TypeOK, Positions, Loop!LoopAssumption
  <2>2. /\ LoopStepsLeft(l) \in Nat /\ LoopPlace[loop[l]] \in Nat
        /\ LoopPlace[loop[l]] = 0 <=> loop[l] \in Loop!Ended
    BY <2>1, LoopStepsAreNumbers DEF LoopStepsLeft
  <2> QED
    BY <2>1, <2>2 DEF LoopStepsLeft
<1>2. ASSUME LoopInv, [Loop!Next]_(Loop!vars)
      PROVE  Falls
  <2>1. Typed' /\ Typed
    BY <1>2, LoopStepInv DEF LoopInv
  <2>2. ASSUME NEW l \in Loops
        PROVE  LoopStepsLeft(l) \in Nat /\ LoopStepsLeft(l)' \in Nat
    <3>1. loop'[l] \in Positions /\ tries'[l] \in 0..Tries
      BY <2>1 DEF Typed, Loop!TypeOK, Positions
    <3>2. LoopStepsLeft(l)' \in Nat
      BY <3>1, LoopStepsAreNumbers DEF LoopStepsLeft
    <3> QED
      BY <1>1, <1>2, <3>2
  <2>3. ASSUME NEW l \in Loops, NEW k \in Loops, Loop!Start(l) \/ Loop!Proceed(l)
        PROVE  LoopStepsLeft(k)' <= LoopStepsLeft(k)
    BY <2>1, <2>2, <2>3, LoopStepsFall, LoopsStepAlone
  <2>4. CASE Loop!ForeignPublish \/ UNCHANGED Loop!vars
    <3>1. UNCHANGED <<loop, tries>>
      BY <2>4 DEF Loop!ForeignPublish, Loop!vars, Loop!agentVars
    <3>2. \A l \in Loops : LoopStepsLeft(l)' = LoopStepsLeft(l)
      BY <3>1 DEF LoopStepsLeft
    <3>3. \A l \in Loops : LoopStepsLeft(l)' <= LoopStepsLeft(l)
      BY <2>2, <3>2
    <3> QED
      BY <2>1, <3>3, LoopStepsFall
  <2>5. \A k \in Loops : LoopStepsLeft(k)' <= LoopStepsLeft(k)
    BY <1>2, <2>3, <2>4 DEF Loop!Next
  <2> QED
    BY <2>1, <2>5, LoopStepsFall
<1>3. LoopInv => Numbers
  BY <1>1
<1>4. LoopInv /\ [Loop!Next]_(Loop!vars) => [Falls]_(Loop!vars)
  BY <1>2
<1> HIDE DEF Numbers, Falls
<1>5. Loop!Spec => []Numbers /\ [][Falls]_(Loop!vars)
  BY LoopInvariance, <1>3, <1>4, PTL DEF Loop!Spec
<1> QED
  BY <1>5 DEF Numbers, Falls
=============================================================================
