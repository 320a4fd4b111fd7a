--------------------------- MODULE ServicesProofs ---------------------------
(***************************************************************************)
(* The service side beside the paid call, for any number of calls, clients,*)
(* launchers and runs: the example servers, the operator's gas, the        *)
(* launcher, the deployment scripts, the Safe demo and the price, each     *)
(* with the inductive invariant its properties follow from, and a section  *)
(* of its own.  PaymentMeter has a module of its own.                      *)
(***************************************************************************)
EXTENDS Services, PaymentMeterProofs, SequenceTheorems, WellFoundedInduction, TLAPS

-----------------------------------------------------------------------------
\* Where a call's own transaction is: it is sent at most once, and mined at most once.
Read     == {"decrypting", "answering", "settling", "delivered", "unsettled"}
Released == {"settling", "delivered", "unsettled"}

ServerTyped ==
  /\ runtime \in BOOLEAN
  /\ DOMAIN client = Examples!Servers /\ DOMAIN api = Examples!Calls
  /\ DOMAIN nonce = Examples!Calls /\ DOMAIN tries = Examples!Calls
  /\ tx \in [Examples!Calls -> {None, "sent", "success", "reverted"}]
  /\ mempool \in Seq(Examples!Calls) /\ mined \in 0..Len(mempool)
  /\ log \in [Examples!Servers -> Seq(Examples!Calls \cup {Examples!Foreign})]
  /\ DOMAIN id = Examples!Calls /\ DOMAIN attested = Examples!Calls

SentOnce ==
  /\ \A i, j \in 1..Len(mempool) : mempool[i] = mempool[j] => i = j
  /\ \A i \in 1..Len(mempool) : tx[mempool[i]] # None
  /\ \A i \in mined + 1..Len(mempool) : tx[mempool[i]] = "sent"
  /\ \A c \in Examples!Calls : api[c] \in {"idle", "waiting", "sending"} => tx[c] = None
  /\ \A s \in Examples!Servers : \A own \in 1..Len(log[s]) : log[s][own] \in Examples!Calls => tx[log[s][own]] = "success"

\* What a call has read is no older than its own decision, which is on record by then if it
\* ever will be.
HasRead(c) ==
  /\ tx[c] \in {"success", "reverted"}
  /\ id[c] \in 1..Len(log[Examples!Of(c)])
  /\ \A own \in 1..Len(log[Examples!Of(c)]) : log[Examples!Of(c)][own] = c => own <= id[c]

HasResult(c) == c \in PayrollCalls => runtime /\ <<"payroll", id[c]>> \in ready

CallInv(c) ==
  /\ api[c] \in Read => HasRead(c)
  /\ api[c] \in Read \ {"decrypting"} => HasResult(c)
  /\ attested[c] = IF api[c] \in Released THEN id[c] ELSE None
  /\ c \in charged => attested[c] # None
  /\ api[c] = "delivered" => c \in charged

ServerInv == ServerTyped /\ SentOnce /\ charged \subseteq Examples!Calls /\ \A c \in Examples!Calls : CallInv(c)

LEMMA ServersOf == \A c \in Examples!Calls : Examples!Of(c) \in Examples!Servers
BY DEF Examples!Of, Examples!Servers

LEMMA ServerInit ==
  ASSUME Examples!ServerAssumption, Examples!Init
  PROVE  ServerInv
<1>1. << >> \in Seq(Examples!Calls) /\ << >> \in Seq(Examples!Calls \cup {Examples!Foreign})
  BY EmptySeq
<1>2. ServerTyped
  BY <1>1 DEF Examples!Init, ServerTyped
<1>3. Len(mempool) = 0 /\ \A s \in Examples!Servers : Len(log[s]) = 0
  BY DEF Examples!Init
<1>4. SentOnce
  BY <1>3 DEF Examples!Init, SentOnce
<1>5. \A c \in Examples!Calls : CallInv(c)
  BY DEF Examples!Init, CallInv, Read, Released
<1> QED
  BY <1>2, <1>4, <1>5 DEF ServerInv, Examples!Init

\* Steps that send and record nothing move one call at most.
LEMMA OneCallMoves ==
  ASSUME ServerInv, NEW c \in Examples!Calls, UNCHANGED <<runtime, tx, mempool, mined, log>>,
         api'[c] \notin {"idle", "waiting", "sending"} \/ tx[c] = None,
         \A d \in Examples!Calls \ {c} : api'[d] = api[d] /\ id'[d] = id[d] /\ attested'[d] = attested[d],
         DOMAIN api' = Examples!Calls, DOMAIN client' = Examples!Servers, DOMAIN nonce' = Examples!Calls,
         DOMAIN tries' = Examples!Calls,
         DOMAIN id' = Examples!Calls, DOMAIN attested' = Examples!Calls,
         ready \subseteq ready', charged \subseteq charged', charged' \subseteq charged \cup {c},
         CallInv(c)'
  PROVE  ServerInv'
<1>1. ServerTyped' /\ charged' \subseteq Examples!Calls
  BY DEF ServerInv, ServerTyped
<1>2. SentOnce'
  BY DEF ServerInv, SentOnce
<1>3. ASSUME NEW d \in Examples!Calls, d # c
      PROVE  CallInv(d)'
  <2>1. /\ api'[d] = api[d] /\ id'[d] = id[d] /\ attested'[d] = attested[d]
        /\ CallInv(d) /\ (d \in charged' <=> d \in charged)
    BY <1>3 DEF ServerInv
  <2> QED
    BY <2>1 DEF CallInv, HasRead, HasResult
<1> QED
  BY <1>1, <1>2, <1>3 DEF ServerInv

\* The handler's steps, but the sending
LEMMA HandlerSteps ==
  ASSUME Examples!ServerAssumption, ServerInv, NEW c \in Examples!Calls,
         Examples!Call(c) \/ Examples!Prepare(c) \/ Examples!ReadDecision(c) \/ Examples!Retry(c)
         \/ Examples!Answer(c) \/ Examples!Transfer(c)
           \/ Examples!Settled(c) \/ Examples!Fail(c)
  PROVE  ServerInv'
<1>1. /\ CallInv(c) /\ ServerTyped /\ Examples!Of(c) \in Examples!Servers
      /\ api[c] \in {"idle", "waiting", "sending"} => tx[c] = None
  BY ServersOf DEF ServerInv, SentOnce
<1>2. UNCHANGED <<runtime, tx, mempool, mined, log, ready, client>>
  BY DEF Examples!Call, Examples!Prepare, Examples!ReadDecision, Examples!Retry, Examples!Answer,
     Examples!Transfer, Examples!Settled, Examples!Fail, Examples!chain
<1>3. CASE Examples!Call(c) \/ Examples!Prepare(c) \/ Examples!Fail(c)
  <2>1. PICK to \in {"waiting", "sending", "failed"} :
          /\ api' = [api EXCEPT ![c] = to] /\ UNCHANGED <<id, tries, attested, charged>>
          /\ to # "failed" => api[c] \in {"idle", "waiting"}
          /\ api[c] \in {"idle", "waiting", "sending", "deciding", "decrypting"}
          /\ DOMAIN nonce' = Examples!Calls
    BY <1>1, <1>3 DEF Examples!Call, Examples!Prepare, Examples!Fail, Examples!Goto, ServerTyped
  <2>2. CallInv(c)'
    BY <1>1, <2>1 DEF CallInv, Read, Released, ServerTyped
  <2> QED
    BY <1>1, <1>2, <2>1, <2>2, OneCallMoves DEF ServerTyped
<1>4. CASE Examples!ReadDecision(c)
  <2> DEFINE last == Len(log[Examples!Of(c)])
             to == IF last = 0 THEN "failed" ELSE IF c \in HelloCalls THEN "answering" ELSE "decrypting"
  <2>1. /\ api[c] = "deciding" /\ tx[c] \in {"success", "reverted"} /\ api' = [api EXCEPT ![c] = to]
        /\ id' = [id EXCEPT ![c] = last] /\ UNCHANGED <<tries, nonce, attested, charged>>
    BY <1>4 DEF Examples!ReadDecision, Examples!Goto
  <2>2. last \in Nat
    BY <1>1, LenProperties DEF ServerTyped
  <2>3. HasRead(c)' \/ last = 0
    BY <1>1, <1>2, <2>1, <2>2 DEF HasRead, ServerTyped
  <2>4. c \in HelloCalls => c \notin PayrollCalls
    BY DEF Examples!ServerAssumption
  <2>5. CallInv(c)'
    BY <1>1, <2>1, <2>3, <2>4 DEF CallInv, Read, Released, HasResult, ServerTyped
  <2>6. to \notin {"idle", "waiting", "sending"}
    OBVIOUS
  <2> HIDE DEF to
  <2> QED
    BY <1>1, <1>2, <2>1, <2>5, <2>6, OneCallMoves DEF ServerTyped
<1>5. CASE Examples!Retry(c)
  <2>1. PICK to \in {"answering", "decrypting", "failed"} :
          /\ api'[c] = to /\ DOMAIN api' = Examples!Calls /\ \A d \in Examples!Calls \ {c} : api'[d] = api[d]
          /\ UNCHANGED <<id, nonce, attested, charged>>
          /\ DOMAIN tries' = Examples!Calls /\ api[c] = "decrypting"
          /\ to = "answering" => runtime /\ <<"payroll", id[c]>> \in ready
    <3>1. api[c] = "decrypting" /\ UNCHANGED <<id, nonce, attested, charged>>
      BY <1>5 DEF Examples!Retry
    <3>2. CASE runtime /\ <<"payroll", id[c]>> \in ready
      BY <1>1, <1>5, <3>1, <3>2 DEF Examples!Retry, Examples!Goto, ServerTyped
    <3>3. CASE ~(runtime /\ <<"payroll", id[c]>> \in ready)
      BY <1>1, <1>5, <3>1, <3>3 DEF Examples!Retry, Examples!Goto, ServerTyped
    <3> QED
      BY <3>2, <3>3
  <2>2. CallInv(c)'
    BY <1>1, <1>2, <2>1 DEF CallInv, Read, Released, HasRead, HasResult, ServerTyped
  <2> QED
    BY <1>1, <1>2, <2>1, <2>2, OneCallMoves DEF ServerTyped
<1>6. CASE Examples!Answer(c)
  <2>1. /\ api' = [api EXCEPT ![c] = "settling"] /\ attested' = [attested EXCEPT ![c] = id[c]]
        /\ api[c] = "answering" /\ UNCHANGED <<id, nonce, tries, charged>>
    BY <1>6 DEF Examples!Answer, Examples!Goto
  <2>2. CallInv(c)'
    BY <1>1, <1>2, <2>1 DEF CallInv, Read, Released, HasRead, HasResult, ServerTyped
  <2> QED
    BY <1>1, <1>2, <2>1, <2>2, OneCallMoves DEF ServerTyped
<1>7. CASE Examples!Transfer(c)
  <2>1. /\ charged' = charged \cup {c} /\ attested[c] # None
        /\ UNCHANGED <<api, id, nonce, tries, attested>>
    BY <1>7 DEF Examples!Transfer
  <2>2. CallInv(c)'
    BY <1>1, <1>2, <2>1 DEF CallInv, HasRead, HasResult
  <2> QED
    BY <1>1, <1>2, <2>1, <2>2, OneCallMoves DEF ServerTyped, CallInv
<1>8. CASE Examples!Settled(c)
  <2>1. PICK to \in {"delivered", "unsettled"} :
          /\ api' = [api EXCEPT ![c] = to] /\ api[c] = "settling" /\ (to = "delivered" => c \in charged)
          /\ UNCHANGED <<id, nonce, tries, attested, charged>>
    BY <1>8 DEF Examples!Settled, Examples!Goto
  <2>2. CallInv(c)'
    BY <1>1, <1>2, <2>1 DEF CallInv, Read, Released, HasRead, HasResult, ServerTyped
  <2> QED
    BY <1>1, <1>2, <2>1, <2>2, OneCallMoves DEF ServerTyped
<1> QED
  BY <1>3, <1>4, <1>5, <1>6, <1>7, <1>8

\* A transaction joins the mempool, once.
LEMMA SendStep ==
  ASSUME Examples!ServerAssumption, ServerInv, NEW c \in Examples!Calls, Examples!Send(c)
  PROVE  ServerInv'
<1>1. CallInv(c) /\ ServerTyped /\ api[c] = "sending" /\ tx[c] = None
  BY DEF Examples!Send, ServerInv, SentOnce
<1>2. UNCHANGED <<runtime, client, nonce, mined, id, tries, log, ready, attested, charged>>
  BY DEF Examples!Send, Examples!chain
<1>3. CASE nonce[c] # Len(mempool)
  <2>1. api' = [api EXCEPT ![c] = "failed"] /\ UNCHANGED <<mempool, tx>>
    BY <1>3 DEF Examples!Send, Examples!Goto
  <2>2. CallInv(c)'
    BY <1>1, <1>2, <2>1 DEF CallInv, Read, Released, ServerTyped
  <2> QED
    BY <1>1, <1>2, <2>1, <2>2, OneCallMoves DEF ServerTyped
<1>4. CASE nonce[c] = Len(mempool)
  <2> DEFINE n == Len(mempool)
             u == Append(mempool, c)
  <2>1. /\ api' = [api EXCEPT ![c] = "deciding"] /\ tx' = [tx EXCEPT ![c] = "sent"] /\ mempool' = u
    BY <1>4 DEF Examples!Send, Examples!Goto
  <2>2. /\ u \in Seq(Examples!Calls) /\ Len(u) = n + 1 /\ n \in Nat /\ u[n + 1] = c
        /\ \A i \in 1..n : u[i] = mempool[i] /\ mempool[i] \in Examples!Calls
    BY <1>1, AppendProperties, LenProperties, ElementOfSeq DEF ServerTyped
  <2> HIDE DEF u
  <2>3. \A d \in Examples!Calls : /\ api'[d] = IF d = c THEN "deciding" ELSE api[d]
                                  /\ tx'[d] = IF d = c THEN "sent" ELSE tx[d]
    BY <1>1, <2>1 DEF ServerTyped
  <2>4. \A i \in 1..n : mempool[i] # c
    BY <1>1 DEF ServerInv, SentOnce
  <2>5. ServerTyped'
    BY <1>1, <1>2, <2>1, <2>2 DEF ServerTyped
  <2>6. mined \in 0..n
    BY <1>1 DEF ServerTyped
  <2>7. SentOnce'
    <3>1. \A i, j \in 1..n + 1 : u[i] = u[j] => i = j
      BY <2>2, <2>4 DEF ServerInv, SentOnce
    <3>2. \A i \in 1..n + 1 : tx'[u[i]] # None
      <4>1. \A i \in 1..n : tx'[u[i]] # None
        BY <2>2, <2>3, <2>4 DEF ServerInv, SentOnce
      <4>2. tx'[u[n + 1]] # None
        BY <2>2, <2>3 DEF Examples!ServerAssumption
      <4> QED
        BY <2>2, <4>1, <4>2
    <3>3. \A i \in mined + 1..n + 1 : tx'[u[i]] = "sent"
      <4>1. \A i \in mined + 1..n : tx'[u[i]] = "sent"
        BY <2>2, <2>3, <2>4, <2>6 DEF ServerInv, SentOnce
      <4> QED
        BY <2>2, <2>3, <2>6, <4>1
    <3>4. \A d \in Examples!Calls : api'[d] \in {"idle", "waiting", "sending"} => tx'[d] = None
      BY <2>3 DEF ServerInv, SentOnce
    <3>5. \A s \in Examples!Servers : \A own \in 1..Len(log[s]) :
           log[s][own] \in Examples!Calls => tx'[log[s][own]] = "success"
      BY <1>1, <2>3 DEF ServerInv, SentOnce, Examples!ServerAssumption
    <3> QED
      BY <1>2, <2>1, <2>2, <3>1, <3>2, <3>3, <3>4, <3>5 DEF SentOnce
  <2>8. ASSUME NEW d \in Examples!Calls
        PROVE  CallInv(d)'
    <3>1. CallInv(d)
      BY DEF ServerInv
    <3>2. CASE d = c
      BY <1>1, <1>2, <2>3, <3>2 DEF CallInv, Read, Released
    <3>3. CASE d # c
      BY <1>2, <2>3, <3>1, <3>3 DEF CallInv, HasRead, HasResult
    <3> QED
      BY <3>2, <3>3
  <2> QED
    BY <1>2, <2>5, <2>7, <2>8 DEF ServerInv
<1> QED
  BY <1>3, <1>4

LEMMA LogLengths ==
  ASSUME ServerInv, NEW r \in Examples!Servers
  PROVE  Len(log[r]) \in Nat
<1>1. log[r] \in Seq(Examples!Calls \cup {Examples!Foreign})
  BY DEF ServerInv, ServerTyped
<1> QED
  BY <1>1, LenProperties

\* The log grows, if at all, by a decision of somebody who has not read it yet.
Grown(d) ==
  /\ log' \in [Examples!Servers -> Seq(Examples!Calls \cup {Examples!Foreign})]
  /\ \A r \in Examples!Servers :
       /\ 1..Len(log[r]) \subseteq 1..Len(log'[r])
       /\ \A own \in 1..Len(log'[r]) :
            \/ own \in 1..Len(log[r]) /\ log'[r][own] = log[r][own]
            \/ own \notin 1..Len(log[r]) /\ log'[r][own] = d

LEMMA LogGrows ==
  ASSUME ServerInv, NEW s \in Examples!Servers, NEW d \in Examples!Calls \cup {Examples!Foreign},
         UNCHANGED log \/ log' = [log EXCEPT ![s] = Append(@, d)]
  PROVE  Grown(d)
<1>1. /\ log \in [Examples!Servers -> Seq(Examples!Calls \cup {Examples!Foreign})]
      /\ \A r \in Examples!Servers : Len(log[r]) \in Nat
  BY LogLengths DEF ServerInv, ServerTyped
<1>2. CASE UNCHANGED log
  <2>1. \A r \in Examples!Servers : log'[r] = log[r]
    BY <1>2
  <2> QED
    BY <1>1, <1>2, <2>1 DEF Grown
<1>3. CASE log' = [log EXCEPT ![s] = Append(@, d)]
  <2>1. /\ DOMAIN log' = Examples!Servers
        /\ \A r \in Examples!Servers : log'[r] = IF r = s THEN Append(log[s], d) ELSE log[r]
    BY <1>1, <1>3
  <2> DEFINE w == log[s]
             n == Len(w)
             u == Append(w, d)
  <2>2. /\ n \in Nat /\ Len(u) = n + 1 /\ u \in Seq(Examples!Calls \cup {Examples!Foreign}) /\ u[n + 1] = d
        /\ \A own \in 1..n : u[own] = w[own]
    BY <1>1, AppendProperties, LenProperties
  <2> HIDE DEF u
  <2>3. log'[s] = u /\ \A r \in Examples!Servers : r # s => log'[r] = log[r]
    BY <2>1 DEF u
  <2>4. \A own \in 1..n + 1 : (own \in 1..n /\ u[own] = w[own]) \/ (own \notin 1..n /\ u[own] = d)
    BY <2>2
  <2>5. 1..n \subseteq 1..n + 1
    BY <2>2
  <2>6. log' \in [Examples!Servers -> Seq(Examples!Calls \cup {Examples!Foreign})]
    BY <1>1, <1>3, <2>2 DEF u
  <2>7. ASSUME NEW r \in Examples!Servers
        PROVE  /\ 1..Len(log[r]) \subseteq 1..Len(log'[r])
               /\ \A own \in 1..Len(log'[r]) :
                    \/ own \in 1..Len(log[r]) /\ log'[r][own] = log[r][own]
                    \/ own \notin 1..Len(log[r]) /\ log'[r][own] = d
    <3>1. CASE r = s
      BY <2>2, <2>3, <2>4, <2>5, <3>1
    <3>2. CASE r # s
      BY <2>3, <3>2
    <3> QED
      BY <3>1, <3>2
  <2> QED
    BY <2>6, <2>7 DEF Grown
<1> QED
  BY <1>2, <1>3

LEMMA MineStep ==
  ASSUME Examples!ServerAssumption, ServerInv, Examples!Mine
  PROVE  ServerInv'
<1> DEFINE n == Len(mempool)
           c == mempool[mined + 1]
<1>1. /\ n \in Nat /\ mined \in 0..n /\ mined < n /\ mined' = mined + 1
      /\ UNCHANGED <<runtime, client, api, nonce, mempool, id, tries, ready, attested, charged>>
  BY LenProperties DEF Examples!Mine, ServerInv, ServerTyped
<1>2. mined + 1 \in 1..n /\ mined + 1 \in mined + 1..n
  BY <1>1
<1>3. c \in Examples!Calls /\ tx[c] = "sent" /\ \A i \in mined + 2..n : mempool[i] # c
  BY <1>1, <1>2, ElementOfSeq DEF ServerInv, ServerTyped, SentOnce
<1>4. \/ tx' = [tx EXCEPT ![c] = "success"] /\ log' = [log EXCEPT ![Examples!Of(c)] = Append(@, c)]
      \/ tx' = [tx EXCEPT ![c] = "reverted"] /\ UNCHANGED log
  BY DEF Examples!Mine
<1> HIDE DEF c
<1>5. /\ tx'[c] \in {"success", "reverted"} /\ \A d \in Examples!Calls : d # c => tx'[d] = tx[d]
      /\ tx' \in [Examples!Calls -> {None, "sent", "success", "reverted"}]
      /\ tx'[c] = "reverted" => UNCHANGED log
  BY <1>3, <1>4 DEF ServerInv, ServerTyped
<1>6. Grown(c) /\ (UNCHANGED log \/ tx'[c] = "success")
  <2>1. tx' = [tx EXCEPT ![c] = "success"] => tx'[c] = "success"
    BY <1>3 DEF ServerInv, ServerTyped
  <2>2. Examples!Of(c) \in Examples!Servers
    BY <1>3, ServersOf
  <2> QED
    BY <1>3, <1>4, <2>1, <2>2, LogGrows
<1>7. ServerTyped'
  <2>1. mined' \in 0..n
    BY <1>1
  <2> QED
    BY <1>1, <1>5, <1>6, <2>1 DEF ServerInv, ServerTyped, Grown
<1>8. SentOnce'
  <2>1. \A i \in 1..n : mempool[i] \in Examples!Calls
    BY ElementOfSeq DEF ServerInv, ServerTyped
  <2>2. \A i \in 1..n : tx'[mempool[i]] # None
    BY <1>5, <2>1 DEF ServerInv, SentOnce, Examples!ServerAssumption
  <2>3. \A i \in mined' + 1..n : tx'[mempool[i]] = "sent"
    <3>1. \A i \in mined' + 1..n : i \in mined + 1..n /\ i \in mined + 2..n /\ i \in 1..n
      BY <1>1
    <3> QED
      BY <1>3, <1>5, <2>1, <3>1 DEF ServerInv, SentOnce
  <2>4. \A d \in Examples!Calls : api[d] \in {"idle", "waiting", "sending"} => tx'[d] = None
    BY <1>3, <1>5 DEF ServerInv, SentOnce, Examples!ServerAssumption
  <2>5. \A s \in Examples!Servers : \A own \in 1..Len(log'[s]) :
           log'[s][own] \in Examples!Calls => tx'[log'[s][own]] = "success"
    BY <1>3, <1>5, <1>6 DEF ServerInv, SentOnce, Grown
  <2> QED
    BY <1>1, <2>2, <2>3, <2>4, <2>5 DEF ServerInv, SentOnce
<1>9. ASSUME NEW d \in Examples!Calls
      PROVE  CallInv(d)'
  <2>1. CallInv(d) /\ Examples!Of(d) \in Examples!Servers
    BY ServersOf DEF ServerInv
  <2>2. CASE d = c
    BY <1>1, <1>3, <2>1, <2>2 DEF CallInv, HasRead, Released, Read
  <2>3. CASE d # c
    <3>1. HasRead(d) => HasRead(d)'
      BY <1>1, <1>5, <1>6, <2>1, <2>3 DEF HasRead, Grown
    <3> QED
      BY <1>1, <2>1, <3>1 DEF CallInv, HasResult
  <2> QED
    BY <2>2, <2>3
<1> QED
  BY <1>1, <1>7, <1>8, <1>9 DEF ServerInv

\* What others do: a decision of their own, a result, a Nox client
LEMMA OthersStep ==
  ASSUME Examples!ServerAssumption, ServerInv, NEW s \in Examples!Servers,
         \/ Examples!ClientMade(s) \/ Examples!ClientFails(s) \/ Examples!ForeignDecision(s)
         \/ \E i \in 1..Len(log[s]) : Examples!TeeCompute(s, i)
  PROVE  ServerInv'
<1>1. /\ UNCHANGED <<runtime, api, tx, nonce, mempool, mined, id, tries, attested, charged>>
      /\ ready \subseteq ready' /\ DOMAIN client' = Examples!Servers
      /\ UNCHANGED log \/ log' = [log EXCEPT ![s] = Append(@, Examples!Foreign)]
  BY DEF Examples!ClientMade, Examples!ClientFails, Examples!ForeignDecision, Examples!TeeCompute,
     Examples!chain, ServerInv, ServerTyped
<1>2. Grown(Examples!Foreign)
  BY <1>1, LogGrows
<1>3. ServerTyped'
  BY <1>1, <1>2 DEF ServerInv, ServerTyped, Grown
<1>4. SentOnce'
  BY <1>1, <1>2 DEF ServerInv, SentOnce, Examples!ServerAssumption, Grown
<1>5. ASSUME NEW d \in Examples!Calls
      PROVE  CallInv(d)'
  <2>1. CallInv(d) /\ Examples!Of(d) \in Examples!Servers
    BY ServersOf DEF ServerInv
  <2>2. HasRead(d) => HasRead(d)'
    BY <1>1, <1>2, <2>1 DEF HasRead, Examples!ServerAssumption, Grown
  <2>3. HasResult(d) => HasResult(d)'
    BY <1>1 DEF HasResult
  <2> QED
    BY <1>1, <2>1, <2>2, <2>3 DEF CallInv
<1> QED
  BY <1>1, <1>3, <1>4, <1>5 DEF ServerInv

LEMMA ServerStep ==
  ASSUME Examples!ServerAssumption, ServerInv, [Examples!Next]_(Examples!vars)
  PROVE  ServerInv'
<1>1. CASE UNCHANGED Examples!vars
  <2>1. ServerTyped' /\ SentOnce'
    BY <1>1 DEF Examples!vars, Examples!chain, ServerInv, ServerTyped, SentOnce
  <2>2. \A c \in Examples!Calls : CallInv(c)'
    BY <1>1 DEF Examples!vars, Examples!chain, ServerInv, CallInv, HasRead, HasResult
  <2> QED
    BY <1>1, <2>1, <2>2 DEF Examples!vars, ServerInv
<1> QED
  BY <1>1, HandlerSteps, SendStep, MineStep, OthersStep DEF Examples!Next

LEMMA ServerInvariance ==
  ASSUME Examples!ServerAssumption
  PROVE  Examples!Spec => []ServerInv
<1>1. Examples!Init => ServerInv
  BY ServerInit
<1>2. ServerInv /\ [Examples!Next]_(Examples!vars) => ServerInv'
  BY ServerStep
<1> QED
  BY <1>1, <1>2, PTL DEF Examples!Spec

\* For any calls to the two servers, whatever reverts, fails and is decided by others meanwhile:
\* what is charged for is no older than the caller's own decision, and the payroll charges for
\* results it had (the examples' compute functions, and the gate around them).
THEOREM ResultsAreCharged ==
  ASSUME Examples!ServerAssumption
  PROVE  Examples!Spec => []ChargedForResults
<1>1. ASSUME ServerInv
      PROVE  Examples!ChargedForResults
  <2>1. ASSUME NEW c \in charged
        PROVE  /\ HasRead(c) /\ HasResult(c) /\ attested[c] = id[c]
    <3>1. c \in Examples!Calls /\ CallInv(c) /\ attested[c] # None
      BY <1>1 DEF ServerInv, CallInv
    <3> QED
      BY <3>1 DEF CallInv, Released, Read
  <2> QED
    BY <2>1 DEF HasRead, HasResult, Examples!ChargedForResults
<1>2. ServerInv => Examples!ChargedForResults
  BY <1>1
<1> QED
  BY <1>2, ServerInvariance, PTL DEF ChargedForResults

\* The example servers keep the promise of any c402 endpoint: each step of the handler is one of
\* the paid call, or leaves it as it is.
THEOREM ExamplesKeepThePromise ==
  ASSUME Examples!ServerAssumption
  PROVE  Examples!Spec => ImplementsPaidCall
<1> DEFINE answered  == {c \in Examples!Calls : attested[c] # None}
           delivered == {c \in Examples!Calls : api[c] = "delivered"}
<1>1. Examples!Init => Examples!Promise!Init
  BY DEF Examples!Init, Examples!Promise!Init
<1>2. ASSUME ServerInv, [Examples!Next]_(Examples!vars)
      PROVE  [Examples!Promise!Next]_(Examples!Promise!vars)
  <2>1. /\ \A c \in Examples!Calls : CallInv(c) /\ (api[c] \in Read => id[c] # None)
        /\ DOMAIN api = Examples!Calls /\ DOMAIN attested = Examples!Calls /\ charged \subseteq Examples!Calls
    <3>1. ASSUME NEW c \in Examples!Calls, api[c] \in Read
          PROVE  id[c] # None
      BY <1>2, <3>1, ServersOf, LogLengths DEF ServerInv, CallInv, HasRead, Examples!ServerAssumption
    <3> QED
      BY <1>2, <3>1 DEF ServerInv, ServerTyped
  <2>2. CASE UNCHANGED <<answered, charged, delivered>>
    BY <2>2 DEF Examples!Promise!vars
  <2>3. ASSUME NEW c \in Examples!Calls,
               \/ Examples!Call(c) \/ Examples!Prepare(c) \/ Examples!Send(c)
               \/ Examples!ReadDecision(c) \/ Examples!Retry(c) \/ Examples!Fail(c)
        PROVE  UNCHANGED <<answered, charged, delivered>>
    <3>1. /\ UNCHANGED <<attested, charged>> /\ api[c] # "delivered"
          /\ api' = api \/ \E to \in {"waiting", "sending", "deciding", "failed", "answering", "decrypting"} :
                             api' = [api EXCEPT ![c] = to]
      BY <2>3 DEF Examples!Call, Examples!Prepare, Examples!Send, Examples!ReadDecision, Examples!Retry,
         Examples!Fail, Examples!Goto
    <3>2. \A d \in Examples!Calls : api'[d] = "delivered" <=> api[d] = "delivered"
      BY <2>1, <3>1
    <3> QED
      BY <3>1, <3>2
  <2>4. ASSUME NEW c \in Examples!Calls, Examples!Answer(c)
        PROVE  Examples!Promise!Answer(c)
    <3>1. /\ api[c] = "answering" /\ api' = [api EXCEPT ![c] = "settling"]
          /\ attested' = [attested EXCEPT ![c] = id[c]] /\ UNCHANGED charged
      BY <2>4 DEF Examples!Answer, Examples!Goto
    <3>2. attested[c] = None /\ id[c] # None
      BY <2>1, <3>1 DEF CallInv, Released, Read
    <3>3. answered' = answered \cup {c} /\ c \notin answered /\ delivered' = delivered
      BY <2>1, <3>1, <3>2
    <3> QED
      BY <3>1, <3>3 DEF Examples!Promise!Answer
  <2>5. ASSUME NEW c \in Examples!Calls, Examples!Transfer(c)
        PROVE  Examples!Promise!Charge(c)
    BY <2>5 DEF Examples!Transfer, Examples!Promise!Charge
  <2>6. ASSUME NEW c \in Examples!Calls, Examples!Settled(c)
        PROVE  Examples!Promise!Deliver(c) \/ UNCHANGED <<answered, charged, delivered>>
    <3>1. api[c] = "settling" /\ UNCHANGED <<attested, charged>>
      BY <2>6 DEF Examples!Settled
    <3>2. CASE c \in charged /\ api' = [api EXCEPT ![c] = "delivered"]
      <4>1. delivered' = delivered \cup {c} /\ c \in charged \ delivered
        BY <2>1, <3>1, <3>2
      <4> QED
        BY <3>1, <4>1 DEF Examples!Promise!Deliver
    <3>3. CASE api' = [api EXCEPT ![c] = "unsettled"]
      BY <2>1, <3>1, <3>3
    <3> QED
      BY <2>6, <3>2, <3>3 DEF Examples!Settled, Examples!Goto
  <2>7. ASSUME NEW s \in Examples!Servers,
               \/ Examples!ClientMade(s) \/ Examples!ClientFails(s) \/ Examples!ForeignDecision(s)
               \/ \E i \in 1..Len(log[s]) : Examples!TeeCompute(s, i)
        PROVE  UNCHANGED <<answered, charged, delivered>>
    BY <2>7 DEF Examples!ClientMade, Examples!ClientFails, Examples!ForeignDecision, Examples!TeeCompute
  <2>8. Examples!Mine \/ UNCHANGED Examples!vars => UNCHANGED <<answered, charged, delivered>>
    BY DEF Examples!Mine, Examples!vars
  <2> HIDE DEF answered, delivered
  <2> QED
    BY <1>2, <2>2, <2>3, <2>4, <2>5, <2>6, <2>7, <2>8 DEF Examples!Next, Examples!Promise!Next
<1> QED
  BY <1>1, <1>2, ServerInvariance, PTL DEF Examples!Spec, Examples!ImplementsPaidCall,
     Examples!Promise!Spec, ImplementsPaidCall

\* Where the clients and the calls are, and how often a result was asked for.
Asking == {"idle", "waiting", "sending", "deciding", "decrypting"}
StageInv ==
  /\ client \in [Examples!Servers -> {"pending", "ready", "rejected", "down"}]
  /\ api \in [Examples!Calls -> Asking \cup {"answering", "settling", "delivered", "unsettled", "failed"}]
  /\ tries \in [Examples!Calls -> 0..Tries] /\ \A c \in Examples!Calls : api[c] \in Asking => tries[c] < Tries

LEMMA CallMovesOn ==
  ASSUME Examples!ServerAssumption, StageInv, NEW c \in Examples!Calls, NEW to,
         Examples!Goto(c, to), UNCHANGED <<client, tries>>,
         to \in Asking \cup {"answering", "settling", "delivered", "unsettled", "failed"},
         to \in Asking => api[c] \in Asking
  PROVE  StageInv'
<1>1. \A d \in Examples!Calls : api'[d] = IF d = c THEN to ELSE api[d]
  BY DEF Examples!Goto, StageInv
<1>2. api' \in [Examples!Calls -> Asking \cup {"answering", "settling", "delivered", "unsettled", "failed"}]
  BY DEF Examples!Goto, StageInv
<1> QED
  BY <1>1, <1>2 DEF StageInv

LEMMA StageInvariance ==
  ASSUME Examples!ServerAssumption
  PROVE  Examples!Spec => []StageInv
<1>1. Examples!Init => StageInv
  <2> SUFFICES ASSUME Examples!Init
               PROVE  StageInv
    OBVIOUS
  <2>1. /\ client = [s \in Examples!Servers |-> "pending"] /\ api = [c \in Examples!Calls |-> "idle"]
        /\ tries = [c \in Examples!Calls |-> 0]
    BY DEF Examples!Init
  <2>2. 0 \in 0..Tries /\ 0 < Tries
    BY DEF Examples!ServerAssumption
  <2> QED
    BY <2>1, <2>2 DEF StageInv, Asking
<1>2. StageInv /\ [Examples!Next]_(Examples!vars) => StageInv'
  <2> SUFFICES ASSUME StageInv, [Examples!Next]_(Examples!vars)
               PROVE  StageInv'
    OBVIOUS
  <2>1. ASSUME NEW s \in Examples!Servers, Examples!ClientMade(s) \/ Examples!ClientFails(s)
        PROVE  StageInv'
    BY <2>1 DEF Examples!ClientMade, Examples!ClientFails, StageInv
  <2>2. ASSUME UNCHANGED <<client, api, tries>>
        PROVE  StageInv'
    BY <2>2 DEF StageInv
  <2>3. ASSUME NEW c \in Examples!Calls,
               \/ Examples!Call(c) \/ Examples!Prepare(c)
               \/ Examples!Answer(c) \/ Examples!Settled(c) \/ Examples!Fail(c)
        PROVE  StageInv'
    BY <2>3, CallMovesOn DEF Examples!Call, Examples!Prepare, Examples!Answer, Examples!Settled,
       Examples!Fail, Asking
  <2>4. ASSUME NEW c \in Examples!Calls, Examples!Send(c) \/ Examples!ReadDecision(c)
        PROVE  StageInv'
    BY <2>4, CallMovesOn DEF Examples!Send, Examples!ReadDecision, Asking
  <2>5. ASSUME NEW c \in Examples!Calls, Examples!Retry(c)
        PROVE  StageInv'
    <3>1. api[c] = "decrypting" /\ api[c] \in Asking /\ UNCHANGED client
      BY <2>5 DEF Examples!Retry, Asking
    <3>2. CASE runtime /\ <<"payroll", id[c]>> \in ready
      BY <2>5, <3>1, <3>2, CallMovesOn DEF Examples!Retry
    <3>3. CASE ~(runtime /\ <<"payroll", id[c]>> \in ready)
      <4>1. /\ tries' = [tries EXCEPT ![c] = @ + 1]
            /\ IF tries[c] + 1 < Tries THEN api' = api ELSE api' = [api EXCEPT ![c] = "failed"]
        BY <2>5, <3>3 DEF Examples!Retry, Examples!Goto
      <4>2. PICK n \in Nat : n = tries[c] /\ n < Tries /\ n + 1 \in 0..Tries
        BY <3>1 DEF StageInv, Examples!ServerAssumption
      <4>3. \A d \in Examples!Calls : tries'[d] = IF d = c THEN n + 1 ELSE tries[d]
        BY <4>1, <4>2 DEF StageInv
      <4>4. tries' \in [Examples!Calls -> 0..Tries]
        BY <4>1, <4>2 DEF StageInv
      <4>5. CASE n + 1 < Tries
        BY <3>1, <4>1, <4>2, <4>3, <4>4, <4>5 DEF StageInv
      <4>6. CASE ~(n + 1 < Tries)
        <5>1. api' = [api EXCEPT ![c] = "failed"] /\ "failed" \notin Asking
          BY <4>1, <4>2, <4>6 DEF Asking
        <5>2. \A d \in Examples!Calls : api'[d] = IF d = c THEN "failed" ELSE api[d]
          BY <5>1 DEF StageInv
        <5>3. api' \in [Examples!Calls -> Asking \cup {"answering", "settling", "delivered", "unsettled", "failed"}]
          BY <5>1 DEF StageInv
        <5> QED
          BY <3>1, <4>3, <4>4, <5>1, <5>2, <5>3 DEF StageInv
      <4> QED
        BY <4>5, <4>6
    <3> QED
      BY <3>2, <3>3
  <2>6. ASSUME NEW c \in Examples!Calls, Examples!Transfer(c)
        PROVE  UNCHANGED <<client, api, tries>>
    BY <2>6 DEF Examples!Transfer
  <2>7. ASSUME NEW s \in Examples!Servers,
               Examples!ForeignDecision(s) \/ \E i \in 1..Len(log[s]) : Examples!TeeCompute(s, i)
        PROVE  UNCHANGED <<client, api, tries>>
    BY <2>7 DEF Examples!ForeignDecision, Examples!TeeCompute
  <2>8. Examples!Mine \/ UNCHANGED Examples!vars => UNCHANGED <<client, api, tries>>
    BY DEF Examples!Mine, Examples!vars
  <2> QED
    BY <2>1, <2>2, <2>3, <2>4, <2>5, <2>6, <2>7, <2>8 DEF Examples!Next
<1> QED
  BY <1>1, <1>2, PTL DEF Examples!Spec

\* The example servers' types: no more tries than there are, and attestations of decisions made.
THEOREM ServersTypeCorrect ==
  ASSUME Examples!ServerAssumption
  PROVE  Examples!Spec => []Examples!TypeOK
<1>1. ServerInv /\ StageInv => Examples!TypeOK
  <2> SUFFICES ASSUME ServerInv, StageInv
               PROVE  Examples!TypeOK
    OBVIOUS
  <2>1. ASSUME NEW c \in Examples!Calls, attested[c] # None
        PROVE  attested[c] \in 1..Len(log[Examples!Of(c)])
    BY <2>1 DEF ServerInv, CallInv, HasRead, Read, Released
  <2> QED
    BY <2>1 DEF ServerInv, ServerTyped, StageInv, Asking, Examples!TypeOK
<1> QED
  BY <1>1, ServerInvariance, StageInvariance, PTL

-----------------------------------------------------------------------------
\* The operator's gas

\* A balance read is there but for what was spent since (which is counted up to MinWei), and
\* what the call spent itself (own).
Accounted(wei, spent, own) == spent = MinWei \/ balance + spent + own >= wei

Judged(q) ==
  /\ q.state = "answering" => Accounted(q.wei, q.spent, 0)
  /\ q.state = "passed"    => q.wei >= MinWei /\ Accounted(q.wei, q.spent, 0)
  /\ q.state = "decided"   => q.wei >= MinWei /\ Accounted(q.wei, q.spent, 1)
  /\ q.state = "failed"    => q.spent >= MinWei
  /\ q.state = "unsettled" => q.spent >= MinWei - 1

Reading == [age : Operator!Ages, wei : 0..MaxBalance, spent : 0..MinWei]

CallType ==
  [state : Operator!Ended \cup {"idle", "asking", "answering", "passed", "decided", "metering"},
   age : Operator!Ages, wei : 0..MaxBalance \cup {None}, spent : 0..MinWei]

GasInv ==
  /\ balance \in 0..MaxBalance
  /\ cached = None \/ (cached \in Reading /\ Accounted(cached.wei, cached.spent, 0))
  /\ call \in [Slots -> CallType]
  /\ \A c \in Slots : /\ call[c].state = "answering" => call[c].wei # None
                      /\ call[c].wei # None => Judged(call[c])

LEMMA GasNumbers ==
  ASSUME Operator!GasAssumption
  PROVE  /\ MinWei \in Nat /\ MaxBalance \in Nat /\ CacheMs \in Nat /\ 0 \in 0..MinWei
         /\ 0 \in Operator!Ages /\ \A a \in Operator!Ages : Operator!Older(a) \in Operator!Ages
         /\ \A n \in 0..MinWei : /\ Operator!Count(n) \in 0..MinWei /\ n <= Operator!Count(n)
                                 /\ Operator!Count(n) = MinWei \/ Operator!Count(n) = n + 1
         /\ None \notin Nat
BY DEF Operator!GasAssumption, Operator!Ages, Operator!Older, Operator!Count

\* One call moves, and the balance does not.
LEMMA OneCallJudged ==
  ASSUME GasInv, NEW c \in Slots, NEW q, call' = [call EXCEPT ![c] = q], UNCHANGED balance,
         q \in CallType, q.state = "answering" => q.wei # None,
         q.wei # None => Judged(q),
         cached' = cached \/ (cached' \in Reading /\ Accounted(cached'.wei, cached'.spent, 0))
  PROVE  GasInv'
<1>1. \A d \in Slots : call'[d] = IF d = c THEN q ELSE call[d]
  BY DEF GasInv
<1>2. call' \in [Slots -> CallType]
  BY DEF GasInv
<1>3. \A d \in Slots : /\ call'[d].state = "answering" => call'[d].wei # None
                       /\ call'[d].wei # None => Judged(call[d])'
  BY <1>1 DEF GasInv, Judged, Accounted
<1> QED
  BY <1>2, <1>3 DEF GasInv, Accounted, Reading, CallType

\* The guard: the call is judged by what is cached, by what is read, or by nothing.
LEMMA GuardSteps ==
  ASSUME Operator!GasAssumption, GasInv, NEW c \in Slots,
         Operator!Arrive(c) \/ Operator!ReadBalance(c) \/ Operator!BalanceAnswered(c) \/ Operator!BalanceFailed(c)
           \/ Operator!Unpaid(c) \/ Operator!Again(c)
  PROVE  GasInv'
<1> DEFINE q == call[c]
<1>1. /\ q \in CallType /\ balance \in 0..MaxBalance /\ UNCHANGED balance
      /\ q.state = "answering" => q.wei # None
      /\ q.wei # None => Judged(q)
      /\ cached = None \/ (cached \in Reading /\ Accounted(cached.wei, cached.spent, 0))
  BY DEF GasInv, Operator!Arrive, Operator!ReadBalance, Operator!BalanceAnswered, Operator!BalanceFailed,
     Operator!Unpaid, Operator!Again
<1>2. /\ Operator!Idle \in CallType /\ Operator!Idle.wei = None /\ Operator!Idle.state = "idle"
      /\ \A s \in {"asking", "passed"} : /\ [Operator!Idle EXCEPT !.state = s] \in CallType
                                         /\ [Operator!Idle EXCEPT !.state = s].wei = None
                                         /\ [Operator!Idle EXCEPT !.state = s].state = s
  BY GasNumbers DEF Operator!Idle, CallType
<1>3. CASE Operator!Arrive(c)
  <2>1. CASE Operator!Stale
    <3> DEFINE n == [Operator!Idle EXCEPT !.state = "asking"]
    <3>1. call' = [call EXCEPT ![c] = n] /\ UNCHANGED cached
      BY <1>3, <2>1 DEF Operator!Arrive
    <3> HIDE DEF n
    <3>2. n \in CallType /\ n.wei = None /\ n.state = "asking"
      BY <1>2 DEF n
    <3> QED
      BY <1>1, <3>1, <3>2, OneCallJudged
  <2>2. CASE ~Operator!Stale
    <3> DEFINE n == [state |-> Operator!Verdict(cached.wei), age |-> 0, wei |-> cached.wei, spent |-> cached.spent]
    <3>1. call' = [call EXCEPT ![c] = n] /\ UNCHANGED cached
      BY <1>3, <2>2 DEF Operator!Arrive
    <3>2. cached \in Reading /\ Accounted(cached.wei, cached.spent, 0)
      BY <1>1, <2>2 DEF Operator!Stale
    <3>3. n \in CallType
      BY <3>2, GasNumbers DEF Reading, CallType, Operator!Verdict, Operator!Ended
    <3>4. Judged(n) /\ n.state # "answering"
      BY <3>2, GasNumbers DEF Reading, Operator!Verdict, Judged
    <3> HIDE DEF n
    <3> QED
      BY <1>1, <3>1, <3>3, <3>4, OneCallJudged
  <2> QED
    BY <2>1, <2>2
<1>4. CASE Operator!ReadBalance(c)
  <2> DEFINE n == [q EXCEPT !.state = "answering", !.wei = balance, !.spent = 0]
  <2>1. call' = [call EXCEPT ![c] = n] /\ UNCHANGED cached
    BY <1>4 DEF Operator!ReadBalance
  <2>2. n \in CallType /\ n.wei = balance /\ n.spent = 0 /\ n.state = "answering"
    BY <1>1, GasNumbers DEF CallType
  <2> HIDE DEF n
  <2>3. Accounted(balance, 0, 0) /\ balance # None
    BY <1>1, GasNumbers DEF Accounted
  <2>4. Judged(n)
    BY <2>2, <2>3 DEF Judged
  <2> QED
    BY <1>1, <2>1, <2>2, <2>3, <2>4, OneCallJudged
<1>5. CASE Operator!BalanceAnswered(c)
  <2> DEFINE n == [q EXCEPT !.state = Operator!Verdict(q.wei), !.age = 0]
  <2>1. /\ call' = [call EXCEPT ![c] = n] /\ q.state = "answering"
        /\ cached' = [age |-> q.age, wei |-> q.wei, spent |-> q.spent]
    BY <1>5 DEF Operator!BalanceAnswered
  <2>2. q.wei \in 0..MaxBalance /\ q.spent \in 0..MinWei /\ Accounted(q.wei, q.spent, 0)
    BY <1>1, <2>1 DEF CallType, Judged
  <2>3. n \in CallType /\ n.wei = q.wei /\ n.spent = q.spent /\ n.state = Operator!Verdict(q.wei)
    BY <1>1, GasNumbers DEF CallType, Operator!Verdict, Operator!Ended
  <2> HIDE DEF n
  <2>4. Judged(n) /\ n.state # "answering"
    BY <2>2, <2>3, GasNumbers DEF Judged, Operator!Verdict
  <2>5. cached' \in Reading /\ Accounted(cached'.wei, cached'.spent, 0)
    BY <1>1, <2>1, <2>2 DEF Reading, CallType
  <2> QED
    BY <1>1, <2>1, <2>3, <2>4, <2>5, OneCallJudged
<1>6. CASE Operator!BalanceFailed(c)
  <2> DEFINE n == [Operator!Idle EXCEPT !.state = "passed"]
  <2>1. call' = [call EXCEPT ![c] = n] /\ UNCHANGED cached
    BY <1>6 DEF Operator!BalanceFailed
  <2> HIDE DEF n
  <2>2. n \in CallType /\ n.wei = None /\ n.state = "passed"
    BY <1>2 DEF n
  <2> QED
    BY <1>1, <2>1, <2>2, OneCallJudged
<1>7. CASE Operator!Unpaid(c)
  <2> DEFINE n == [q EXCEPT !.state = "unpaid"]
  <2>1. call' = [call EXCEPT ![c] = n] /\ UNCHANGED cached
    BY <1>7 DEF Operator!Unpaid, Operator!Goto
  <2>2. n \in CallType /\ n.state = "unpaid"
    BY <1>1 DEF CallType, Operator!Ended
  <2> HIDE DEF n
  <2> QED
    BY <1>1, <2>1, <2>2, OneCallJudged DEF Judged
<1>8. CASE Operator!Again(c)
  <2>1. call' = [call EXCEPT ![c] = Operator!Idle] /\ UNCHANGED cached
    BY <1>8 DEF Operator!Again
  <2> QED
    BY <1>1, <1>2, <2>1, OneCallJudged
<1> QED
  BY <1>3, <1>4, <1>5, <1>6, <1>7, <1>8

\* A transaction is accounted for by all who have read the balance, its sender's own apart.
LEMMA SpendStep ==
  ASSUME Operator!GasAssumption, GasInv, NEW c \in Slots, NEW next \in {"decided", "metering", "delivered"},
         Operator!Spend(c, next), next = "decided" => call[c].state = "passed"
  PROVE  GasInv'
<1>1. balance > 0 /\ balance \in 0..MaxBalance /\ balance' = balance - 1 /\ balance' \in 0..MaxBalance
  BY GasNumbers DEF GasInv, Operator!Spend
<1>2. ASSUME NEW wei \in 0..MaxBalance, NEW spent \in 0..MinWei, NEW own \in Nat, Accounted(wei, spent, own)
      PROVE  /\ Operator!Count(spent) = MinWei \/ balance' + Operator!Count(spent) + own >= wei
             /\ spent = MinWei \/ balance' + spent + (own + 1) >= wei
  BY <1>1, <1>2, GasNumbers DEF Accounted
<1>3. cached' = None \/ (cached' \in Reading /\ Accounted(cached.wei, cached.spent, 0)')
  <2>1. CASE cached = None
    BY <2>1 DEF Operator!Spend
  <2>2. CASE cached # None
    <3>1. cached \in Reading /\ Accounted(cached.wei, cached.spent, 0)
      BY <2>2 DEF GasInv
    <3>2. cached' = [cached EXCEPT !.spent = Operator!Count(cached.spent)]
      BY <2>2 DEF Operator!Spend
    <3>3. cached' \in Reading /\ cached'.wei = cached.wei /\ cached'.spent = Operator!Count(cached.spent)
      BY <3>1, <3>2, GasNumbers DEF Reading
    <3> QED
      BY <1>2, <3>1, <3>3 DEF Reading, Accounted
  <2> QED
    BY <2>1, <2>2
<1>4. ASSUME NEW d \in Slots
      PROVE  /\ call'[d] \in CallType
             /\ call'[d].state = "answering" => call'[d].wei # None
             /\ call'[d].wei # None => Judged(call[d])'
  <2> DEFINE q == call[d]
  <2>1. q \in CallType /\ (q.wei # None => Judged(q)) /\ (q.state = "answering" => q.wei # None)
    BY DEF GasInv
  <2>2. CASE d = c
    <3>1. call'[d] = [q EXCEPT !.state = next]
      BY <2>2 DEF Operator!Spend
    <3>2. /\ call'[d] \in CallType /\ call'[d].state = next /\ call'[d].wei = q.wei
          /\ call'[d].spent = q.spent
      BY <2>1, <3>1 DEF CallType, Operator!Ended
    <3>3. ASSUME q.wei # None, next = "decided"
          PROVE  q.wei >= MinWei /\ (q.spent = MinWei \/ balance' + q.spent + 1 >= q.wei)
      <4>1. q.wei \in 0..MaxBalance /\ q.spent \in 0..MinWei /\ Accounted(q.wei, q.spent, 0) /\ q.wei >= MinWei
        BY <2>1, <2>2, <3>3 DEF CallType, Judged
      <4>2. q.spent = MinWei \/ balance' + q.spent + (0 + 1) >= q.wei
        BY <1>2, <4>1
      <4> QED
        BY <4>1, <4>2
    <3> QED
      BY <3>2, <3>3 DEF Judged, Accounted
  <2>3. CASE d # c /\ q.wei = None
    BY <2>1, <2>3 DEF Operator!Spend
  <2>4. CASE d # c /\ q.wei # None
    <3>1. call'[d] = [q EXCEPT !.spent = Operator!Count(q.spent)]
      BY <2>4 DEF Operator!Spend
    <3>2. /\ call'[d] \in CallType /\ call'[d].state = q.state /\ call'[d].wei = q.wei
          /\ call'[d].spent = Operator!Count(q.spent)
      BY <2>1, <3>1, GasNumbers DEF CallType
    <3>3. q.wei \in 0..MaxBalance /\ q.spent \in 0..MinWei /\ q.spent <= Operator!Count(q.spent)
      BY <2>1, <2>4, GasNumbers DEF CallType
    <3>4. Judged(call[d])'
      <4>1. \A own \in {0, 1} : Accounted(q.wei, q.spent, own) =>
              Operator!Count(q.spent) = MinWei \/ balance' + Operator!Count(q.spent) + own >= q.wei
        BY <1>2, <3>3
      <4> QED
        BY <2>1, <2>4, <3>2, <3>3, <4>1, GasNumbers DEF Judged, Accounted
    <3> QED
      BY <2>1, <3>2, <3>4
  <2> QED
    BY <2>2, <2>3, <2>4
<1>5. call' \in [Slots -> CallType]
  <2>1. call' = [d \in Slots |-> call'[d]]
    BY DEF Operator!Spend
  <2> QED
    BY <1>4, <2>1
<1> QED
  BY <1>1, <1>3, <1>4, <1>5 DEF GasInv

\* Out of gas: what the call was judged by others have spent.
LEMMA OutOfGas ==
  ASSUME Operator!GasAssumption, GasInv, NEW c \in Slots, balance = 0, UNCHANGED <<balance, cached>>,
         NEW to, call' = Operator!Goto(c, to),
         \/ call[c].state = "passed" /\ to = "failed"
         \/ call[c].state = "decided" /\ to = "unsettled"
         \/ call[c].state = "metering" /\ to = "delivered"
  PROVE  GasInv'
<1> DEFINE q == call[c]
           n == [q EXCEPT !.state = to]
<1>1. q \in CallType /\ (q.wei # None => Judged(q))
  BY DEF GasInv
<1>2. call' = [call EXCEPT ![c] = n]
  BY DEF Operator!Goto
<1>3. n \in CallType /\ n.state = to /\ n.wei = q.wei /\ n.spent = q.spent
  BY <1>1 DEF CallType, Operator!Ended
<1> HIDE DEF n
<1>4. ASSUME n.wei # None
      PROVE  Judged(n)
  <2>1. q.wei \in 0..MaxBalance /\ q.spent \in 0..MinWei /\ Judged(q)
    BY <1>1, <1>3, <1>4 DEF CallType
  <2> QED
    BY <1>3, <2>1, GasNumbers DEF Judged, Accounted
<1> QED
  BY <1>2, <1>3, <1>4, OneCallJudged

LEMMA RefillAndTick ==
  ASSUME Operator!GasAssumption, GasInv, Operator!Refill \/ Operator!Tick
  PROVE  GasInv'
<1>1. balance \in 0..MaxBalance /\ balance' \in 0..MaxBalance /\ balance <= balance'
  BY GasNumbers DEF GasInv, Operator!Refill, Operator!Tick
<1>2. cached' = None \/ (cached' \in Reading /\ Accounted(cached.wei, cached.spent, 0)')
  <2>1. CASE cached = None
    BY <2>1 DEF Operator!Refill, Operator!Tick
  <2>2. CASE cached # None
    <3>1. cached \in Reading /\ Accounted(cached.wei, cached.spent, 0)
      BY <2>2 DEF GasInv
    <3>2. cached' \in Reading /\ cached'.wei = cached.wei /\ cached'.spent = cached.spent
      BY <2>2, <3>1, GasNumbers DEF Operator!Refill, Operator!Tick, Reading
    <3>3. cached.wei \in 0..MaxBalance /\ cached.spent \in 0..MinWei
      BY <3>1 DEF Reading
    <3> QED
      BY <1>1, <3>1, <3>2, <3>3, GasNumbers DEF Accounted
  <2> QED
    BY <2>1, <2>2
<1>3. /\ call' \in [Slots -> CallType]
      /\ \A d \in Slots : /\ call'[d].state = call[d].state /\ call'[d].wei = call[d].wei
                          /\ call'[d].spent = call[d].spent
  <2>1. call \in [Slots -> CallType]
    BY DEF GasInv
  <2>2. CASE Operator!Refill
    BY <2>1, <2>2 DEF Operator!Refill
  <2>3. CASE Operator!Tick
    <3>1. ASSUME NEW d \in Slots
          PROVE  /\ call'[d] \in CallType /\ call'[d].state = call[d].state
                 /\ call'[d].wei = call[d].wei /\ call'[d].spent = call[d].spent
      <4>1. call'[d] = call[d] \/ call'[d] = [call[d] EXCEPT !.age = Operator!Older(call[d].age)]
        BY <2>3 DEF Operator!Tick
      <4> QED
        BY <2>1, <4>1, GasNumbers DEF CallType
    <3>2. call' = [d \in Slots |-> call'[d]]
      BY <2>3 DEF Operator!Tick
    <3> QED
      BY <3>1, <3>2
  <2> QED
    BY <2>2, <2>3
<1>4. ASSUME NEW d \in Slots
      PROVE  /\ call'[d].state = "answering" => call'[d].wei # None
             /\ call'[d].wei # None => Judged(call[d])'
  <2>1. call[d] \in CallType /\ (call[d].wei # None => Judged(call[d]))
        /\ (call[d].state = "answering" => call[d].wei # None)
    BY DEF GasInv
  <2>2. ASSUME call[d].wei # None
        PROVE  Judged(call[d])'
    <3>1. call[d].wei \in 0..MaxBalance /\ call[d].spent \in 0..MinWei
      BY <2>1, <2>2 DEF CallType
    <3> QED
      BY <1>1, <1>3, <2>1, <2>2, <3>1, GasNumbers DEF Judged, Accounted
  <2> QED
    BY <1>3, <2>1, <2>2
<1> QED
  BY <1>1, <1>2, <1>3, <1>4 DEF GasInv

LEMMA GasInvariance ==
  ASSUME Operator!GasAssumption
  PROVE  Operator!Spec => []GasInv
<1>1. ASSUME Operator!Init
      PROVE  GasInv
  <2>1. Operator!Idle \in CallType /\ Operator!Idle.wei = None /\ Operator!Idle.state = "idle"
    BY GasNumbers DEF Operator!Idle, CallType
  <2> QED
    BY <1>1, <2>1 DEF Operator!Init, GasInv
<1>2. ASSUME GasInv, [Operator!Next]_(Operator!vars)
      PROVE  GasInv'
  <2>1. CASE UNCHANGED Operator!vars
    BY <1>2, <2>1 DEF Operator!vars, GasInv, Judged, Accounted, Reading, CallType
  <2>2. ASSUME NEW c \in Slots, Operator!Decide(c) \/ Operator!Settle(c) \/ Operator!MeterPayment(c)
        PROVE  GasInv'
    BY <1>2, <2>2, SpendStep, OutOfGas DEF Operator!Decide, Operator!Settle, Operator!MeterPayment
  <2> QED
    BY <1>2, <2>1, <2>2, GuardSteps, RefillAndTick DEF Operator!Next, Operator!Answered
<1> QED
  BY <1>1, <1>2, PTL DEF Operator!Spec

\* A call that was judged by a balance fails for want of gas only if others spent what it was
\* judged by, for any number of clients, any minimum and cache time, and however late balances
\* are answered (gasGuard, and the transactions of a paid call).
THEOREM FailuresAreOfSharedGas ==
  ASSUME Operator!GasAssumption
  PROVE  Operator!Spec => []FailsOnlyWhenOthersSpent
<1>1. GasInv => Operator!FailsOnlyWhenOthersSpent
  BY DEF GasInv, Judged, Operator!FailsOnlyWhenOthersSpent
<1> QED
  BY <1>1, GasInvariance, PTL DEF FailsOnlyWhenOthersSpent

\* Types of the operator's gas, cached and spent
THEOREM GasTypeCorrect ==
  ASSUME Operator!GasAssumption
  PROVE  Operator!Spec => []Operator!TypeOK
<1>1. GasInv => Operator!TypeOK
  BY DEF GasInv, Reading, CallType, Operator!TypeOK
<1> QED
  BY <1>1, GasInvariance, PTL

-----------------------------------------------------------------------------
\* The launcher

States == {"none", "booting", "up", "ending", "ended"}

\* Every launcher but the last has ended, and nothing of later ones exists.  Where launchers are
\* contained none of an ended one's children is alive; where they are not, a launcher that ended
\* with a child has told the other to end.
LauncherTyped ==
  /\ contained \in BOOLEAN /\ run \in Launcher!Runs /\ launcher \in {"waiting", "up", "ended"}
  /\ child \in [Launcher!Names -> [Launcher!Runs -> States]]
  /\ cause \in [Launcher!Runs -> {"runs", "child", "gave up", "killed"}]

Ends(r) == cause[r] = "runs" <=> r > run \/ (r = run /\ launcher # "ended")

ChildInv(n, r) ==
  /\ r > run => child[n][r] = "none"
  /\ contained /\ cause[r] # "runs" => child[n][r] \in {"none", "ended"}
  /\ cause[r] = "child" => child[n][r] \notin {"booting", "up"}

PairInv(r) ==
  /\ contained /\ child["api"][r] # "none" => child["facilitator"][r] # "booting"
  /\ r = run /\ launcher = "waiting" => child["api"][r] = "none"

LauncherInv ==
  /\ LauncherTyped
  /\ \A r \in Launcher!Runs : Ends(r) /\ PairInv(r) /\ \A n \in Launcher!Names : ChildInv(n, r)

LEMMA LauncherNames ==
  /\ "facilitator" \in Launcher!Names /\ "api" \in Launcher!Names
  /\ \A n \in Launcher!Names : n = "facilitator" \/ n = "api"
  /\ \A r \in Launcher!Runs : r \in Nat
  /\ Launcher!Alive = {"booting", "up", "ending"}
BY DEF Launcher!Names, Launcher!Runs, Launcher!Alive

LEMMA NotAfterItself == \A r \in Launcher!Runs : ~(r > r)
<1> SUFFICES ASSUME NEW r \in Launcher!Runs
             PROVE  ~(r > r)
  OBVIOUS
<1>1. r \in Nat
  BY DEF Launcher!Runs
<1> QED
  BY <1>1

\* A child moves on by itself.
LEMMA ChildMoves ==
  ASSUME LauncherInv, NEW n \in Launcher!Names, NEW r \in Launcher!Runs, NEW s \in {"up", "ended"},
         child[n][r] \in Launcher!Alive, child' = [child EXCEPT ![n][r] = s],
         s = "up" => child[n][r] = "booting",
         UNCHANGED <<contained, run, launcher, cause>>
  PROVE  LauncherInv'
<1>1. LauncherTyped'
  BY DEF LauncherInv, LauncherTyped, States
<1>2. \A m \in Launcher!Names, q \in Launcher!Runs : child'[m][q] = IF m = n /\ q = r THEN s ELSE child[m][q]
  BY DEF LauncherInv, LauncherTyped
<1>3. child[n][r] \in {"booting", "up", "ending"}
  BY LauncherNames
<1>4. ASSUME NEW q \in Launcher!Runs
      PROVE  Ends(q)' /\ PairInv(q)'
  <2>1. Ends(q) /\ PairInv(q)
    BY DEF LauncherInv
  <2>2. /\ child'["api"][q] = "none" <=> child["api"][q] = "none"
        /\ child'["facilitator"][q] = "booting" => child["facilitator"][q] = "booting"
    BY <1>2, <1>3, LauncherNames
  <2> QED
    BY <2>1, <2>2 DEF Ends, PairInv
<1>5. ASSUME NEW q \in Launcher!Runs, NEW m \in Launcher!Names
      PROVE  ChildInv(m, q)'
  <2>1. ChildInv(m, q)
    BY DEF LauncherInv
  <2>2. CASE m = n /\ q = r
    BY <1>2, <1>3, <2>1, <2>2 DEF ChildInv
  <2>3. CASE ~(m = n /\ q = r)
    BY <1>2, <2>1, <2>3 DEF ChildInv
  <2> QED
    BY <2>2, <2>3
<1> QED
  BY <1>1, <1>4, <1>5 DEF LauncherInv, Launcher!Runs

\* The launcher ends, having told its children to, or none of them.
Told == [n \in Launcher!Names |-> [child[n] EXCEPT ![run] = IF @ \in Launcher!Alive THEN "ending" ELSE @]]
Parting(why, ch) == (ch = child /\ why # "child") \/ ch = Told

LEMMA LauncherEnds ==
  ASSUME LauncherInv, launcher # "ended", NEW why \in {"child", "gave up", "killed"}, NEW ch,
         UNCHANGED <<contained, run>>, Launcher!EndedFor(why, ch), Parting(why, ch)
  PROVE  LauncherInv'
<1> DEFINE Swept == [m \in Launcher!Names |->
                      [q \in Launcher!Runs |-> IF ch[m][q] \in Launcher!Alive THEN "ended" ELSE ch[m][q]]]
<1>0. contained' => contained
  OBVIOUS
<1>1. /\ launcher' = "ended" /\ cause' = [cause EXCEPT ![run] = why]
      /\ child' = IF contained THEN Swept ELSE ch
  BY DEF Launcher!EndedFor
<1>2. /\ \A r \in Launcher!Runs : cause'[r] = IF r = run THEN why ELSE cause[r]
      /\ launcher' = "ended" /\ run' = run /\ contained' = contained
      /\ why \in {"child", "gave up", "killed"}
  BY <1>1 DEF LauncherInv, LauncherTyped
<1>3. /\ ch \in [Launcher!Names -> [Launcher!Runs -> States]]
      /\ \A n \in Launcher!Names, r \in Launcher!Runs :
           \/ ch[n][r] = child[n][r] /\ (r = run /\ why = "child" => child[n][r] \notin Launcher!Alive)
           \/ r = run /\ child[n][r] \in Launcher!Alive /\ ch[n][r] = "ending"
  <2>1. CASE ch = child /\ why # "child"
    BY <2>1 DEF LauncherInv, LauncherTyped
  <2>2. CASE ch = Told
    <3>1. ASSUME NEW n \in Launcher!Names
          PROVE  /\ child[n] \in [Launcher!Runs -> States]
                 /\ ch[n] = [child[n] EXCEPT ![run] = IF child[n][run] \in Launcher!Alive THEN "ending" ELSE child[n][run]]
      BY <2>2 DEF LauncherInv, LauncherTyped, Told
    <3>2. ASSUME NEW n \in Launcher!Names, NEW r \in Launcher!Runs
          PROVE  \/ ch[n][r] = child[n][r] /\ (r = run /\ why = "child" => child[n][r] \notin Launcher!Alive)
                 \/ r = run /\ child[n][r] \in Launcher!Alive /\ ch[n][r] = "ending"
      BY <3>1
    <3>3. ASSUME NEW n \in Launcher!Names
          PROVE  ch[n] \in [Launcher!Runs -> States]
      <4> DEFINE state == IF child[n][run] \in Launcher!Alive THEN "ending" ELSE child[n][run]
      <4>1. run \in Launcher!Runs /\ child[n] \in [Launcher!Runs -> States] /\ ch[n] = [child[n] EXCEPT ![run] = state]
        BY <3>1 DEF LauncherInv, LauncherTyped
      <4>2. state \in States
        BY <4>1 DEF States
      <4> HIDE DEF state
      <4> QED
        BY <4>1, <4>2
    <3>4. ch \in [Launcher!Names -> [Launcher!Runs -> States]]
      BY <2>2, <3>3 DEF Told
    <3> QED
      BY <3>2, <3>4
  <2> QED
    BY <2>1, <2>2 DEF Parting
<1>4. /\ child' \in [Launcher!Names -> [Launcher!Runs -> States]]
      /\ \A n \in Launcher!Names, r \in Launcher!Runs :
           child'[n][r] = IF contained /\ ch[n][r] \in Launcher!Alive THEN "ended" ELSE ch[n][r]
  <2>1. CASE contained
    <3>1. ASSUME NEW n \in Launcher!Names, NEW r \in Launcher!Runs
          PROVE  (IF ch[n][r] \in Launcher!Alive THEN "ended" ELSE ch[n][r]) \in States
      BY <1>3 DEF States
    <3>2. child' = Swept
      BY <1>1, <2>1
    <3>3. Swept \in [Launcher!Names -> [Launcher!Runs -> States]]
      BY <3>1
    <3> QED
      BY <2>1, <3>2, <3>3
  <2>2. CASE ~contained
    BY <1>1, <1>3, <2>2
  <2> QED
    BY <2>1, <2>2
<1> HIDE DEF Swept
<1>5. LauncherTyped'
  BY <1>1, <1>4 DEF LauncherInv, LauncherTyped, Launcher!Runs
<1>6. ASSUME NEW r \in Launcher!Runs
      PROVE  Ends(r)' /\ PairInv(r)'
  <2>1. Ends(r) /\ PairInv(r) /\ r \in Nat /\ run \in Nat
    BY LauncherNames DEF LauncherInv, LauncherTyped
  <2>2. Ends(r)'
    <3>1. CASE r = run
      <4>1. cause'[r] # "runs"
        BY <1>2, <3>1
      <4>2. ~(r > run')
        <5>1. ~(r > r)
          BY NotAfterItself
        <5>2. run' = r
          BY <1>2, <3>1
        <5> QED
          BY <5>1, <5>2
      <4>3. launcher' = "ended"
        BY <1>2
      <4> QED
        BY <4>1, <4>2, <4>3 DEF Ends
    <3>2. CASE r # run
      BY <1>2, <2>1, <3>2 DEF Ends
    <3> QED
      BY <3>1, <3>2
  <2>3. contained => child'["facilitator"][r] # "booting"
    BY <1>4, LauncherNames
  <2> QED
    BY <1>1, <2>2, <2>3 DEF PairInv
<1>7. ASSUME NEW r \in Launcher!Runs, NEW n \in Launcher!Names
      PROVE  ChildInv(n, r)'
  <2>1. ChildInv(n, r) /\ child[n][r] \in States /\ r \in Nat /\ run \in Nat
    BY LauncherNames DEF LauncherInv, LauncherTyped
  <2>2. /\ ch[n][r] \in {"none", "booting", "up", "ending", "ended"}
        /\ child'[n][r] = IF contained /\ ch[n][r] \in Launcher!Alive THEN "ended" ELSE ch[n][r]
        /\ cause'[r] = IF r = run THEN why ELSE cause[r]
    <3>1. ch[n] \in [Launcher!Runs -> States]
      BY <1>3
    <3>2. ch[n][r] \in States
      BY <3>1
    <3> QED
      BY <1>2, <1>4, <3>2 DEF States
  <2>3. CASE r # run
    <3>1. ch[n][r] = child[n][r] /\ cause'[r] = cause[r] /\ contained' = contained
      BY <1>2, <1>3, <2>2, <2>3
    <3>2. child'[n][r] = child[n][r] \/ (contained /\ child'[n][r] = "ended" /\ child[n][r] \in Launcher!Alive)
      BY <2>2, <3>1
    <3>3. r > run => child'[n][r] = "none"
      BY <2>1, <3>2, LauncherNames DEF ChildInv
    <3>4. contained /\ cause[r] # "runs" => child'[n][r] \in {"none", "ended"}
      BY <2>1, <3>2, LauncherNames DEF ChildInv
    <3>5. cause[r] = "child" => child'[n][r] \notin {"booting", "up"}
      BY <2>1, <3>2, LauncherNames DEF ChildInv
    <3>6. r > run' => child'[n][r] = "none"
      BY <1>2, <3>3
    <3>7. contained' /\ cause'[r] # "runs" => child'[n][r] \in {"none", "ended"}
      <4>1. contained' => contained
        BY <1>0
      <4>2. cause'[r] = "runs" <=> cause[r] = "runs"
        BY <3>1
      <4> QED
        BY <3>4, <4>1, <4>2, Zenon
    <3>8. cause'[r] = "child" => child'[n][r] \notin {"booting", "up"}
      BY <3>1, <3>5
    <3> QED
      BY <3>6, <3>7, <3>8, Zenon DEF ChildInv
  <2>4. CASE r = run
    <3>1. cause'[r] = why /\ contained' = contained
      BY <1>2, <2>4
    <3>2. ~(r > run')
      <4>1. ~(r > r)
        BY NotAfterItself
      <4>2. run' = r
        BY <1>2, <2>4
      <4> QED
        BY <4>1, <4>2
    <3>3. why = "child" => ch[n][r] \notin {"booting", "up"}
      BY <1>3, <2>4, LauncherNames
    <3>4. contained /\ why # "runs" => child'[n][r] \in {"none", "ended"}
      BY <2>2, LauncherNames
    <3>5. why = "child" => child'[n][r] \notin {"booting", "up"}
      BY <2>2, <3>3
    <3>6. contained' /\ cause'[r] # "runs" => child'[n][r] \in {"none", "ended"}
      <4>1. contained' => contained
        BY <1>0
      <4>2. cause'[r] = "runs" <=> why = "runs"
        BY <3>1
      <4> QED
        BY <3>4, <4>1, <4>2, Zenon
    <3>7. cause'[r] = "child" => child'[n][r] \notin {"booting", "up"}
      BY <3>1, <3>5
    <3> QED
      BY <3>2, <3>6, <3>7, Zenon DEF ChildInv
  <2> QED
    BY <2>3, <2>4
<1> QED
  BY <1>5, <1>6, <1>7 DEF LauncherInv, Launcher!Runs

\* A launcher starts a child that was not there.
LEMMA Spawns ==
  ASSUME LauncherInv, NEW n \in Launcher!Names, run' \in Launcher!Runs, run' \in {run, run + 1},
         child' = [child EXCEPT ![n][run'] = "booting"], launcher' \in {"waiting", "up"},
         UNCHANGED <<contained, cause>>, cause[run'] = "runs", run' = run => launcher # "ended",
         run' = run + 1 => launcher = "ended" /\ n = "facilitator",
         n = "api" /\ contained => child["facilitator"][run'] # "booting",
         launcher' = "waiting" => n = "facilitator" /\ child["api"][run'] = "none",
         n = "facilitator" => launcher' = "waiting"
  PROVE  LauncherInv'
<1>1. LauncherTyped'
  BY DEF LauncherInv, LauncherTyped, States
<1>2. \A m \in Launcher!Names, q \in Launcher!Runs : child'[m][q] = IF m = n /\ q = run' THEN "booting" ELSE child[m][q]
  BY DEF LauncherInv, LauncherTyped
<1>3. ASSUME NEW r \in Launcher!Runs
      PROVE  Ends(r)' /\ PairInv(r)'
  <2>1. Ends(r) /\ PairInv(r) /\ r \in Nat /\ run \in Nat
    BY LauncherNames DEF LauncherInv, LauncherTyped
  <2>2. Ends(r)'
    BY <2>1 DEF Ends
  <2>3. PairInv(r)'
    BY <1>2, <2>1, LauncherNames DEF PairInv
  <2> QED
    BY <2>2, <2>3
<1>4. ASSUME NEW r \in Launcher!Runs, NEW m \in Launcher!Names
      PROVE  ChildInv(m, r)'
  <2>1. ChildInv(m, r) /\ r \in Nat /\ run \in Nat
    BY LauncherNames DEF LauncherInv, LauncherTyped
  <2> QED
    BY <1>2, <2>1, LauncherNames DEF ChildInv
<1> QED
  BY <1>1, <1>3, <1>4 DEF LauncherInv, Launcher!Runs

LEMMA LauncherStep ==
  ASSUME Launcher!LauncherAssumption, LauncherInv, Launcher!Next
  PROVE  LauncherInv'
<1>1. CASE Launcher!Restart
  <2>1. /\ launcher = "ended" /\ run < MaxLaunchers /\ run' = run + 1 /\ launcher' = "waiting"
        /\ child' = [child EXCEPT !["facilitator"][run + 1] = "booting"]
        /\ UNCHANGED <<contained, cause>>
    BY <1>1 DEF Launcher!Restart
  <2>2. run + 1 \in Launcher!Runs /\ run \in Launcher!Runs /\ run \in Nat /\ run + 1 # run
    <3>1. run \in 1..MaxLaunchers /\ MaxLaunchers \in Nat
      BY DEF LauncherInv, LauncherTyped, Launcher!Runs, Launcher!LauncherAssumption
    <3> QED
      BY <2>1, <3>1 DEF Launcher!Runs
  <2>3. cause[run + 1] = "runs" /\ child["api"][run + 1] = "none"
    BY <2>2, LauncherNames DEF LauncherInv, Ends, ChildInv
  <2> QED
    BY <2>1, <2>2, <2>3, LauncherNames, Spawns
<1>2. CASE Launcher!Healthy
  <2>1. /\ launcher = "waiting" /\ launcher' = "up" /\ child' = [child EXCEPT !["api"][run] = "booting"]
        /\ UNCHANGED <<contained, run, cause>>
    BY <1>2 DEF Launcher!Healthy, Launcher!Spawned
  <2>2. PICK q \in Launcher!Runs : child["facilitator"][q] \in {"up", "ending"}
    BY <1>2 DEF Launcher!Healthy, Launcher!Listening
  <2>3. run \in Launcher!Runs /\ run \in Nat /\ q \in Nat /\ Ends(q) /\ Ends(run) /\ ChildInv("facilitator", q)
    BY LauncherNames DEF LauncherInv, LauncherTyped
  <2>4. contained => child["facilitator"][run] # "booting"
    BY <2>1, <2>2, <2>3 DEF Ends, ChildInv
  <2>5. cause[run] = "runs"
    BY <2>1, <2>3 DEF Ends
  <2> QED
    <3>1. /\ run' \in Launcher!Runs /\ run' = run /\ child' = [child EXCEPT !["api"][run'] = "booting"]
          /\ launcher' = "up" /\ cause[run'] = "runs" /\ launcher # "ended"
          /\ contained => child["facilitator"][run'] # "booting"
      BY <2>1, <2>3, <2>4, <2>5
    <3>2. run' # run + 1
      BY <2>3, <3>1
    <3> QED
      BY <2>1, <3>1, <3>2, LauncherNames, Spawns
<1>3. CASE Launcher!NotHealthy
  <2>1. CASE checks' < HealthChecks
    <3>1. UNCHANGED <<contained, run, launcher, child, cause>>
      BY <1>3, <2>1 DEF Launcher!NotHealthy
    <3> QED
      BY <3>1 DEF LauncherInv, LauncherTyped, Ends, PairInv, ChildInv, Launcher!Runs
  <2>2. CASE ~(checks' < HealthChecks)
    BY <1>3, <2>2, LauncherEnds DEF Launcher!NotHealthy, Parting
  <2> QED
    BY <2>1, <2>2
<1>4. CASE Launcher!Kill
  BY <1>4, LauncherEnds DEF Launcher!Kill, Parting
<1>5. ASSUME NEW n \in Launcher!Names, Launcher!OnExit(n)
      PROVE  LauncherInv'
  BY <1>5, LauncherEnds DEF Launcher!OnExit, Told, Parting
<1>6. ASSUME NEW n \in Launcher!Names, NEW r \in Launcher!Runs, Launcher!Boot(n, r) \/ Launcher!End(n, r)
      PROVE  LauncherInv'
  BY <1>6, LauncherNames, ChildMoves DEF Launcher!Boot, Launcher!End
<1> QED
  BY <1>1, <1>2, <1>3, <1>4, <1>5, <1>6 DEF Launcher!Next

LEMMA LauncherInvariance ==
  ASSUME Launcher!LauncherAssumption
  PROVE  Launcher!Spec => []LauncherInv
<1>1. Launcher!Init => LauncherInv
  <2> SUFFICES ASSUME Launcher!Init
               PROVE  LauncherInv
    OBVIOUS
  <2>1. /\ contained \in BOOLEAN /\ run = 1 /\ launcher = "waiting"
        /\ child = [Launcher!NoChild EXCEPT !["facilitator"][1] = "booting"]
        /\ cause = [r \in Launcher!Runs |-> "runs"]
    BY DEF Launcher!Init, Launcher!Spawned
  <2>2. 1 \in Launcher!Runs
    BY DEF Launcher!Runs, Launcher!LauncherAssumption
  <2>3. \A n \in Launcher!Names, r \in Launcher!Runs :
          child[n][r] = IF n = "facilitator" /\ r = 1 THEN "booting" ELSE "none"
    BY <2>1, <2>2, LauncherNames DEF Launcher!NoChild
  <2>4. LauncherTyped
    <3>1. Launcher!NoChild \in [Launcher!Names -> [Launcher!Runs -> States]]
      BY DEF Launcher!NoChild, States
    <3> QED
      BY <2>1, <2>2, <3>1, LauncherNames DEF LauncherTyped, States
  <2>5. ASSUME NEW r \in Launcher!Runs
        PROVE  Ends(r) /\ PairInv(r)
    <3>1. r \in Nat /\ r >= 1 /\ cause[r] = "runs"
      BY <2>1 DEF Launcher!Runs
    <3>2. child["api"][r] = "none"
      BY <2>3, LauncherNames
    <3>3. Ends(r)
      <4>1. r > 1 \/ r = 1
        BY <3>1
      <4> QED
        BY <2>1, <3>1, <4>1 DEF Ends
    <3> QED
      BY <3>2, <3>3 DEF PairInv
  <2>6. ASSUME NEW r \in Launcher!Runs, NEW n \in Launcher!Names
        PROVE  ChildInv(n, r)
    <3>1. r > 1 => child[n][r] = "none"
      BY <2>2, <2>3, NotAfterItself
    <3>2. cause[r] = "runs"
      BY <2>1
    <3> QED
      BY <2>1, <3>1, <3>2 DEF ChildInv
  <2> QED
    BY <2>4, <2>5, <2>6 DEF LauncherInv
<1>2. LauncherInv /\ UNCHANGED Launcher!vars => LauncherInv'
  <2> SUFFICES ASSUME LauncherInv, UNCHANGED <<contained, run, launcher, checks, child, cause>>
               PROVE  LauncherInv'
    BY DEF Launcher!vars
  <2>1. contained' = contained /\ run' = run /\ launcher' = launcher /\ child' = child /\ cause' = cause
    OBVIOUS
  <2>2. LauncherTyped'
    BY <2>1 DEF LauncherInv, LauncherTyped, Launcher!Runs
  <2>3. ASSUME NEW r \in Launcher!Runs
        PROVE  Ends(r)' /\ PairInv(r)'
    BY <2>1 DEF LauncherInv, Ends, PairInv
  <2>4. ASSUME NEW r \in Launcher!Runs, NEW n \in Launcher!Names
        PROVE  ChildInv(n, r)'
    BY <2>1 DEF LauncherInv, ChildInv
  <2> QED
    BY <2>2, <2>3, <2>4 DEF LauncherInv, Launcher!Runs
<1>3. LauncherInv /\ [Launcher!Next]_(Launcher!vars) => LauncherInv'
  BY <1>2, LauncherStep
<1> QED
  BY <1>1, <1>3, PTL DEF Launcher!Spec

\* A child outlives its launcher only on its way out, or where the launcher gave up on the
\* facilitator's health or was killed and nothing contained it, however many launchers.
THEOREM NobodyStays ==
  ASSUME Launcher!LauncherAssumption
  PROVE  Launcher!Spec => []NobodyIsLeftBehind
<1>1. LauncherInv => Launcher!NobodyIsLeftBehind
  BY DEF LauncherInv, LauncherTyped, ChildInv, Launcher!NobodyIsLeftBehind
<1> QED
  BY <1>1, LauncherInvariance, PTL DEF NobodyIsLeftBehind

\* Where a launcher's children end with it, the API is started behind a facilitator that came up.
THEOREM TheApiStartsBehindIts ==
  ASSUME Launcher!LauncherAssumption
  PROVE  Launcher!Spec => []ApiBehindFacilitator
<1>1. LauncherInv => Launcher!ApiBehindFacilitator
  BY DEF LauncherInv, PairInv, Launcher!ApiBehindFacilitator
<1> QED
  BY <1>1, LauncherInvariance, PTL DEF ApiBehindFacilitator

\* The launcher's types: it makes no more checks than Checks.
THEOREM LauncherTypeCorrect ==
  ASSUME Launcher!LauncherAssumption
  PROVE  Launcher!Spec => []Launcher!TypeOK
<1> DEFINE Counted == checks \in 0..HealthChecks /\ (launcher # "ended" => checks < HealthChecks)
<1>1. Launcher!Init => Counted
  BY DEF Launcher!Init, Launcher!LauncherAssumption
<1>2. Counted /\ [Launcher!Next]_(Launcher!vars) => Counted'
  <2> SUFFICES ASSUME Counted, [Launcher!Next]_(Launcher!vars)
               PROVE  Counted'
    OBVIOUS
  <2>1. CASE Launcher!Restart
    BY <2>1 DEF Launcher!Restart, Launcher!LauncherAssumption
  <2>2. CASE Launcher!Healthy
    BY <2>2 DEF Launcher!Healthy
  <2>3. CASE Launcher!NotHealthy
    <3>1. launcher = "waiting" /\ checks' = checks + 1
      BY <2>3 DEF Launcher!NotHealthy
    <3>2. checks < HealthChecks /\ checks \in Nat
      BY <3>1
    <3>3. checks' \in 0..HealthChecks
      BY <3>1, <3>2 DEF Launcher!LauncherAssumption
    <3>4. checks' < HealthChecks \/ launcher' = "ended"
      BY <2>3 DEF Launcher!NotHealthy, Launcher!EndedFor
    <3> QED
      BY <3>3, <3>4
  <2>4. CASE Launcher!Kill \/ \E n \in Launcher!Names : Launcher!OnExit(n)
    BY <2>4 DEF Launcher!Kill, Launcher!OnExit, Launcher!EndedFor
  <2>5. CASE \E n \in Launcher!Names, r \in Launcher!Runs : Launcher!Boot(n, r) \/ Launcher!End(n, r)
    BY <2>5 DEF Launcher!Boot, Launcher!End
  <2>6. CASE UNCHANGED Launcher!vars
    BY <2>6 DEF Launcher!vars
  <2> QED
    BY <2>1, <2>2, <2>3, <2>4, <2>5, <2>6 DEF Launcher!Next
<1>3. LauncherInv /\ Counted => Launcher!TypeOK
  BY DEF LauncherInv, LauncherTyped, States, Launcher!TypeOK
<1> HIDE DEF Counted
<1> QED
  BY <1>1, <1>2, <1>3, LauncherInvariance, PTL DEF Launcher!Spec

-----------------------------------------------------------------------------
\* The deployment scripts

Steps == Deployment!Transactions \cup {"id", "decrypt", "check", "write"}

\* In any plan, b comes only after a.
Before(s, a, b) == \A j \in 1..Len(Deployment!Plan(s)) : Deployment!Plan(s)[j] = b =>
                                  \E i \in 1..j - 1 : Deployment!Plan(s)[i] = a

\* The plan of an engine, by its last five steps
EnginePlan(p, a, b, c, d, e) ==
  /\ p \in Seq(Steps) /\ Len(p) = 9
  /\ p[1] = "registry" /\ p[2] = "engine" /\ p[3] = "recorder" /\ p[4] = "policy"
  /\ p[5] = a /\ p[6] = b /\ p[7] = c /\ p[8] = d /\ p[9] = e

LEMMA EnginePlans ==
  ASSUME NEW end \in Seq(Steps), Len(end) = 5
  PROVE  EnginePlan(Deployment!EngineReady \o end, end[1], end[2], end[3], end[4], end[5])
<1> DEFINE plan == Deployment!EngineReady \o end
<1>1. /\ Deployment!EngineReady \in Seq(Steps) /\ Len(Deployment!EngineReady) = 4
      /\ Deployment!EngineReady[1] = "registry" /\ Deployment!EngineReady[2] = "engine"
      /\ Deployment!EngineReady[3] = "recorder" /\ Deployment!EngineReady[4] = "policy"
  BY DEF Deployment!EngineReady, Steps, Deployment!Transactions
<1>2. /\ plan \in Seq(Steps) /\ Len(plan) = 9
      /\ \A i \in 1..9 : plan[i] = IF i <= 4 THEN Deployment!EngineReady[i] ELSE end[i - 4]
  <2>1. /\ plan \in Seq(Steps) /\ Len(plan) = Len(Deployment!EngineReady) + Len(end)
        /\ \A i \in 1..Len(Deployment!EngineReady) + Len(end) :
             plan[i] = IF i <= Len(Deployment!EngineReady) THEN Deployment!EngineReady[i]
                       ELSE end[i - Len(Deployment!EngineReady)]
    BY <1>1, ConcatProperties
  <2> QED
    BY <1>1, <2>1
<1> HIDE DEF plan
<1>3. /\ plan[1] = Deployment!EngineReady[1] /\ plan[2] = Deployment!EngineReady[2]
      /\ plan[3] = Deployment!EngineReady[3] /\ plan[4] = Deployment!EngineReady[4]
  BY <1>2
<1>4. /\ plan[5] = end[1] /\ plan[6] = end[2] /\ plan[7] = end[3] /\ plan[8] = end[4] /\ plan[9] = end[5]
  BY <1>2
<1>5. EnginePlan(plan, end[1], end[2], end[3], end[4], end[5])
  BY <1>1, <1>2, <1>3, <1>4 DEF EnginePlan
<1> QED
  BY <1>5 DEF plan

LEMMA LongPlansAre ==
  /\ EnginePlan(Deployment!Plan("treasury"), "decide", "id", "decrypt", "check", "write")
  /\ EnginePlan(Deployment!Plan("payroll"), "decide", "id", "decrypt", "write", "check")
<1> DEFINE t == <<"decide", "id", "decrypt", "check", "write">>
           p == <<"decide", "id", "decrypt", "write", "check">>
<1>1. /\ t \in Seq(Steps) /\ Len(t) = 5
      /\ t[1] = "decide" /\ t[2] = "id" /\ t[3] = "decrypt" /\ t[4] = "check" /\ t[5] = "write"
  BY DEF Steps, Deployment!Transactions
<1>2. /\ p \in Seq(Steps) /\ Len(p) = 5
      /\ p[1] = "decide" /\ p[2] = "id" /\ p[3] = "decrypt" /\ p[4] = "write" /\ p[5] = "check"
  BY DEF Steps, Deployment!Transactions
<1>3. Deployment!Plan("treasury") = Deployment!EngineReady \o t /\ Deployment!Plan("payroll") = Deployment!EngineReady \o p
  BY DEF Deployment!Plan, Deployment!TreasuryPlan, Deployment!PayrollPlan
<1> HIDE DEF t, p
<1>4. EnginePlan(Deployment!EngineReady \o t, t[1], t[2], t[3], t[4], t[5])
  BY <1>1, EnginePlans
<1>5. EnginePlan(Deployment!EngineReady \o p, p[1], p[2], p[3], p[4], p[5])
  BY <1>2, EnginePlans
<1> QED
  BY <1>1, <1>2, <1>3, <1>4, <1>5 DEF EnginePlan

LEMMA ShortPlansAre ==
  LET m == Deployment!Plan("meter") b == Deployment!Plan("bus")
  IN  /\ m \in Seq(Steps) /\ Len(m) = 3 /\ m[1] = "meter" /\ m[2] = "authorize" /\ m[3] = "write"
      /\ b \in Seq(Steps) /\ Len(b) = 2 /\ b[1] = "bus" /\ b[2] = "write"
<1>1. Deployment!Plan("meter") = <<"meter", "authorize", "write">>
  BY DEF Deployment!Plan, Deployment!MeterPlan
<1>2. Deployment!Plan("bus") = <<"bus", "write">>
  BY DEF Deployment!Plan, Deployment!BusPlan
<1>3. "meter" \in Steps /\ "authorize" \in Steps /\ "bus" \in Steps /\ "write" \in Steps
  BY DEF Steps, Deployment!Transactions
<1>4. Deployment!Plan("meter") \in Seq(Steps) /\ Deployment!Plan("bus") \in Seq(Steps)
  <2>1. <<"meter", "authorize", "write">> \in Seq(Steps)
    BY <1>3
  <2>2. <<"bus", "write">> \in Seq(Steps)
    BY <1>3
  <2> QED
    BY <1>1, <1>2, <2>1, <2>2
<1>5. /\ Len(Deployment!Plan("meter")) = 3 /\ Deployment!Plan("meter")[1] = "meter"
      /\ Deployment!Plan("meter")[2] = "authorize" /\ Deployment!Plan("meter")[3] = "write"
  BY <1>1
<1>6. Len(Deployment!Plan("bus")) = 2 /\ Deployment!Plan("bus")[1] = "bus" /\ Deployment!Plan("bus")[2] = "write"
  BY <1>2
<1> QED
  BY <1>4, <1>5, <1>6

LEMMA AllScripts == \A s \in Deployment!Scripts : s \in {"treasury", "payroll", "meter", "bus"}
BY DEF Deployment!Scripts, Deployment!Engines

LEMMA Plans == \A s \in Deployment!Scripts : Deployment!Plan(s) \in Seq(Steps)
BY LongPlansAre, ShortPlansAre, AllScripts DEF EnginePlan

LEMMA WrittenAfter ==
  /\ \A s \in Deployment!Engines, a \in {"id", "decrypt"} : Before(s, a, "write")
  /\ Before("treasury", "check", "write")
  /\ Before("meter", "meter", "write") /\ Before("meter", "authorize", "write")
  /\ Before("bus", "bus", "write")
<1>1. Before("meter", "meter", "write") /\ Before("meter", "authorize", "write") /\ Before("bus", "bus", "write")
  BY ShortPlansAre DEF Before
<1>2. ASSUME NEW s \in Deployment!Engines
      PROVE  /\ Len(Deployment!Plan(s)) = 9
             /\ Deployment!Plan(s)[6] = "id" /\ Deployment!Plan(s)[7] = "decrypt"
             /\ \A j \in 1..9 : Deployment!Plan(s)[j] = "write" => 7 < j
  <2>1. CASE s = "treasury"
    BY <2>1, LongPlansAre DEF EnginePlan
  <2>2. CASE s = "payroll"
    BY <2>2, LongPlansAre DEF EnginePlan
  <2> QED
    BY <2>1, <2>2 DEF Deployment!Engines
<1>3. ASSUME NEW s \in Deployment!Engines, NEW a \in {"id", "decrypt"}
      PROVE  Before(s, a, "write")
  <2>1. PICK i \in 6..7 : Deployment!Plan(s)[i] = a
    BY <1>2
  <2>2. ASSUME NEW j \in 1..Len(Deployment!Plan(s)), Deployment!Plan(s)[j] = "write"
        PROVE  i \in 1..j - 1
    <3>1. j \in 1..9
      BY <1>2
    <3>2. 7 < j
      BY <1>2, <2>2, <3>1
    <3> QED
      BY <3>1, <3>2
  <2> QED
    BY <2>1, <2>2 DEF Before
<1>4. Before("treasury", "check", "write")
  <2>1. ASSUME NEW j \in 1..Len(Deployment!Plan("treasury")), Deployment!Plan("treasury")[j] = "write"
        PROVE  8 \in 1..j - 1 /\ Deployment!Plan("treasury")[8] = "check"
    BY <2>1, LongPlansAre DEF EnginePlan
  <2> QED
    BY <2>1 DEF Before
<1> QED
  BY <1>1, <1>3, <1>4

\* What a step says is no longer so after another, if that is taken again.
Resets(now, step) ==
  \/ now = "decide"  /\ step = "id"
  \/ now = "id"      /\ step = "decrypt"
  \/ now = "decrypt" /\ step = "check"

\* A decision is made before it is read, and read before it is decrypted and checked.
LEMMA ReadInOrder ==
  ASSUME NEW s \in Deployment!Scripts
  PROVE  /\ Before(s, "id", "decrypt") /\ Before(s, "decrypt", "check")
         /\ \A i, j \in 1..Len(Deployment!Plan(s)) :
              Resets(Deployment!Plan(s)[j], Deployment!Plan(s)[i]) => j < i
<1>1. CASE s \in {"treasury", "payroll"}
  <2>1. PICK last \in 8..9 : /\ Len(Deployment!Plan(s)) = 9 /\ Deployment!Plan(s)[5] = "decide" /\ Deployment!Plan(s)[6] = "id"
                             /\ Deployment!Plan(s)[7] = "decrypt"
                             /\ \A i \in 1..9 : Deployment!Plan(s)[i] = "check" => i = last
                             /\ \A i \in 1..9 : Deployment!Plan(s)[i] = "decide" => i = 5
                             /\ \A i \in 1..9 : Deployment!Plan(s)[i] = "id" => i = 6
                             /\ \A i \in 1..9 : Deployment!Plan(s)[i] = "decrypt" => i = 7
    <3>1. CASE s = "treasury"
      <4>1. 8 \in 8..9
        OBVIOUS
      <4> QED
        BY <3>1, <4>1, LongPlansAre DEF EnginePlan
    <3>2. CASE s = "payroll"
      <4>1. 9 \in 8..9
        OBVIOUS
      <4> QED
        BY <3>2, <4>1, LongPlansAre DEF EnginePlan
    <3> QED
      BY <1>1, <3>1, <3>2
  <2>2. Before(s, "id", "decrypt")
    <3>1. ASSUME NEW j \in 1..Len(Deployment!Plan(s)), Deployment!Plan(s)[j] = "decrypt"
          PROVE  6 \in 1..j - 1 /\ Deployment!Plan(s)[6] = "id"
      <4>1. j \in 1..9
        BY <2>1
      <4>2. j = 7
        BY <2>1, <3>1, <4>1
      <4>3. 6 \in 1..j - 1
        BY <4>2
      <4> QED
        BY <2>1, <4>3
    <3> QED
      BY <3>1 DEF Before
  <2>3. Before(s, "decrypt", "check")
    BY <2>1 DEF Before
  <2>4. ASSUME NEW i \in 1..Len(Deployment!Plan(s)), NEW j \in 1..Len(Deployment!Plan(s)),
               Resets(Deployment!Plan(s)[j], Deployment!Plan(s)[i])
        PROVE  j < i
    <3>1. i \in 1..9 /\ j \in 1..9
      BY <2>1
    <3>2. \/ j = 5 /\ i = 6
          \/ j = 6 /\ i = 7
          \/ j = 7 /\ i = last
      BY <2>1, <2>4, <3>1 DEF Resets
    <3> QED
      BY <3>2
  <2> QED
    BY <2>2, <2>3, <2>4
<1>2. CASE s \in {"meter", "bus"}
  BY <1>2, ShortPlansAre DEF Before, Resets
<1> QED
  BY <1>1, <1>2, AllScripts

\* The decisions that a script sent itself are none after the n-th.
Decision   == [by : {"script", "other"}, right : BOOLEAN]
OwnTo(r, n) == \A i \in 1..Len(decisions[r]) : decisions[r][i].by = "script" => i <= n

\* What a step that was taken leaves behind, and what a script's progress says: what is left of it
\* is its plan after k steps, the first k have been taken, and an id has been read by one of them.
Taken(r, step) ==
  /\ step \in Deployment!Transactions => step \in done[r] \/ step \in lost[r]
  /\ step = "id"      => readId[r] \in 0..Len(decisions[r]) /\ OwnTo(r, readId[r])
  /\ step = "decrypt" => /\ readId[r] \in 1..Len(decisions[r])
                         /\ outcome[r] = decisions[r][readId[r]].right
  /\ step = "check"   => outcome[r] = TRUE

Remains(r, s, k) ==
  /\ Len(left[r]) = Len(Deployment!Plan(s)) - k
  /\ \A i \in 1..Len(left[r]) : left[r][i] = Deployment!Plan(s)[k + i]

TakenTo(r, s, k) == \A i \in 1..k : Taken(r, Deployment!Plan(s)[i])
ReadBy(r, s, k)  == readId[r] # None => \E i \in 1..k : Deployment!Plan(s)[i] = "id"
AfterSteps(r, s, k) == Remains(r, s, k) /\ TakenTo(r, s, k) /\ ReadBy(r, s, k)

Progress(r) ==
  left[r] = << >> \/ \E s \in Deployment!Scripts :
    script[r] = s /\ \E k \in 0..Len(Deployment!Plan(s)) : AfterSteps(r, s, k)

\* Nothing is read before a script has started, and nothing decided before its engine is ready.
ScriptInv(r) ==
  /\ script[r] = None => readId[r] = None
  /\ Len(decisions[r]) > 0 => Deployment!Ready(r)

ScriptsTyped ==
  /\ left \in [Deployment!Runs -> Seq(Steps)] /\ decisions \in [Deployment!Runs -> Seq(Decision)]
  /\ DOMAIN script = Deployment!Runs /\ DOMAIN done = Deployment!Runs /\ DOMAIN lost = Deployment!Runs
  /\ DOMAIN readId = Deployment!Runs /\ DOMAIN outcome = Deployment!Runs
  /\ DOMAIN file = Deployment!Scripts

\* What is written is of a run that read its id, and ready.
ReadyFor(s, r, n) ==
  /\ s \in Deployment!Engines => /\ readId[r] # None /\ Deployment!Ready(r)
                                 /\ n \in 1..Len(decisions[r]) /\ OwnTo(r, n)
  /\ s = "treasury" => decisions[r][n].right
  /\ s = "meter" => {"meter", "authorize"} \subseteq done[r] \/ lost[r] # {}
  /\ s = "bus" => "bus" \in done[r] \/ lost[r] # {}

FileInv(s) ==
  file[s] # None => file[s].run \in Deployment!Runs /\ ReadyFor(s, file[s].run, file[s].id)

DeploymentInv ==
  /\ ScriptsTyped
  /\ \A r \in Deployment!Runs : Progress(r) /\ ScriptInv(r)
  /\ \A s \in Deployment!Scripts : FileInv(s)

\* A script stays where it is, or takes its next step, or stops.
Keeps(r) == \A step \in Steps : Taken(r, step) => Taken(r, step)'

LEMMA ProgressStays ==
  ASSUME NEW r \in Deployment!Runs, Progress(r), Keeps(r), left'[r] = left[r], script'[r] = script[r],
         readId'[r] = readId[r]
  PROVE  Progress(r)'
<1>1. CASE left[r] = << >>
  BY <1>1 DEF Progress
<1>2. CASE left[r] # << >>
  <2>a. PICK s \in Deployment!Scripts :
          script[r] = s /\ \E k \in 0..Len(Deployment!Plan(s)) : AfterSteps(r, s, k)
    BY <1>2 DEF Progress
  <2>1. PICK k \in 0..Len(Deployment!Plan(s)) :
          script[r] = s /\ Remains(r, s, k) /\ TakenTo(r, s, k) /\ ReadBy(r, s, k)
    BY <2>a DEF AfterSteps
  <2>2. Remains(r, s, k)' /\ ReadBy(r, s, k)'
    BY <2>1 DEF Remains, ReadBy
  <2>3. TakenTo(r, s, k)'
    <3> SUFFICES ASSUME NEW i \in 1..k
                 PROVE  Taken(r, Deployment!Plan(s)[i])'
      BY DEF TakenTo
    <3>1. i \in 1..Len(Deployment!Plan(s)) /\ Deployment!Plan(s) \in Seq(Steps)
      BY Plans
    <3>2. PICK step \in Steps : step = Deployment!Plan(s)[i]
      BY <3>1
    <3>3. Taken(r, step)'
      BY <2>1, <3>2 DEF TakenTo, Keeps
    <3> QED
      BY <3>2, <3>3
  <2> QED
    BY <2>1, <2>2, <2>3 DEF Progress, AfterSteps
<1> QED
  BY <1>1, <1>2

\* Where a script is in its plan when its next step is now
LEMMA Underway ==
  ASSUME ScriptsTyped, NEW r \in Deployment!Runs, Progress(r), NEW now, Deployment!At(r, now)
  PROVE  \E s \in Deployment!Scripts : script[r] = s /\ \E k \in 0..Len(Deployment!Plan(s)) - 1 :
           AfterSteps(r, s, k) /\ Deployment!Plan(s)[k + 1] = now
<1>1. left[r] # << >> /\ Head(left[r]) = now /\ left[r] \in Seq(Steps)
  BY DEF Deployment!At, ScriptsTyped
<1>2. PICK s \in Deployment!Scripts :
        script[r] = s /\ \E k \in 0..Len(Deployment!Plan(s)) : AfterSteps(r, s, k)
  BY <1>1 DEF Progress
<1>3. PICK k \in 0..Len(Deployment!Plan(s)) : AfterSteps(r, s, k) /\ Remains(r, s, k)
  BY <1>2 DEF AfterSteps
<1>4. Len(left[r]) > 0 /\ left[r][1] = now
  BY <1>1
<1>5. PICK n \in Nat : n = Len(Deployment!Plan(s))
  BY Plans
<1>6. k \in 0..Len(Deployment!Plan(s)) - 1
  BY <1>3, <1>4, <1>5 DEF Remains
<1>7. 1 \in 1..Len(left[r])
  BY <1>1, <1>4
<1>8. Deployment!Plan(s)[k + 1] = now
  BY <1>3, <1>4, <1>7 DEF Remains
<1> QED
  BY <1>2, <1>3, <1>6, <1>8

LEMMA TakenBefore ==
  ASSUME ScriptsTyped, NEW r \in Deployment!Runs, Progress(r), NEW now, Deployment!At(r, now), NEW a,
         \A s \in Deployment!Scripts : script[r] = s => Before(s, a, now)
  PROVE  Taken(r, a)
<1>1. PICK s \in Deployment!Scripts : script[r] = s /\ \E k \in 0..Len(Deployment!Plan(s)) - 1 :
           AfterSteps(r, s, k) /\ Deployment!Plan(s)[k + 1] = now
  BY Underway
<1>2. PICK k \in 0..Len(Deployment!Plan(s)) - 1 : TakenTo(r, s, k) /\ Deployment!Plan(s)[k + 1] = now
  BY <1>1 DEF AfterSteps
<1>3. PICK n \in Nat : n = Len(Deployment!Plan(s))
  BY Plans
<1>4. k + 1 \in 1..Len(Deployment!Plan(s)) /\ k + 1 - 1 = k
  BY <1>2, <1>3
<1>5. PICK i \in 1..k + 1 - 1 : Deployment!Plan(s)[i] = a
  BY <1>1, <1>2, <1>4 DEF Before
<1> QED
  BY <1>2, <1>4, <1>5 DEF TakenTo

\* While a decision of its own is still to come, a script has read no id.
LEMMA NothingReadBefore ==
  ASSUME ScriptsTyped, NEW r \in Deployment!Runs, Progress(r), Deployment!At(r, "decide")
  PROVE  readId[r] = None
<1>1. PICK s \in Deployment!Scripts : script[r] = s /\ \E k \in 0..Len(Deployment!Plan(s)) - 1 :
           AfterSteps(r, s, k) /\ Deployment!Plan(s)[k + 1] = "decide"
  BY Underway
<1>2. PICK k \in 0..Len(Deployment!Plan(s)) - 1 : ReadBy(r, s, k) /\ Deployment!Plan(s)[k + 1] = "decide"
  BY <1>1 DEF AfterSteps
<1>3. PICK n \in Nat : n = Len(Deployment!Plan(s))
  BY Plans
<1>4. ASSUME NEW i \in 1..k, Deployment!Plan(s)[i] = "id"
      PROVE  FALSE
  <2>1. i \in 1..Len(Deployment!Plan(s)) /\ k + 1 \in 1..Len(Deployment!Plan(s)) /\ ~(k + 1 < i)
    BY <1>2, <1>3
  <2>2. Resets(Deployment!Plan(s)[k + 1], Deployment!Plan(s)[i])
    BY <1>2, <1>4 DEF Resets
  <2> QED
    BY <2>1, <2>2, ReadInOrder
<1> QED
  BY <1>2, <1>4 DEF ReadBy

LEMMA StepTaken ==
  ASSUME ScriptsTyped, NEW r \in Deployment!Runs, Progress(r), NEW now \in Steps, Deployment!At(r, now),
         left'[r] = Tail(left[r]), script'[r] = script[r], Taken(r, now)',
         readId'[r] = readId[r] \/ now = "id",
         \A step \in Steps : Taken(r, step) /\ ~Resets(now, step) => Taken(r, step)'
  PROVE  Progress(r)'
<1>1. PICK s \in Deployment!Scripts : script[r] = s /\ \E k \in 0..Len(Deployment!Plan(s)) - 1 :
           AfterSteps(r, s, k) /\ Deployment!Plan(s)[k + 1] = now
  BY Underway
<1>2. PICK k \in 0..Len(Deployment!Plan(s)) - 1 :
        /\ Remains(r, s, k) /\ TakenTo(r, s, k) /\ ReadBy(r, s, k) /\ Deployment!Plan(s)[k + 1] = now
  BY <1>1 DEF AfterSteps
<1>3. PICK n \in Nat : n = Len(Deployment!Plan(s))
  BY Plans
<1>4. k \in Nat /\ k + 1 \in 1..n /\ k + 1 \in 0..n
  BY <1>2, <1>3
<1>5. Remains(r, s, k + 1)'
  <2>1. left[r] \in Seq(Steps) /\ left[r] # << >>
    BY DEF ScriptsTyped, Deployment!At
  <2>2. /\ Len(left'[r]) = Len(left[r]) - 1
        /\ \A i \in 1..Len(left'[r]) : left'[r][i] = left[r][i + 1] /\ i + 1 \in 1..Len(left[r])
    BY <2>1
  <2>3. PICK l \in Nat : l = Len(left[r])
    BY <2>1
  <2>4. l = n - k /\ Len(left'[r]) = n - (k + 1)
    BY <1>2, <1>3, <1>4, <2>2, <2>3 DEF Remains
  <2>5. ASSUME NEW i \in 1..Len(left'[r])
        PROVE  left'[r][i] = Deployment!Plan(s)[k + 1 + i]
    <3>1. left'[r][i] = Deployment!Plan(s)[k + (i + 1)]
      BY <1>2, <2>2 DEF Remains
    <3>2. k + (i + 1) = k + 1 + i
      BY <1>4, <2>4
    <3> QED
      BY <3>1, <3>2
  <2> QED
    BY <1>3, <2>4, <2>5 DEF Remains
<1>6. TakenTo(r, s, k + 1)'
  <2> SUFFICES ASSUME NEW i \in 1..k + 1
               PROVE  Taken(r, Deployment!Plan(s)[i])'
    BY DEF TakenTo
  <2>1. i \in 1..Len(Deployment!Plan(s)) /\ Deployment!Plan(s) \in Seq(Steps)
    BY <1>3, <1>4, Plans
  <2>2. PICK step \in Steps : step = Deployment!Plan(s)[i]
    BY <2>1
  <2>3. CASE i = k + 1
    BY <1>2, <2>3
  <2>4. CASE i # k + 1
    <3>1. i \in 1..k
      BY <1>4, <2>4
    <3>2. Taken(r, step)
      BY <1>2, <2>2, <3>1 DEF TakenTo
    <3>3. ~Resets(now, step)
      <4> SUFFICES ASSUME Resets(now, step)
                   PROVE  FALSE
        OBVIOUS
      <4>1. k + 1 \in 1..Len(Deployment!Plan(s))
        BY <1>3, <1>4
      <4>2. k + 1 < i
        BY <1>2, <2>1, <2>2, <4>1, ReadInOrder
      <4> QED
        BY <1>4, <3>1, <4>2
    <3>4. Taken(r, step)'
      BY <3>2, <3>3
    <3> QED
      BY <2>2, <3>4
  <2> QED
    BY <2>3, <2>4
<1>7. ReadBy(r, s, k + 1)'
  <2>1. k + 1 \in 1..k + 1 /\ \A i \in 1..k : i \in 1..k + 1
    BY <1>4
  <2> QED
    BY <1>2, <2>1 DEF ReadBy
<1>8. k + 1 \in 0..Len(Deployment!Plan(s))
  BY <1>3, <1>4
<1> QED
  BY <1>1, <1>5, <1>6, <1>7, <1>8 DEF Progress, AfterSteps

\* Transactions stay mined, and decisions on record.
Grows ==
  \A r \in Deployment!Runs :
    /\ done[r] \subseteq done'[r] /\ lost[r] \subseteq lost'[r]
    /\ Len(decisions[r]) <= Len(decisions'[r])
    /\ \A i \in 1..Len(decisions[r]) : decisions'[r][i] = decisions[r][i]

\* No decision of its own is added.
NoOwn(r) ==
  \A i \in 1..Len(decisions'[r]) : decisions'[r][i].by = "script" => i \in 1..Len(decisions[r])

LEMMA Lengths ==
  ASSUME ScriptsTyped, ScriptsTyped', NEW r \in Deployment!Runs
  PROVE  /\ decisions[r] \in Seq(Decision) /\ decisions'[r] \in Seq(Decision)
         /\ Len(decisions[r]) \in Nat /\ Len(decisions'[r]) \in Nat
BY DEF ScriptsTyped, Deployment!Runs

LEMMA OwnToStays ==
  ASSUME ScriptsTyped, ScriptsTyped', Grows, NEW r \in Deployment!Runs, NoOwn(r), NEW n, OwnTo(r, n)
  PROVE  OwnTo(r, n)'
BY Lengths DEF OwnTo, NoOwn, Grows

LEMMA FilesStayReady ==
  ASSUME ScriptsTyped, ScriptsTyped', Grows, NEW s \in Deployment!Scripts, FileInv(s), file'[s] = file[s],
         \A r \in Deployment!Runs : readId[r] # None => readId'[r] # None /\ NoOwn(r)
  PROVE  FileInv(s)'
<1> SUFFICES ASSUME file[s] # None
             PROVE  FileInv(s)'
  BY DEF FileInv
<1>1. file[s].run \in Deployment!Runs
  BY DEF FileInv
<1>2. PICK r \in Deployment!Runs : file[s].run = r /\ file'[s].run = r
  BY <1>1
<1>3. PICK n : file[s].id = n /\ file'[s].id = n
  OBVIOUS
<1>4. ReadyFor(s, r, n)
  BY <1>2, <1>3 DEF FileInv
<1>5. /\ done[r] \subseteq done'[r] /\ lost[r] \subseteq lost'[r]
      /\ Len(decisions[r]) <= Len(decisions'[r]) /\ Len(decisions[r]) \in Nat /\ Len(decisions'[r]) \in Nat
      /\ \A i \in 1..Len(decisions[r]) : decisions'[r][i] = decisions[r][i]
  BY Lengths DEF Grows
<1>6. ASSUME s \in Deployment!Engines
      PROVE  /\ readId'[r] # None /\ Deployment!Ready(r)' /\ n \in 1..Len(decisions'[r]) /\ OwnTo(r, n)'
             /\ decisions'[r][n] = decisions[r][n]
  <2>1. readId[r] # None /\ Deployment!Ready(r) /\ n \in 1..Len(decisions[r]) /\ OwnTo(r, n)
    BY <1>4, <1>6 DEF ReadyFor
  <2>2. readId'[r] # None /\ NoOwn(r)
    BY <2>1
  <2>3. OwnTo(r, n)'
    BY <2>1, <2>2, OwnToStays
  <2>4. Deployment!Ready(r)'
    BY <1>5, <2>1 DEF Deployment!Ready
  <2>5. n \in 1..Len(decisions'[r])
    BY <1>5, <2>1
  <2> QED
    BY <1>5, <2>1, <2>2, <2>3, <2>4, <2>5
<1>7. s = "treasury" => s \in Deployment!Engines
  BY DEF Deployment!Engines
<1>8. ReadyFor(s, r, n)'
  <2>1. s = "treasury" => decisions'[r][n].right
    BY <1>4, <1>6, <1>7 DEF ReadyFor
  <2>2. /\ s = "meter" => {"meter", "authorize"} \subseteq done'[r] \/ lost'[r] # {}
        /\ s = "bus" => "bus" \in done'[r] \/ lost'[r] # {}
    BY <1>4, <1>5 DEF ReadyFor
  <2>3. s \in Deployment!Engines' => s \in Deployment!Engines
    BY DEF Deployment!Engines
  <2> QED
    BY <1>6, <2>1, <2>2, <2>3 DEF ReadyFor
<1> QED
  BY <1>2, <1>3, <1>8 DEF FileInv, Deployment!Runs

\* What a run has taken stays, and what it read.
LEMMA TakenStays ==
  ASSUME ScriptsTyped, ScriptsTyped', Grows, NEW r \in Deployment!Runs,
         readId'[r] = readId[r], outcome'[r] = outcome[r]
  PROVE  /\ NoOwn(r) => Keeps(r)
         /\ \A step \in Steps : Taken(r, step) /\ step # "id" => Taken(r, step)'
<1>1. PICK n, m \in Nat : n = Len(decisions[r]) /\ m = Len(decisions'[r])
  BY Lengths
<1>2. /\ n <= m /\ done[r] \subseteq done'[r] /\ lost[r] \subseteq lost'[r]
      /\ \A i \in 1..Len(decisions[r]) : decisions'[r][i] = decisions[r][i]
  BY <1>1 DEF Grows
<1>3. ASSUME NEW step \in Steps, Taken(r, step), step # "id"
      PROVE  Taken(r, step)'
  <2>1. readId[r] \in 1..n => readId'[r] \in 1..m
    BY <1>1, <1>2
  <2>2. step = "decrypt" => /\ readId'[r] \in 1..Len(decisions'[r])
                            /\ outcome'[r] = decisions'[r][readId'[r]].right
    BY <1>1, <1>2, <1>3, <2>1 DEF Taken
  <2>3. step \in Deployment!Transactions => step \in done'[r] \/ step \in lost'[r]
    BY <1>2, <1>3 DEF Taken
  <2>4. step = "check" => outcome'[r] = TRUE
    BY <1>3 DEF Taken
  <2> QED
    BY <1>3, <2>2, <2>3, <2>4 DEF Taken, Deployment!Transactions
<1>4. ASSUME NoOwn(r), Taken(r, "id")
      PROVE  Taken(r, "id")'
  <2>1. readId[r] \in 0..n /\ OwnTo(r, readId[r])
    BY <1>1, <1>4 DEF Taken
  <2>2. readId'[r] \in 0..Len(decisions'[r])
    BY <1>1, <1>2, <2>1
  <2>3. PICK j : j = readId[r]
    OBVIOUS
  <2>4. OwnTo(r, j)'
    BY <1>4, <2>1, <2>3, OwnToStays
  <2>5. OwnTo(r, readId[r])'
    BY <2>3, <2>4 DEF OwnTo
  <2>6. "id" \notin Deployment!Transactions
    BY DEF Deployment!Transactions
  <2> QED
    BY <2>2, <2>5, <2>6 DEF Taken, Deployment!Transactions
<1> QED
  BY <1>3, <1>4 DEF Keeps

\* A step of one run leaves the others where they are, and takes it one further.
LEMMA StepsMove ==
  ASSUME DeploymentInv, ScriptsTyped', Grows, script' = script,
         NEW r \in Deployment!Runs, NEW now \in Steps, Deployment!At(r, now), left' = [left EXCEPT ![r] = Tail(@)],
         Taken(r, now)', readId'[r] = readId[r] \/ now = "id",
         \A q \in Deployment!Runs \ {r} : readId'[q] = readId[q] /\ outcome'[q] = outcome[q] /\ NoOwn(q),
         \A step \in Steps : Taken(r, step) /\ ~Resets(now, step) => Taken(r, step)'
  PROVE  \A q \in Deployment!Runs : Progress(q)'
<1> SUFFICES ASSUME NEW q \in Deployment!Runs
             PROVE  Progress(q)'
  OBVIOUS
<1>1. ScriptsTyped /\ Progress(q) /\ Progress(r)
  BY DEF DeploymentInv
<1>2. CASE q = r
  <2>1. left'[r] = Tail(left[r]) /\ script'[r] = script[r]
    BY <1>1 DEF ScriptsTyped
  <2>2. Progress(r)'
    BY <1>1, <2>1, StepTaken
  <2> QED
    BY <1>2, <2>2
<1>3. CASE q # r
  <2>1. left'[q] = left[q] /\ script'[q] = script[q] /\ readId'[q] = readId[q] /\ outcome'[q] = outcome[q] /\ NoOwn(q)
    BY <1>1, <1>3 DEF ScriptsTyped
  <2>2. Keeps(q)
    BY <1>1, <2>1, TakenStays
  <2> QED
    BY <1>1, <2>1, <2>2, ProgressStays
<1> QED
  BY <1>2, <1>3

\* A run's facts stay if it does not read, its engine does not decide, and it has started or not.
LEMMA RunsStay ==
  ASSUME ScriptsTyped, ScriptsTyped', Grows, script' = script, readId' = readId, decisions' = decisions,
         NEW r \in Deployment!Runs, ScriptInv(r)
  PROVE  ScriptInv(r)'
<1>1. done[r] \subseteq done'[r]
  BY DEF Grows
<1> QED
  BY <1>1 DEF ScriptInv, Deployment!Ready

LEMMA NothingOwned ==
  ASSUME decisions' = decisions, NEW r \in Deployment!Runs
  PROVE  NoOwn(r)
BY DEF NoOwn

LEMMA LeftTyped ==
  ASSUME ScriptsTyped, NEW r \in Deployment!Runs, left[r] # << >>, left' = [left EXCEPT ![r] = Tail(@)]
  PROVE  left' \in [Deployment!Runs -> Seq(Steps)]
<1>1. Tail(left[r]) \in Seq(Steps)
  BY DEF ScriptsTyped
<1> QED
  BY <1>1 DEF ScriptsTyped

LEMMA ItTakesEffectOrIsLost ==
  ASSUME ScriptsTyped, NEW r \in Deployment!Runs, NEW t \in Deployment!Transactions,
         Deployment!TakesEffect(r, t) \/ Deployment!IsLost(r, t)
  PROVE  /\ DOMAIN done' = Deployment!Runs /\ DOMAIN lost' = Deployment!Runs
         /\ \A q \in Deployment!Runs : done[q] \subseteq done'[q] /\ lost[q] \subseteq lost'[q]
         /\ t \in done'[r] \/ t \in lost'[r]
BY DEF ScriptsTyped, Deployment!TakesEffect, Deployment!IsLost

\* A transaction, successful or not
LEMMA Transacts ==
  ASSUME DeploymentInv, NEW r \in Deployment!Runs, Deployment!Transact(r)
  PROVE  DeploymentInv'
<1>1. PICK t \in Deployment!Transactions \ {"decide"} :
        Deployment!At(r, t) /\ (Deployment!TakesEffect(r, t) \/ Deployment!IsLost(r, t))
  BY DEF Deployment!Transact
<1>2. left' = [left EXCEPT ![r] = Tail(@)] /\ UNCHANGED <<script, decisions, readId, outcome, file>>
  BY DEF Deployment!Transact, Deployment!Proceed
<1>3. ScriptsTyped /\ left[r] # << >> /\ t \in Steps
  BY <1>1 DEF DeploymentInv, Deployment!At, Steps
<1>4. /\ DOMAIN done' = Deployment!Runs /\ DOMAIN lost' = Deployment!Runs
      /\ \A q \in Deployment!Runs : done[q] \subseteq done'[q] /\ lost[q] \subseteq lost'[q]
      /\ t \in done'[r] \/ t \in lost'[r]
  BY <1>1, <1>3, ItTakesEffectOrIsLost
<1>5. ScriptsTyped'
  <2>1. left' \in [Deployment!Runs -> Seq(Steps)]
    BY <1>2, <1>3, LeftTyped
  <2> QED
    BY <1>2, <1>3, <1>4, <2>1 DEF ScriptsTyped, Deployment!Runs
<1>6. Grows /\ \A q \in Deployment!Runs : NoOwn(q)
  BY <1>2, <1>4, <1>5, Lengths, <1>3, NothingOwned DEF Grows
<1>7. Taken(r, t)'
  <2>1. t \notin {"id", "decrypt", "check"}
    BY <1>1 DEF Deployment!Transactions
  <2> QED
    BY <1>4, <2>1 DEF Taken
<1>8. Keeps(r)
  BY <1>2, <1>3, <1>5, <1>6, TakenStays
<1>9. \A q \in Deployment!Runs : Progress(q)'
  BY <1>1, <1>2, <1>3, <1>5, <1>6, <1>7, <1>8, StepsMove DEF Keeps
<1>10. \A q \in Deployment!Runs : ScriptInv(q)'
  BY <1>2, <1>3, <1>5, <1>6, RunsStay DEF DeploymentInv
<1>11. \A s \in Deployment!Scripts : FileInv(s)'
  BY <1>2, <1>3, <1>5, <1>6, FilesStayReady DEF DeploymentInv
<1> QED
  BY <1>5, <1>9, <1>10, <1>11 DEF DeploymentInv, Deployment!Runs, Deployment!Scripts, Deployment!Engines

\* A decision goes on record after those that are there.
LEMMA DecisionsGrow ==
  ASSUME ScriptsTyped, NEW r \in Deployment!Runs, NEW by \in {"script", "other"}, NEW d \in BOOLEAN,
         Deployment!Decided(r, by, d)
  PROVE  /\ decisions' \in [Deployment!Runs -> Seq(Decision)]
         /\ \A q \in Deployment!Runs :
              /\ Len(decisions[q]) <= Len(decisions'[q])
              /\ \A i \in 1..Len(decisions[q]) : decisions'[q][i] = decisions[q][i]
         /\ \A q \in Deployment!Runs : q # r => decisions'[q] = decisions[q]
         /\ \A q \in Deployment!Runs : q # r \/ by = "other" => NoOwn(q)
         /\ Deployment!Ready(r)
<1> DEFINE new == [by |-> by, right |-> d]
           longer == Append(decisions[r], new)
<1>1. decisions' = [decisions EXCEPT ![r] = longer] /\ decisions[r] \in Seq(Decision) /\ Deployment!Ready(r)
  BY DEF Deployment!Decided, ScriptsTyped
<1>2. new \in Decision /\ new.by = by
  BY DEF Decision
<1> HIDE DEF new
<1>3. PICK l \in Nat : /\ l = Len(decisions[r]) /\ longer \in Seq(Decision) /\ Len(longer) = l + 1
                       /\ longer[l + 1] = new /\ \A i \in 1..l : longer[i] = decisions[r][i]
  BY <1>1, <1>2
<1> HIDE DEF longer
<1>4. /\ decisions' \in [Deployment!Runs -> Seq(Decision)]
      /\ \A q \in Deployment!Runs : decisions'[q] = IF q = r THEN longer ELSE decisions[q]
  BY <1>1, <1>3 DEF ScriptsTyped
<1>5. \A q \in Deployment!Runs : Len(decisions[q]) \in Nat
  BY DEF ScriptsTyped
<1>6. ASSUME NEW q \in Deployment!Runs
      PROVE  /\ Len(decisions[q]) <= Len(decisions'[q])
             /\ \A i \in 1..Len(decisions[q]) : decisions'[q][i] = decisions[q][i]
  BY <1>3, <1>4, <1>5
<1>7. ASSUME NEW q \in Deployment!Runs, q # r \/ by = "other"
      PROVE  NoOwn(q)
  <2>1. CASE q # r
    BY <1>4, <2>1 DEF NoOwn
  <2>2. CASE q = r /\ by = "other"
    <3>1. \A i \in 1..l + 1 : i \in 1..l \/ i = l + 1
      BY <1>3
    <3> QED
      BY <1>2, <1>3, <1>4, <2>2, <3>1 DEF NoOwn
  <2> QED
    BY <1>7, <2>1, <2>2
<1> QED
  BY <1>1, <1>4, <1>6, <1>7

\* A decision of the script's own, or none
LEMMA SendsDecide ==
  ASSUME DeploymentInv, NEW r \in Deployment!Runs, Deployment!SendDecide(r)
  PROVE  DeploymentInv'
<1>1. /\ Deployment!At(r, "decide") /\ left' = [left EXCEPT ![r] = Tail(@)]
      /\ Deployment!TakesEffect(r, "decide") \/ Deployment!IsLost(r, "decide")
      /\ Deployment!Decided(r, "script", TRUE) \/ UNCHANGED decisions
      /\ UNCHANGED <<script, readId, outcome, file>>
  BY DEF Deployment!SendDecide, Deployment!Proceed
<1>2. ScriptsTyped /\ left[r] # << >> /\ "decide" \in Steps /\ "decide" \in Deployment!Transactions /\ Progress(r)
  BY <1>1 DEF DeploymentInv, Deployment!At, Steps, Deployment!Transactions
<1>3. /\ DOMAIN done' = Deployment!Runs /\ DOMAIN lost' = Deployment!Runs
      /\ \A q \in Deployment!Runs : done[q] \subseteq done'[q] /\ lost[q] \subseteq lost'[q]
      /\ "decide" \in done'[r] \/ "decide" \in lost'[r]
  BY <1>1, <1>2, ItTakesEffectOrIsLost
<1>4. /\ decisions' \in [Deployment!Runs -> Seq(Decision)]
      /\ \A q \in Deployment!Runs :
           /\ Len(decisions[q]) <= Len(decisions'[q])
           /\ \A i \in 1..Len(decisions[q]) : decisions'[q][i] = decisions[q][i]
      /\ \A q \in Deployment!Runs : q # r => decisions'[q] = decisions[q] /\ NoOwn(q)
      /\ Deployment!Ready(r) \/ decisions' = decisions
  <2>1. CASE Deployment!Decided(r, "script", TRUE)
    BY <1>2, <2>1, DecisionsGrow
  <2>2. CASE UNCHANGED decisions
    <3>1. \A q \in Deployment!Runs : Len(decisions[q]) \in Nat
      BY <1>2 DEF ScriptsTyped
    <3> QED
      BY <1>2, <2>2, <3>1, NothingOwned DEF ScriptsTyped
  <2> QED
    BY <1>1, <2>1, <2>2
<1>5. ScriptsTyped'
  <2>1. left' \in [Deployment!Runs -> Seq(Steps)]
    BY <1>1, <1>2, LeftTyped
  <2> QED
    BY <1>1, <1>2, <1>3, <1>4, <2>1 DEF ScriptsTyped, Deployment!Runs
<1>6. Grows
  BY <1>3, <1>4 DEF Grows
<1>7. Taken(r, "decide")'
  BY <1>3 DEF Taken
<1>8. \A step \in Steps : Taken(r, step) /\ ~Resets("decide", step) => Taken(r, step)'
  BY <1>1, <1>2, <1>5, <1>6, TakenStays DEF Resets
<1>9. \A q \in Deployment!Runs : Progress(q)'
  BY <1>1, <1>2, <1>4, <1>5, <1>6, <1>7, <1>8, StepsMove
<1>10. ASSUME NEW q \in Deployment!Runs
       PROVE  ScriptInv(q)'
  <2>1. ScriptInv(q) /\ done[q] \subseteq done'[q]
    BY <1>3 DEF DeploymentInv
  <2>2. Deployment!Ready(q) => Deployment!Ready(q)'
    BY <2>1 DEF Deployment!Ready
  <2> QED
    BY <1>1, <1>4, <2>1, <2>2 DEF ScriptInv
<1>11. ASSUME NEW q \in Deployment!Runs, readId[q] # None
       PROVE  readId'[q] # None /\ NoOwn(q)
  <2>1. q # r
    BY <1>1, <1>2, <1>11, NothingReadBefore
  <2> QED
    BY <1>1, <1>4, <1>11, <2>1
<1>12. \A s \in Deployment!Scripts : FileInv(s)'
  BY <1>1, <1>2, <1>5, <1>6, <1>11, FilesStayReady DEF DeploymentInv
<1> QED
  BY <1>5, <1>9, <1>10, <1>12 DEF DeploymentInv, Deployment!Runs, Deployment!Scripts, Deployment!Engines

\* A step that mines nothing and puts nothing on record
LEMMA QuietStep ==
  ASSUME DeploymentInv, UNCHANGED <<done, lost, decisions>>, NEW r \in Deployment!Runs, left[r] # << >>,
         left' = [left EXCEPT ![r] = Tail(@)] \/ left' = [left EXCEPT ![r] = << >>],
         script' = script, DOMAIN readId' = Deployment!Runs, DOMAIN outcome' = Deployment!Runs, DOMAIN file' = Deployment!Scripts
  PROVE  ScriptsTyped /\ ScriptsTyped' /\ Grows /\ \A q \in Deployment!Runs : NoOwn(q)
<1>1. ScriptsTyped
  BY DEF DeploymentInv
<1>2. << >> \in Seq(Steps)
  OBVIOUS
<1>3. left' \in [Deployment!Runs -> Seq(Steps)]
  <2>1. CASE left' = [left EXCEPT ![r] = Tail(@)]
    BY <1>1, <2>1, LeftTyped
  <2>2. CASE left' = [left EXCEPT ![r] = << >>]
    BY <1>1, <1>2, <2>2 DEF ScriptsTyped
  <2> QED
    BY <2>1, <2>2
<1>4. ScriptsTyped'
  BY <1>1, <1>3 DEF ScriptsTyped, Deployment!Runs, Deployment!Scripts, Deployment!Engines
<1>5. Grows
  BY <1>1, <1>4, Lengths DEF Grows
<1> QED
  BY <1>1, <1>4, <1>5, NothingOwned

\* The id read is the number of decisions, none of which is later.
LEMMA ReadsId ==
  ASSUME Deployment!DeploymentAssumption, DeploymentInv, NEW r \in Deployment!Runs, Deployment!ReadId(r)
  PROVE  DeploymentInv'
<1>1. /\ Deployment!At(r, "id") /\ left' = [left EXCEPT ![r] = Tail(@)] /\ left[r] # << >>
      /\ readId' = [readId EXCEPT ![r] = Len(decisions[r])]
      /\ UNCHANGED <<script, done, lost, decisions, outcome, file>>
  BY DEF Deployment!ReadId, Deployment!Proceed, Deployment!At
<1>2. /\ "id" \in Steps /\ DOMAIN readId' = Deployment!Runs
      /\ \A q \in Deployment!Runs : readId'[q] = IF q = r THEN Len(decisions[r]) ELSE readId[q]
  BY <1>1 DEF Steps, DeploymentInv, ScriptsTyped
<1>3. /\ ScriptsTyped /\ ScriptsTyped' /\ Grows /\ \A q \in Deployment!Runs : NoOwn(q)
      /\ Len(decisions[r]) \in Nat /\ Progress(r)
  BY <1>1, <1>2, QuietStep, Lengths DEF DeploymentInv, ScriptsTyped
<1>4. Taken(r, "id")'
  <2>1. "id" \notin Deployment!Transactions
    BY DEF Deployment!Transactions
  <2>2. readId'[r] \in 0..Len(decisions'[r]) /\ readId'[r] = Len(decisions'[r])
    BY <1>1, <1>2, <1>3
  <2>3. OwnTo(r, readId[r])'
    BY <1>1, <1>3, <2>2 DEF OwnTo
  <2> QED
    BY <2>1, <2>2, <2>3 DEF Taken, Deployment!Transactions
<1>5. ASSUME NEW step \in Steps, Taken(r, step), ~Resets("id", step)
      PROVE  Taken(r, step)'
  BY <1>1, <1>4, <1>5 DEF Taken, Resets, Deployment!Transactions
<1>6. \A q \in Deployment!Runs : Progress(q)'
  BY <1>1, <1>2, <1>3, <1>4, <1>5, StepsMove
<1>7. ASSUME NEW q \in Deployment!Runs
      PROVE  ScriptInv(q)'
  <2>1. ScriptInv(q)
    BY DEF DeploymentInv
  <2>2. script[r] # None
    <3>1. script[r] \in Deployment!Scripts
      BY <1>1, <1>3, Underway
    <3> QED
      BY <3>1 DEF Deployment!DeploymentAssumption
  <2> QED
    BY <1>1, <1>2, <2>1, <2>2 DEF ScriptInv, Deployment!Ready
<1>8. \A q \in Deployment!Runs : readId[q] # None => readId'[q] # None
  BY <1>2, <1>3 DEF Deployment!DeploymentAssumption
<1>9. \A s \in Deployment!Scripts : FileInv(s)'
  BY <1>1, <1>3, <1>8, FilesStayReady DEF DeploymentInv
<1> QED
  BY <1>3, <1>6, <1>7, <1>9 DEF DeploymentInv, Deployment!Runs, Deployment!Scripts, Deployment!Engines

\* What is decrypted is what the decision read says.
LEMMA Decrypts ==
  ASSUME DeploymentInv, NEW r \in Deployment!Runs, Deployment!Decrypt(r)
  PROVE  DeploymentInv'
<1>1. /\ Deployment!At(r, "decrypt") /\ left' = [left EXCEPT ![r] = Tail(@)] /\ left[r] # << >> /\ readId[r] > 0
      /\ outcome' = [outcome EXCEPT ![r] = decisions[r][readId[r]].right]
      /\ UNCHANGED <<script, done, lost, decisions, readId, file>>
  BY DEF Deployment!Decrypt, Deployment!Proceed, Deployment!At
<1>2. /\ "decrypt" \in Steps /\ DOMAIN outcome' = Deployment!Runs
      /\ \A q \in Deployment!Runs : outcome'[q] = IF q = r THEN decisions[r][readId[r]].right ELSE outcome[q]
  BY <1>1 DEF Steps, DeploymentInv, ScriptsTyped
<1>3. /\ ScriptsTyped /\ ScriptsTyped' /\ Grows /\ \A q \in Deployment!Runs : NoOwn(q)
      /\ Len(decisions[r]) \in Nat
  BY <1>1, <1>2, QuietStep, Lengths DEF DeploymentInv, ScriptsTyped
<1>4. readId[r] \in 1..Len(decisions[r])
  <2>1. Taken(r, "id")
    BY <1>1, <1>3, ReadInOrder, TakenBefore DEF DeploymentInv
  <2>2. readId[r] \in 0..Len(decisions[r])
    BY <2>1 DEF Taken
  <2> QED
    BY <1>1, <1>3, <2>2
<1>5. Taken(r, "decrypt")'
  <2>1. "decrypt" \notin Deployment!Transactions
    BY DEF Deployment!Transactions
  <2> QED
    BY <1>1, <1>2, <1>4, <2>1 DEF Taken, Deployment!Transactions
<1>6. ASSUME NEW step \in Steps, Taken(r, step), ~Resets("decrypt", step)
      PROVE  Taken(r, step)'
  <2>1. step = "id" => OwnTo(r, readId[r])'
    BY <1>1, <1>6 DEF Taken, OwnTo
  <2> QED
    BY <1>1, <1>5, <1>6, <2>1 DEF Taken, Resets, Deployment!Transactions
<1>7. \A q \in Deployment!Runs : Progress(q)'
  BY <1>1, <1>2, <1>3, <1>5, <1>6, StepsMove
<1>8. \A q \in Deployment!Runs : ScriptInv(q)'
  BY <1>1, <1>3, RunsStay DEF DeploymentInv
<1>9. \A s \in Deployment!Scripts : FileInv(s)'
  BY <1>1, <1>3, FilesStayReady DEF DeploymentInv
<1> QED
  BY <1>3, <1>7, <1>8, <1>9 DEF DeploymentInv, Deployment!Runs, Deployment!Scripts, Deployment!Engines

\* A check that passes has found what was expected.
LEMMA Checked ==
  ASSUME DeploymentInv, NEW r \in Deployment!Runs, Deployment!Check(r)
  PROVE  DeploymentInv'
<1>1. /\ Deployment!At(r, "check") /\ left' = [left EXCEPT ![r] = Tail(@)] /\ left[r] # << >> /\ outcome[r]
      /\ UNCHANGED <<script, done, lost, decisions, readId, outcome, file>>
  BY DEF Deployment!Check, Deployment!Proceed, Deployment!At
<1>2. "check" \in Steps
  BY DEF Steps
<1>3. /\ ScriptsTyped /\ ScriptsTyped' /\ Grows /\ \A q \in Deployment!Runs : NoOwn(q)
      /\ decisions[r] \in Seq(Decision)
  BY <1>1, QuietStep, Lengths DEF DeploymentInv, ScriptsTyped
<1>4. outcome'[r] = TRUE
  <2>1. Taken(r, "decrypt")
    BY <1>1, <1>3, ReadInOrder, TakenBefore DEF DeploymentInv
  <2>2. readId[r] \in 1..Len(decisions[r]) /\ outcome[r] = decisions[r][readId[r]].right
    BY <2>1 DEF Taken
  <2>3. decisions[r][readId[r]] \in Decision
    BY <1>3, <2>2
  <2>4. outcome[r] \in BOOLEAN
    BY <2>2, <2>3 DEF Decision
  <2> QED
    BY <1>1, <2>4
<1>5. Taken(r, "check")'
  <2>1. "check" \notin Deployment!Transactions
    BY DEF Deployment!Transactions
  <2> QED
    BY <1>4, <2>1 DEF Taken, Deployment!Transactions
<1>6. Keeps(r)
  BY <1>1, <1>3, TakenStays
<1>7. \A q \in Deployment!Runs : Progress(q)'
  BY <1>1, <1>2, <1>3, <1>5, <1>6, StepsMove DEF Keeps
<1>8. \A q \in Deployment!Runs : ScriptInv(q)'
  BY <1>1, <1>3, RunsStay DEF DeploymentInv
<1>9. \A s \in Deployment!Scripts : FileInv(s)'
  BY <1>1, <1>3, FilesStayReady DEF DeploymentInv
<1> QED
  BY <1>3, <1>7, <1>8, <1>9 DEF DeploymentInv, Deployment!Runs, Deployment!Scripts, Deployment!Engines

\* What is written has been made ready by the steps before.
LEMMA Writes ==
  ASSUME Deployment!DeploymentAssumption, DeploymentInv, NEW r \in Deployment!Runs, Deployment!Write(r)
  PROVE  DeploymentInv'
<1> DEFINE written == [run |-> r, id |-> readId[r], outcome |-> outcome[r]]
<1>1. /\ Deployment!At(r, "write") /\ left' = [left EXCEPT ![r] = Tail(@)] /\ left[r] # << >>
      /\ file' = [file EXCEPT ![script[r]] = written]
      /\ UNCHANGED <<script, done, lost, decisions, readId, outcome>>
  BY DEF Deployment!Write, Deployment!Proceed, Deployment!At
<1>2. "write" \in Steps /\ Progress(r) /\ ScriptInv(r)
  BY DEF Steps, DeploymentInv
<1>3. /\ ScriptsTyped /\ ScriptsTyped' /\ Grows /\ \A q \in Deployment!Runs : NoOwn(q)
      /\ Len(decisions[r]) \in Nat
  BY <1>1, QuietStep, Lengths DEF DeploymentInv, ScriptsTyped
<1>4. PICK s \in Deployment!Scripts : script[r] = s
  BY <1>1, <1>2, <1>3, Underway
<1>5. /\ written.run = r /\ written.id = readId[r]
      /\ \A t \in Deployment!Scripts : file'[t] = IF t = s THEN written ELSE file[t]
  BY <1>1, <1>3, <1>4 DEF ScriptsTyped
<1> HIDE DEF written
<1>6. Keeps(r)
  BY <1>1, <1>3, TakenStays
<1>7. Taken(r, "write")'
  BY DEF Taken, Deployment!Transactions
<1>8. \A q \in Deployment!Runs : Progress(q)'
  BY <1>1, <1>2, <1>3, <1>6, <1>7, StepsMove DEF Keeps
<1>9. \A q \in Deployment!Runs : ScriptInv(q)'
  BY <1>1, <1>3, RunsStay DEF DeploymentInv
<1>10. ASSUME NEW a, Before(s, a, "write")
       PROVE  Taken(r, a)
  BY <1>1, <1>2, <1>3, <1>4, <1>10, TakenBefore
<1>11. ASSUME NEW a \in Deployment!Transactions, Before(s, a, "write")
       PROVE  a \in done[r] \/ a \in lost[r]
  BY <1>10, <1>11 DEF Taken
<1>12. ReadyFor(s, r, readId[r])
  <2>1. ASSUME s \in Deployment!Engines
        PROVE  /\ readId[r] # None /\ Deployment!Ready(r) /\ readId[r] \in 1..Len(decisions[r])
               /\ OwnTo(r, readId[r]) /\ outcome[r] = decisions[r][readId[r]].right
    <3>1. Taken(r, "id") /\ Taken(r, "decrypt")
      BY <1>10, <2>1, WrittenAfter
    <3>2. /\ readId[r] \in 1..Len(decisions[r]) /\ OwnTo(r, readId[r])
          /\ outcome[r] = decisions[r][readId[r]].right
      BY <3>1 DEF Taken
    <3>3. Len(decisions[r]) > 0 /\ readId[r] \in Nat
      BY <1>3, <3>2
    <3> QED
      BY <1>2, <3>2, <3>3 DEF ScriptInv, Deployment!DeploymentAssumption
  <2>2. ASSUME s = "treasury"
        PROVE  decisions[r][readId[r]].right
    <3>1. Taken(r, "check") /\ s \in Deployment!Engines
      BY <1>10, <2>2, WrittenAfter DEF Deployment!Engines
    <3> QED
      BY <2>1, <3>1 DEF Taken
  <2>3. s = "meter" => {"meter", "authorize"} \subseteq done[r] \/ lost[r] # {}
    BY <1>11, WrittenAfter DEF Deployment!Transactions
  <2>4. s = "bus" => "bus" \in done[r] \/ lost[r] # {}
    BY <1>11, WrittenAfter DEF Deployment!Transactions
  <2> QED
    BY <2>1, <2>2, <2>3, <2>4 DEF ReadyFor
<1>13. FileInv(s)'
  <2>1. PICK n : n = readId[r]
    OBVIOUS
  <2>2. ReadyFor(s, r, n)'
    BY <1>1, <1>12, <2>1 DEF ReadyFor, OwnTo, Deployment!Ready, Deployment!Engines
  <2>3. file'[s].run = r /\ file'[s].id = n
    BY <1>5, <2>1
  <2> QED
    BY <2>2, <2>3 DEF FileInv, Deployment!Runs
<1>14. ASSUME NEW t \in Deployment!Scripts
       PROVE  FileInv(t)'
  <2>1. CASE t = s
    BY <1>13, <2>1
  <2>2. CASE t # s
    <3>1. file'[t] = file[t] /\ FileInv(t)
      BY <1>5, <2>2 DEF DeploymentInv
    <3> QED
      BY <1>1, <1>3, <3>1, FilesStayReady
  <2> QED
    BY <2>1, <2>2
<1> QED
  BY <1>3, <1>8, <1>9, <1>14 DEF DeploymentInv, Deployment!Runs, Deployment!Scripts, Deployment!Engines

LEMMA ScriptStops ==
  ASSUME DeploymentInv, NEW r \in Deployment!Runs, Deployment!Stop(r)
  PROVE  DeploymentInv'
<1>1. /\ left[r] # << >> /\ left' = [left EXCEPT ![r] = << >>]
      /\ UNCHANGED <<script, done, lost, decisions, readId, outcome, file>>
  BY DEF Deployment!Stop
<1>2. ScriptsTyped /\ ScriptsTyped' /\ Grows /\ \A q \in Deployment!Runs : NoOwn(q)
  BY <1>1, QuietStep DEF DeploymentInv, ScriptsTyped
<1>3. ASSUME NEW q \in Deployment!Runs
      PROVE  Progress(q)'
  <2>1. CASE q = r
    BY <1>1, <1>2, <2>1 DEF Progress, ScriptsTyped
  <2>2. CASE q # r
    <3>1. left'[q] = left[q] /\ script'[q] = script[q] /\ readId'[q] = readId[q] /\ Progress(q)
      BY <1>1, <1>2, <2>2 DEF DeploymentInv, ScriptsTyped
    <3>2. Keeps(q)
      BY <1>1, <1>2, TakenStays
    <3> QED
      BY <3>1, <3>2, ProgressStays
  <2> QED
    BY <2>1, <2>2
<1>4. \A q \in Deployment!Runs : ScriptInv(q)'
  BY <1>1, <1>2, RunsStay DEF DeploymentInv
<1>5. \A s \in Deployment!Scripts : FileInv(s)'
  BY <1>1, <1>2, FilesStayReady DEF DeploymentInv
<1> QED
  BY <1>2, <1>3, <1>4, <1>5 DEF DeploymentInv, Deployment!Runs, Deployment!Scripts, Deployment!Engines

LEMMA ScriptStarts ==
  ASSUME DeploymentInv, NEW r \in Deployment!Runs, NEW s \in Deployment!Scripts, Deployment!Start(r, s)
  PROVE  DeploymentInv'
<1>1. /\ script' = [script EXCEPT ![r] = s] /\ left' = [left EXCEPT ![r] = Deployment!Plan(s)]
      /\ script[r] = None
      /\ UNCHANGED <<done, lost, decisions, readId, outcome, file>>
  BY DEF Deployment!Start
<1>2. ScriptsTyped /\ Deployment!Plan(s) \in Seq(Steps) /\ readId[r] = None
  BY <1>1, Plans DEF DeploymentInv, ScriptInv
<1>3. ScriptsTyped'
  BY <1>1, <1>2 DEF ScriptsTyped, Deployment!Runs, Deployment!Scripts, Deployment!Engines
<1>4. Grows /\ \A q \in Deployment!Runs : NoOwn(q)
  BY <1>1, <1>2, <1>3, Lengths, NothingOwned DEF Grows
<1>5. ASSUME NEW q \in Deployment!Runs
      PROVE  Progress(q)'
  <2>1. CASE q = r
    <3>1. left'[r] = Deployment!Plan(s) /\ script'[r] = s
      BY <1>1, <1>2 DEF ScriptsTyped
    <3>2. PICK n \in Nat : n = Len(Deployment!Plan(s))
      BY <1>2
    <3>3. Remains(r, s, 0)'
      <4>1. \A i \in 1..n : 0 + i = i
        OBVIOUS
      <4> QED
        BY <3>1, <3>2, <4>1 DEF Remains
    <3>4. TakenTo(r, s, 0)' /\ ReadBy(r, s, 0)' /\ 0 \in 0..Len(Deployment!Plan(s))
      BY <1>1, <1>2, <3>2 DEF TakenTo, ReadBy
    <3> QED
      BY <2>1, <3>1, <3>3, <3>4 DEF Progress, AfterSteps
  <2>2. CASE q # r
    <3>1. left'[q] = left[q] /\ script'[q] = script[q] /\ readId'[q] = readId[q] /\ Progress(q)
      BY <1>1, <1>2, <2>2 DEF DeploymentInv, ScriptsTyped
    <3>2. Keeps(q)
      BY <1>1, <1>2, <1>3, <1>4, TakenStays
    <3> QED
      BY <3>1, <3>2, ProgressStays
  <2> QED
    BY <2>1, <2>2
<1>6. ASSUME NEW q \in Deployment!Runs
      PROVE  ScriptInv(q)'
  <2>1. ScriptInv(q) /\ (q = r \/ script'[q] = script[q])
    BY <1>1, <1>2 DEF DeploymentInv, ScriptsTyped
  <2> QED
    BY <1>1, <1>2, <2>1 DEF ScriptInv, Deployment!Ready
<1>7. \A t \in Deployment!Scripts : FileInv(t)'
  BY <1>1, <1>2, <1>3, <1>4, FilesStayReady DEF DeploymentInv
<1> QED
  BY <1>3, <1>5, <1>6, <1>7 DEF DeploymentInv, Deployment!Runs, Deployment!Scripts, Deployment!Engines

LEMMA OthersDecide ==
  ASSUME DeploymentInv, NEW r \in Deployment!Runs, Deployment!ForeignDecide(r)
  PROVE  DeploymentInv'
<1>1. UNCHANGED <<script, left, done, lost, readId, outcome, file>>
  BY DEF Deployment!ForeignDecide
<1>2. PICK d \in BOOLEAN : Deployment!Decided(r, "other", d)
  BY DEF Deployment!ForeignDecide
<1>3. ScriptsTyped
  BY DEF DeploymentInv
<1>4. /\ decisions' \in [Deployment!Runs -> Seq(Decision)]
      /\ \A q \in Deployment!Runs :
           /\ Len(decisions[q]) <= Len(decisions'[q])
           /\ \A i \in 1..Len(decisions[q]) : decisions'[q][i] = decisions[q][i]
      /\ \A q \in Deployment!Runs : q # r => decisions'[q] = decisions[q]
      /\ \A q \in Deployment!Runs : NoOwn(q)
      /\ Deployment!Ready(r)
  BY <1>2, <1>3, DecisionsGrow
<1>5. ScriptsTyped' /\ Grows
  BY <1>1, <1>3, <1>4 DEF ScriptsTyped, Grows, Deployment!Runs, Deployment!Scripts, Deployment!Engines
<1>6. ASSUME NEW q \in Deployment!Runs
      PROVE  Progress(q)'
  <2>1. Keeps(q) /\ Progress(q)
    BY <1>1, <1>3, <1>4, <1>5, TakenStays DEF DeploymentInv
  <2> QED
    BY <1>1, <2>1, ProgressStays
<1>7. \A q \in Deployment!Runs : ScriptInv(q)'
  BY <1>1, <1>4 DEF ScriptInv, Deployment!Ready, DeploymentInv
<1>8. \A t \in Deployment!Scripts : FileInv(t)'
  BY <1>1, <1>3, <1>4, <1>5, FilesStayReady DEF DeploymentInv
<1> QED
  BY <1>5, <1>6, <1>7, <1>8 DEF DeploymentInv, Deployment!Runs, Deployment!Scripts, Deployment!Engines

LEMMA DeploymentInvariance == ASSUME Deployment!DeploymentAssumption PROVE Deployment!Spec => []DeploymentInv
<1>1. Deployment!Init => DeploymentInv
  <2> SUFFICES ASSUME Deployment!Init
               PROVE  DeploymentInv
    OBVIOUS
  <2>1. /\ script = [r \in Deployment!Runs |-> None] /\ left = [r \in Deployment!Runs |-> << >>]
        /\ done = [r \in Deployment!Runs |-> {}] /\ lost = [r \in Deployment!Runs |-> {}]
        /\ decisions = [r \in Deployment!Runs |-> << >>]
        /\ readId = [r \in Deployment!Runs |-> None] /\ outcome = [r \in Deployment!Runs |-> None]
        /\ file = [s \in Deployment!Scripts |-> None]
    BY DEF Deployment!Init
  <2>2. << >> \in Seq(Steps) /\ << >> \in Seq(Decision) /\ ~(Len(<< >>) > 0)
    OBVIOUS
  <2>3. ScriptsTyped
    BY <2>1, <2>2 DEF ScriptsTyped
  <2>4. \A r \in Deployment!Runs : ScriptInv(r)
    BY <2>1, <2>2 DEF ScriptInv
  <2> QED
    BY <2>1, <2>3, <2>4 DEF DeploymentInv, Progress, FileInv
<1>2. DeploymentInv /\ UNCHANGED Deployment!vars => DeploymentInv'
  <2> SUFFICES ASSUME DeploymentInv, UNCHANGED Deployment!vars
               PROVE  DeploymentInv'
    OBVIOUS
  <2>1. UNCHANGED <<script, left, done, lost, decisions, readId, outcome, file>>
    BY DEF Deployment!vars
  <2>2. ScriptsTyped /\ ScriptsTyped'
    BY <2>1 DEF DeploymentInv, ScriptsTyped, Deployment!Runs, Deployment!Scripts, Deployment!Engines
  <2>3. Grows /\ \A q \in Deployment!Runs : NoOwn(q)
    BY <2>1, <2>2, Lengths, NothingOwned DEF Grows
  <2>4. ASSUME NEW q \in Deployment!Runs
        PROVE  Progress(q)'
    <3>1. Keeps(q) /\ Progress(q)
      BY <2>1, <2>2, <2>3, TakenStays DEF DeploymentInv
    <3> QED
      BY <2>1, <3>1, ProgressStays
  <2>5. \A q \in Deployment!Runs : ScriptInv(q)'
    BY <2>1, <2>2, <2>3, RunsStay DEF DeploymentInv
  <2>6. \A t \in Deployment!Scripts : FileInv(t)'
    BY <2>1, <2>2, <2>3, FilesStayReady DEF DeploymentInv
  <2> QED
    BY <2>2, <2>4, <2>5, <2>6 DEF DeploymentInv, Deployment!Runs, Deployment!Scripts, Deployment!Engines
<1>3. DeploymentInv /\ [Deployment!Next]_(Deployment!vars) => DeploymentInv'
  BY <1>2, ScriptStarts, Transacts, SendsDecide, ReadsId, Decrypts, Checked, Writes,
     ScriptStops, OthersDecide DEF Deployment!Next
<1> QED
  BY <1>1, <1>3, PTL DEF Deployment!Spec

\* Although the scripts look at no receipt's status, an engine whose address is published records,
\* has its policy and has decided, and the decision published is not from before the script's own;
\* a meter and a bus are ready unless a transaction of the script's came to nothing.  For any
\* number of runs and decisions.
THEOREM WhatIsPublishedIsReady ==
  ASSUME Deployment!DeploymentAssumption PROVE Deployment!Spec => []PublishedIsReady
<1>1. DeploymentInv => Deployment!PublishedIsReady
  BY DEF DeploymentInv, FileInv, ReadyFor, OwnTo, Deployment!PublishedIsReady
<1> QED
  BY <1>1, DeploymentInvariance, PTL DEF PublishedIsReady

\* What remains of a plan is its end.
LEMMA RemainsAreSuffixes ==
  ASSUME ScriptsTyped, NEW r \in Deployment!Runs, NEW s \in Deployment!Scripts,
         left[r] = << >> \/ \E k \in 0..Len(Deployment!Plan(s)) : Remains(r, s, k)
  PROVE  Deployment!IsSuffix(left[r], Deployment!Plan(s))
<1> DEFINE l == left[r]
           p == Deployment!Plan(s)
<1>1. l \in Seq(Steps) /\ p \in Seq(Steps) /\ Len(l) \in Nat /\ Len(p) \in Nat
  BY Plans DEF ScriptsTyped
<1>2. /\ Len(l) <= Len(p)
      /\ \A i \in 1..Len(l) : l[Len(l) - i + 1] = p[Len(p) - i + 1]
  <2>1. CASE l = << >>
    BY <1>1, <2>1
  <2>2. CASE l # << >>
    <3>1. PICK k \in 0..Len(p) : Len(l) = Len(p) - k /\ \A i \in 1..Len(l) : l[i] = p[k + i]
      BY <2>2 DEF Remains
    <3> HIDE DEF l, p
    <3>2. ASSUME NEW i \in 1..Len(l)
          PROVE  l[Len(l) - i + 1] = p[Len(p) - i + 1]
      <4>1. Len(l) - i + 1 \in 1..Len(l) /\ k + (Len(l) - i + 1) = Len(p) - i + 1
        BY <1>1, <3>1
      <4> QED
        BY <3>1, <4>1
    <3> QED
      BY <1>1, <3>1, <3>2
  <2> QED
    BY <2>1, <2>2
<1> HIDE DEF l, p
<1> DEFINE a == Deployment!Reverse(l)
           b == Deployment!Reverse(p)
<1>3. /\ a \in Seq(Steps) /\ b \in Seq(Steps) /\ Len(a) = Len(l) /\ Len(b) = Len(p)
      /\ \A i \in 1..Len(l) : a[i] = l[Len(l) - i + 1]
      /\ \A i \in 1..Len(p) : b[i] = p[Len(p) - i + 1]
  BY <1>1 DEF Deployment!Reverse
<1> HIDE DEF a, b
<1>4. \A i \in 1..Len(a) : a[i] = b[i]
  <2> SUFFICES ASSUME NEW i \in 1..Len(a)
               PROVE  a[i] = b[i]
    OBVIOUS
  <2>1. i \in 1..Len(l) /\ i \in 1..Len(p)
    BY <1>1, <1>2, <1>3
  <2> QED
    BY <1>2, <1>3, <2>1
<1>5. SubSeq(a, 1, Len(a)) = SubSeq(b, 1, Len(a))
  BY <1>1, <1>2, <1>3, <1>4
<1> QED
  BY <1>1, <1>2, <1>3, <1>5 DEF Deployment!IsSuffix, Deployment!IsPrefix, a, b, l, p

\* The types that no other part of the invariant needs
RunTyped(r) ==
  /\ script[r] \in Deployment!Scripts \cup {None}
  /\ done[r] \subseteq Deployment!Transactions /\ lost[r] \subseteq Deployment!Transactions
  /\ readId[r] # None => readId[r] \in 0..Len(decisions[r])
  /\ outcome[r] \in BOOLEAN \cup {None}

\* A transaction is one of the run's, and decisions are only added.
LEMMA TransactionsTyped ==
  ASSUME ScriptsTyped, ScriptsTyped', NEW r \in Deployment!Runs, NEW t \in Deployment!Transactions,
         Deployment!TakesEffect(r, t) \/ Deployment!IsLost(r, t), NEW q \in Deployment!Runs, RunTyped(q),
         UNCHANGED <<script, readId, outcome>>, Len(decisions[q]) <= Len(decisions'[q])
  PROVE  RunTyped(q)'
<1>1. done'[q] \subseteq Deployment!Transactions /\ lost'[q] \subseteq Deployment!Transactions
  <2>1. DOMAIN done = Deployment!Runs /\ DOMAIN lost = Deployment!Runs
    BY DEF ScriptsTyped
  <2>2. done[q] \subseteq Deployment!Transactions /\ lost[q] \subseteq Deployment!Transactions
    BY DEF RunTyped
  <2>3. /\ done'[q] = done[q] \/ done'[q] = done[q] \cup {t}
        /\ lost'[q] = lost[q] \/ lost'[q] = lost[q] \cup {t}
    BY <2>1 DEF Deployment!TakesEffect, Deployment!IsLost
  <2> QED
    BY <2>2, <2>3
<1>2. readId[q] # None => readId'[q] \in 0..Len(decisions'[q])
  BY Lengths DEF RunTyped
<1>3. Deployment!Transactions' = Deployment!Transactions /\ Deployment!Scripts' = Deployment!Scripts
  BY DEF Deployment!Transactions, Deployment!Scripts, Deployment!Engines
<1> QED
  BY <1>1, <1>2, <1>3 DEF RunTyped

LEMMA RunsTyped ==
  ASSUME DeploymentInv, DeploymentInv', \A r \in Deployment!Runs : RunTyped(r), [Deployment!Next]_(Deployment!vars)
  PROVE  \A r \in Deployment!Runs : RunTyped(r)'
<1> SUFFICES ASSUME NEW q \in Deployment!Runs
             PROVE  RunTyped(q)'
  BY DEF Deployment!Runs
<1>1. /\ RunTyped(q) /\ ScriptsTyped /\ ScriptsTyped'
      /\ \A r \in Deployment!Runs : Len(decisions[r]) \in Nat
  BY DEF DeploymentInv, ScriptsTyped
<1>2. CASE UNCHANGED Deployment!vars
  BY <1>1, <1>2 DEF Deployment!vars, RunTyped
<1>3. ASSUME NEW r \in Deployment!Runs, NEW s \in Deployment!Scripts, Deployment!Start(r, s)
      PROVE  RunTyped(q)'
  BY <1>1, <1>3 DEF Deployment!Start, RunTyped, ScriptsTyped
<1>4. ASSUME NEW r \in Deployment!Runs, Deployment!Transact(r)
      PROVE  RunTyped(q)'
  <2>1. PICK t \in Deployment!Transactions : Deployment!TakesEffect(r, t) \/ Deployment!IsLost(r, t)
    BY <1>4 DEF Deployment!Transact
  <2>2. UNCHANGED <<script, readId, outcome, decisions>>
    BY <1>4 DEF Deployment!Transact
  <2>3. Len(decisions[q]) <= Len(decisions'[q])
    BY <1>1, <2>2
  <2> QED
    BY <1>1, <2>1, <2>2, <2>3, TransactionsTyped
<1>5. ASSUME NEW r \in Deployment!Runs, NEW by \in {"script", "other"}, NEW d \in BOOLEAN, Deployment!Decided(r, by, d)
      PROVE  Len(decisions[q]) <= Len(decisions'[q])
  BY <1>1, <1>5, DecisionsGrow
<1>6. ASSUME NEW r \in Deployment!Runs, Deployment!SendDecide(r)
      PROVE  RunTyped(q)'
  <2>1. /\ Deployment!TakesEffect(r, "decide") \/ Deployment!IsLost(r, "decide")
        /\ Deployment!Decided(r, "script", TRUE) \/ UNCHANGED decisions
        /\ UNCHANGED <<script, readId, outcome>>
    BY <1>6 DEF Deployment!SendDecide
  <2>2. Len(decisions[q]) <= Len(decisions'[q])
    <3>1. CASE Deployment!Decided(r, "script", TRUE)
      BY <1>5, <3>1
    <3>2. CASE UNCHANGED decisions
      BY <1>1, <3>2
    <3> QED
      BY <2>1, <3>1, <3>2
  <2>3. "decide" \in Deployment!Transactions
    BY DEF Deployment!Transactions
  <2> QED
    BY <1>1, <2>1, <2>2, <2>3, TransactionsTyped
<1>7. ASSUME NEW r \in Deployment!Runs, Deployment!ForeignDecide(r)
      PROVE  RunTyped(q)'
  <2>1. /\ \E d \in BOOLEAN : Deployment!Decided(r, "other", d)
        /\ UNCHANGED <<script, done, lost, readId, outcome>>
    BY <1>7 DEF Deployment!ForeignDecide
  <2>2. Len(decisions[q]) <= Len(decisions'[q]) /\ Len(decisions[q]) \in Nat /\ Len(decisions'[q]) \in Nat
    BY <1>1, <1>5, <2>1, Lengths
  <2>3. readId[q] # None => readId[q] \in 0..Len(decisions'[q])
    BY <1>1, <2>2 DEF RunTyped
  <2> QED
    BY <1>1, <2>1, <2>3 DEF RunTyped
<1>8. ASSUME NEW r \in Deployment!Runs, Deployment!ReadId(r)
      PROVE  RunTyped(q)'
  <2>1. /\ readId' = [readId EXCEPT ![r] = Len(decisions[r])]
        /\ UNCHANGED <<script, done, lost, decisions, outcome>>
    BY <1>8 DEF Deployment!ReadId
  <2>2. readId'[q] = IF q = r THEN Len(decisions[r]) ELSE readId[q]
    BY <1>1, <2>1 DEF ScriptsTyped
  <2>3. Len(decisions[r]) \in 0..Len(decisions[r])
    BY <1>1
  <2> QED
    BY <1>1, <2>1, <2>2, <2>3 DEF RunTyped
<1>9. ASSUME NEW r \in Deployment!Runs, Deployment!Decrypt(r)
      PROVE  RunTyped(q)'
  <2>1. /\ Deployment!At(r, "decrypt") /\ readId[r] > 0
        /\ outcome' = [outcome EXCEPT ![r] = decisions[r][readId[r]].right]
        /\ UNCHANGED <<script, done, lost, decisions, readId>>
    BY <1>9 DEF Deployment!Decrypt
  <2>2. decisions[r][readId[r]].right \in BOOLEAN
    <3>1. Taken(r, "id")
      BY <1>1, <2>1, ReadInOrder, TakenBefore DEF DeploymentInv
    <3>2. readId[r] \in 1..Len(decisions[r]) /\ decisions[r] \in Seq(Decision)
      BY <1>1, <2>1, <3>1 DEF ScriptsTyped, Taken
    <3>3. decisions[r][readId[r]] \in Decision
      BY <3>2
    <3> QED
      BY <3>3 DEF Decision
  <2>3. outcome'[q] = IF q = r THEN decisions[r][readId[r]].right ELSE outcome[q]
    BY <1>1, <2>1 DEF ScriptsTyped
  <2> QED
    BY <1>1, <2>1, <2>2, <2>3 DEF RunTyped
<1>10. ASSUME NEW r \in Deployment!Runs, Deployment!Check(r) \/ Deployment!Write(r) \/ Deployment!Stop(r)
       PROVE  RunTyped(q)'
  BY <1>1, <1>10 DEF Deployment!Check, Deployment!Write, Deployment!Stop, RunTyped
<1> QED
  BY <1>2, <1>3, <1>4, <1>6, <1>7, <1>8, <1>9, <1>10 DEF Deployment!Next

\* Types of the scripts' state; what is left of one is the end of its plan.
THEOREM DeploymentTypeCorrect ==
  ASSUME Deployment!DeploymentAssumption PROVE Deployment!Spec => []Deployment!TypeOK
<1> DEFINE I == DeploymentInv /\ \A r \in Deployment!Runs : RunTyped(r)
<1>1. Deployment!Init => \A r \in Deployment!Runs : RunTyped(r)
  BY DEF Deployment!Init, RunTyped
<1>2. DeploymentInv /\ DeploymentInv' /\ (\A r \in Deployment!Runs : RunTyped(r)) /\ [Deployment!Next]_(Deployment!vars)
        => (\A r \in Deployment!Runs : RunTyped(r))'
  BY RunsTyped DEF Deployment!Runs
<1>3. I => Deployment!TypeOK
  <2> SUFFICES ASSUME I, NEW r \in Deployment!Runs
               PROVE  /\ script[r] \in Deployment!Scripts \cup {None}
                      /\ script[r] # None => Deployment!IsSuffix(left[r], Deployment!Plan(script[r]))
                      /\ done[r] \subseteq Deployment!Transactions /\ lost[r] \subseteq Deployment!Transactions
                      /\ readId[r] # None => readId[r] \in 0..Len(decisions[r])
                      /\ outcome[r] \in BOOLEAN \cup {None}
    BY Zenon DEF Deployment!TypeOK
  <2>1. RunTyped(r) /\ ScriptsTyped /\ Progress(r)
    BY DEF DeploymentInv
  <2>2. script[r] # None => Deployment!IsSuffix(left[r], Deployment!Plan(script[r]))
    BY <2>1, RemainsAreSuffixes DEF Progress, AfterSteps, RunTyped
  <2> QED
    BY <2>1, <2>2 DEF RunTyped
<1> QED
  <2>1. Deployment!Spec => [](\A r \in Deployment!Runs : RunTyped(r))
    BY <1>1, <1>2, DeploymentInvariance, PTL DEF Deployment!Spec
  <2> QED
    BY <2>1, <1>3, DeploymentInvariance, PTL

-----------------------------------------------------------------------------
\* The Safe demo

\* A transaction is of the run that sent it, or of an earlier one.  This run's batch is the last one
\* sent, and its swap has not taken place while it is pending.
Swaps == {"ACCUMULATE", "HEDGE"}
Txs   == [kind : {"deploy", "transfer", "batch"}, action : Swaps \cup {None}, amount : Nat, nonce : Nat, run : Nat]
Safes == [deployed : BOOLEAN, nonce : Nat, usdc : Nat, weth : Nat]
Early == {"deploy", "deploying", "fund", "funding", "before", "sign", "send"}

DemoTyped ==
  /\ safe \in Safes /\ pending \in Seq(Txs)
  /\ pc \in Demo!Used \cup {"stopped", "deploy", "deploying"}
  /\ signed \in Nat \cup {None} /\ wethBefore \in Nat \cup {None} /\ runs \in Nat

Own(t, n) == t.kind = "batch" /\ t.run = n

Queued(q, n) ==
  /\ \A i \in 1..Len(q) : q[i].run <= n
  /\ \A i, j \in 1..Len(q) : Own(q[i], n) /\ Own(q[j], n) => i = j
HasOwn(q, n) == \E i \in 1..Len(q) : Own(q[i], n)

QueueInv ==
  /\ Queued(pending, runs)
  /\ HasOwn(pending, runs) => pc \in {"swapping", "stopped"} /\ ~swapped
  /\ pc \in {"after", "failed"} => pending = << >>

\* Until this run's swap took place, or another batch was executed, the Safe's WETH is what the run
\* read before.
RunInv ==
  /\ pc \in Early => ~swapped
  /\ pc # "stopped" => action \in Swaps
  /\ pc \in {"sign", "send", "swapping", "after"} => wethBefore \in Nat
  /\ pc \in {"send", "swapping", "after"} => signed \in Nat
  /\ pc \in {"sign", "send", "swapping", "after"} => disturbed \/ swapped \/ safe.weth = wethBefore

\* Undisturbed, a batch that buys WETH and is pending will be executed.
WillBuy(q, n) == \E i \in 1..Len(q) : Own(q[i], n) /\ q[i].action = "ACCUMULATE" /\ q[i].nonce = signed

Bought ==
  pc \in {"swapping", "after"} /\ ~disturbed /\ action = "ACCUMULATE" =>
    \/ swapped /\ safe.weth = wethBefore + Gain
    \/ /\ ~swapped /\ pc = "swapping" /\ WillBuy(pending, runs)
       /\ safe.deployed /\ safe.nonce = signed /\ safe.usdc >= 1

DemoInv == DemoTyped /\ QueueInv /\ RunInv /\ Bought /\ Demo!UndisturbedVerdict

\* A transaction sent is the last one, and one mined was the first.
LEMMA QueueGrows ==
  ASSUME pending \in Seq(Txs), NEW t \in Txs, NEW n \in Nat, t.run = n, Queued(pending, n),
         Own(t, n) => ~HasOwn(pending, n), pending' = Append(pending, t)
  PROVE  /\ pending' \in Seq(Txs) /\ Queued(pending', n)
         /\ HasOwn(pending', n) <=> HasOwn(pending, n) \/ Own(t, n)
         /\ Own(t, n) /\ t.action = "ACCUMULATE" /\ t.nonce = signed => WillBuy(pending', n)
<1>1. PICK l \in Nat : l = Len(pending)
  OBVIOUS
<1>2. /\ pending' \in Seq(Txs) /\ Len(pending') = l + 1 /\ pending'[l + 1] = t
      /\ \A i \in 1..l : pending'[i] = pending[i]
  BY <1>1
<1>3. 1..Len(pending') = 1..l \cup {l + 1} /\ l + 1 \in 1..l + 1
  BY <1>1, <1>2
<1>4. \A i \in 1..Len(pending') : pending'[i].run <= n
  BY <1>1, <1>2, <1>3 DEF Queued
<1>5. ASSUME NEW i \in 1..Len(pending'), NEW j \in 1..Len(pending'), Own(pending'[i], n), Own(pending'[j], n)
      PROVE  i = j
  <2>1. CASE i = l + 1 /\ j = l + 1
    BY <2>1
  <2>2. CASE i \in 1..l /\ j \in 1..l
    BY <1>1, <1>2, <1>5, <2>2 DEF Queued
  <2>3. CASE i = l + 1 /\ j \in 1..l
    BY <1>1, <1>2, <1>5, <2>3 DEF HasOwn
  <2>4. CASE i \in 1..l /\ j = l + 1
    BY <1>1, <1>2, <1>5, <2>4 DEF HasOwn
  <2> QED
    BY <1>3, <2>1, <2>2, <2>3, <2>4
<1>6. HasOwn(pending', n) <=> HasOwn(pending, n) \/ Own(t, n)
  BY <1>1, <1>2, <1>3 DEF HasOwn
<1>7. Own(t, n) /\ t.action = "ACCUMULATE" /\ t.nonce = signed => WillBuy(pending', n)
  BY <1>2, <1>3 DEF WillBuy
<1> QED
  BY <1>2, <1>4, <1>5, <1>6, <1>7 DEF Queued

LEMMA QueueMoves ==
  ASSUME pending \in Seq(Txs), pending # << >>, NEW n \in Nat, Queued(pending, n),
         pending' = Tail(pending), NEW t, t = Head(pending)
  PROVE  /\ t \in Txs /\ pending' \in Seq(Txs) /\ Queued(pending', n)
         /\ HasOwn(pending', n) => HasOwn(pending, n) /\ ~Own(t, n)
         /\ Own(t, n) => HasOwn(pending, n)
         /\ WillBuy(pending, n) => WillBuy(pending', n) \/ (Own(t, n) /\ t.action = "ACCUMULATE" /\ t.nonce = signed)
<1>1. PICK l \in Nat : l = Len(pending) /\ l > 0
  OBVIOUS
<1>2. /\ t \in Txs /\ pending' \in Seq(Txs) /\ Len(pending') = l - 1 /\ pending[1] = t
      /\ \A i \in 1..l - 1 : pending'[i] = pending[i + 1]
  BY <1>1
<1>3. /\ \A i \in 1..l - 1 : i + 1 \in 1..l /\ i + 1 # 1
      /\ \A i \in 1..l : i = 1 \/ (i - 1 \in 1..l - 1 /\ i - 1 + 1 = i)
      /\ 1 \in 1..l
  BY <1>1
<1>4. Queued(pending', n)
  <2>1. \A i \in 1..l - 1 : pending'[i].run <= n
    BY <1>1, <1>2, <1>3 DEF Queued
  <2>2. ASSUME NEW i \in 1..l - 1, NEW j \in 1..l - 1, Own(pending'[i], n), Own(pending'[j], n)
        PROVE  i = j
    <3>1. i + 1 = j + 1
      BY <1>1, <1>2, <1>3, <2>2 DEF Queued
    <3> QED
      BY <3>1
  <2> QED
    BY <1>2, <2>1, <2>2 DEF Queued
<1>5. HasOwn(pending', n) => HasOwn(pending, n) /\ ~Own(t, n)
  BY <1>1, <1>2, <1>3 DEF HasOwn, Queued
<1>6. Own(t, n) => HasOwn(pending, n)
  BY <1>1, <1>2, <1>3 DEF HasOwn
<1>7. WillBuy(pending, n) => WillBuy(pending', n) \/ (Own(t, n) /\ t.action = "ACCUMULATE" /\ t.nonce = signed)
  <2> SUFFICES ASSUME NEW i \in 1..l, Own(pending[i], n), pending[i].action = "ACCUMULATE",
                      pending[i].nonce = signed, i # 1
               PROVE  WillBuy(pending', n)
    BY <1>1, <1>2 DEF WillBuy
  <2>1. i - 1 \in 1..l - 1 /\ pending'[i - 1] = pending[i]
    BY <1>2, <1>3
  <2> QED
    BY <1>2, <2>1 DEF WillBuy
<1> QED
  BY <1>2, <1>4, <1>5, <1>6, <1>7

\* The script's steps that send nothing
Quiet == UNCHANGED <<safe, pending, swapped, disturbed, runs>>

LEMMA DemoStarts ==
  ASSUME DemoInv, Demo!Start
  PROVE  DemoInv'
<1>1. /\ runs' = runs + 1 /\ pc' \in {"stopped", "deploy"} /\ swapped' = FALSE /\ disturbed' = FALSE
      /\ pc' # "stopped" => action' \in Swaps
      /\ UNCHANGED <<safe, pending, passed>> /\ signed' = None /\ wethBefore' = None
  BY DEF Demo!Start, Swaps
<1>2. DemoTyped'
  <2>1. runs' \in Nat
    BY <1>1 DEF DemoInv, DemoTyped
  <2> QED
    BY <1>1, <2>1 DEF DemoInv, DemoTyped, Demo!Used
<1>3. Queued(pending, runs + 1) /\ ~HasOwn(pending, runs + 1)
  <2>1. PICK n \in Nat : n = runs
    BY DEF DemoInv, DemoTyped
  <2>2. \A i \in 1..Len(pending) : pending[i].run <= n /\ pending[i].run \in Nat
    <3>1. \A i \in 1..Len(pending) : pending[i] \in Txs
      BY DEF DemoInv, DemoTyped
    <3> QED
      BY <2>1, <3>1 DEF DemoInv, QueueInv, Queued, Txs
  <2>3. \A i \in 1..Len(pending) : pending[i].run <= n + 1 /\ pending[i].run # n + 1
    BY <2>2
  <2> QED
    BY <2>1, <2>3 DEF Queued, HasOwn, Own
<1>4. QueueInv'
  BY <1>1, <1>3 DEF QueueInv
<1>5. RunInv' /\ Bought' /\ Demo!UndisturbedVerdict'
  BY <1>1 DEF DemoInv, RunInv, Bought, Early, Demo!UndisturbedVerdict
<1> QED
  BY <1>2, <1>4, <1>5 DEF DemoInv

LEMMA DemoStops ==
  ASSUME DemoInv, Demo!Stop
  PROVE  DemoInv'
<1>1. pc' = "stopped" /\ Quiet /\ UNCHANGED <<action, signed, wethBefore, passed>>
  BY DEF Demo!Stop, Demo!chain, Quiet
<1>2. DemoTyped' /\ QueueInv'
  BY <1>1 DEF DemoInv, DemoTyped, QueueInv, Quiet
<1>3. RunInv' /\ Bought' /\ Demo!UndisturbedVerdict'
  BY <1>1 DEF DemoInv, RunInv, Bought, Early, Demo!UndisturbedVerdict, Quiet
<1> QED
  BY <1>2, <1>3 DEF DemoInv

\* Looking for the Safe, finding it funded, and receipts
LEMMA DemoMovesOn ==
  ASSUME DemoInv, Quiet, UNCHANGED <<action, signed, wethBefore, passed>>,
         \/ pc \in {"deploy", "deploying"} /\ pc' = "fund"
         \/ pc \in {"fund", "funding"} /\ pc' = "before"
         \/ pc = "swapping" /\ pc' = "after" /\ pending = << >>
  PROVE  DemoInv'
<1>1. DemoTyped'
  BY DEF DemoInv, DemoTyped, Quiet, Demo!Used
<1>2. CASE pc = "swapping" /\ pc' = "after" /\ pending = << >>
  <2>1. ~HasOwn(pending, runs) /\ ~WillBuy(pending, runs) /\ Queued(pending, runs)
    <3>1. Len(pending) = 0
      BY <1>2
    <3> QED
      BY <3>1 DEF HasOwn, WillBuy, DemoInv, QueueInv
  <2>2. QueueInv'
    BY <1>2, <2>1 DEF QueueInv, Quiet
  <2>3. RunInv'
    BY <1>2 DEF DemoInv, RunInv, Quiet, Early
  <2>4. Bought'
    BY <1>2, <2>1 DEF DemoInv, Bought, Quiet
  <2>5. Demo!UndisturbedVerdict'
    BY <1>2 DEF DemoInv, Quiet, Demo!UndisturbedVerdict
  <2> QED
    BY <1>1, <2>2, <2>3, <2>4, <2>5 DEF DemoInv
<1>3. CASE pc \in Early /\ pc' \in {"fund", "before"}
  <2>1. QueueInv'
    BY <1>3 DEF DemoInv, QueueInv, Quiet, Early
  <2>2. RunInv'
    BY <1>3 DEF DemoInv, RunInv, Quiet, Early
  <2>3. Bought' /\ Demo!UndisturbedVerdict'
    BY <1>3 DEF DemoInv, Bought, Quiet, Early, Demo!UndisturbedVerdict
  <2> QED
    BY <1>1, <2>1, <2>2, <2>3 DEF DemoInv
<1> QED
  BY <1>2, <1>3 DEF Early

LEMMA DemoReads ==
  ASSUME DemoInv, Demo!ReadBefore \/ Demo!Sign
  PROVE  DemoInv'
<1>1. Quiet /\ UNCHANGED <<action, passed>>
  BY DEF Demo!ReadBefore, Demo!Sign, Demo!chain, Quiet
<1>2. safe.weth \in Nat /\ safe.nonce \in Nat
  BY DEF DemoInv, DemoTyped, Safes
<1>3. \/ pc = "before" /\ pc' = "sign" /\ wethBefore' = safe.weth /\ signed' = signed
      \/ pc = "sign" /\ pc' = "send" /\ signed' = safe.nonce /\ wethBefore' = wethBefore
  BY DEF Demo!ReadBefore, Demo!Sign
<1>4. DemoTyped'
  BY <1>1, <1>2, <1>3 DEF DemoInv, DemoTyped, Quiet, Demo!Used
<1>5. QueueInv'
  BY <1>1, <1>3 DEF DemoInv, QueueInv, Quiet
<1>6. RunInv'
  BY <1>1, <1>2, <1>3 DEF DemoInv, RunInv, Quiet, Early
<1>7. Bought' /\ Demo!UndisturbedVerdict'
  BY <1>1, <1>3 DEF DemoInv, Bought, Quiet, Demo!UndisturbedVerdict
<1> QED
  BY <1>4, <1>5, <1>6, <1>7 DEF DemoInv

LEMMA Judges ==
  ASSUME Demo!DemoAssumption, DemoInv, Demo!Judge
  PROVE  DemoInv'
<1>1. pc = "after" /\ Quiet /\ UNCHANGED <<action, signed, wethBefore>>
  BY DEF Demo!Judge, Demo!chain, Quiet
<1>2. /\ pc' \in {"stopped", "failed"}
      /\ safe.weth > wethBefore => pc' = "stopped" /\ passed' = [swapped |-> swapped, disturbed |-> disturbed]
      /\ ~(safe.weth > wethBefore) => pc' = "failed" /\ passed' = passed
  BY DEF Demo!Judge
<1>3. DemoTyped'
  BY <1>1, <1>2 DEF DemoInv, DemoTyped, Quiet, Demo!Used
<1>4. PICK w \in Nat : w = safe.weth
  BY DEF DemoInv, DemoTyped, Safes
<1>5. PICK b \in Nat : b = wethBefore
  BY <1>1 DEF DemoInv, RunInv
<1>6. disturbed \/ swapped \/ w = b
  BY <1>1, <1>4, <1>5 DEF DemoInv, RunInv
<1>7. ~disturbed /\ action = "ACCUMULATE" => w > b
  <2>1. ~disturbed /\ action = "ACCUMULATE" => w = b + Gain
    BY <1>1, <1>4, <1>5 DEF DemoInv, Bought
  <2> QED
    BY <1>4, <1>5, <2>1 DEF Demo!DemoAssumption
<1>8. QueueInv' /\ RunInv' /\ Bought'
  <2>1. Queued(pending', runs') /\ pending' = << >> /\ ~HasOwn(pending', runs')
    BY <1>1 DEF DemoInv, QueueInv, Quiet
  <2> QED
    BY <1>1, <1>2, <2>1 DEF DemoInv, QueueInv, RunInv, Bought, Quiet, Early
<1>9. Demo!UndisturbedVerdict'
  <2>1. CASE w > b
    <3>1. pc' = "stopped" /\ passed' = [swapped |-> swapped, disturbed |-> disturbed]
      BY <1>2, <1>4, <1>5, <2>1
    <3>2. passed'.swapped = swapped /\ passed'.disturbed = disturbed
      BY <3>1
    <3>3. disturbed \/ swapped
      BY <1>4, <1>5, <1>6, <2>1
    <3> QED
      BY <3>1, <3>2, <3>3 DEF Demo!UndisturbedVerdict
  <2>2. CASE ~(w > b)
    <3>1. pc' = "failed" /\ passed' = passed /\ disturbed' = disturbed /\ action' = action
      BY <1>1, <1>2, <1>4, <1>5, <2>2 DEF Quiet
    <3>2. ~disturbed => action = "HEDGE"
      BY <1>1, <1>7, <2>2 DEF DemoInv, RunInv, Swaps
    <3> QED
      BY <3>1, <3>2 DEF DemoInv, Demo!UndisturbedVerdict
  <2> QED
    BY <2>1, <2>2
<1> QED
  BY <1>3, <1>8, <1>9 DEF DemoInv

\* Before the swap the script sends the Safe's deployment and its top-up.
LEMMA SendEarly ==
  ASSUME DemoInv, NEW t \in Txs, t.run = runs, t.kind # "batch", pending' = Append(pending, t),
         pc \in Early, pc' \in {"deploying", "funding"},
         UNCHANGED <<safe, swapped, disturbed, runs, action, signed, wethBefore, passed>>
  PROVE  DemoInv'
<1>1. runs \in Nat /\ pending \in Seq(Txs) /\ Queued(pending, runs) /\ ~Own(t, runs)
  BY DEF DemoInv, DemoTyped, QueueInv, Own
<1>2. pending' \in Seq(Txs) /\ Queued(pending', runs) /\ (HasOwn(pending', runs) <=> HasOwn(pending, runs))
  BY <1>1, QueueGrows
<1>3. DemoTyped'
  BY <1>2 DEF DemoInv, DemoTyped, Demo!Used
<1>4. QueueInv'
  BY <1>2 DEF DemoInv, QueueInv, Early
<1>5. RunInv' /\ Bought' /\ Demo!UndisturbedVerdict'
  BY DEF DemoInv, RunInv, Bought, Demo!UndisturbedVerdict, Early
<1> QED
  BY <1>3, <1>4, <1>5 DEF DemoInv

LEMMA DeploysSafe ==
  ASSUME DemoInv, Demo!DeploySafe
  PROVE  DemoInv'
<1>1. CASE safe.deployed
  BY <1>1, DemoMovesOn DEF Demo!DeploySafe, Quiet
<1>2. CASE ~safe.deployed
  <2> DEFINE t == Demo!Tx("deploy", None, 0, 0)
  <2>1. t \in Txs /\ t.run = runs /\ t.kind # "batch"
    <3>1. runs \in Nat
      BY DEF DemoInv, DemoTyped
    <3> QED
      BY <3>1 DEF Demo!Tx, Txs
  <2>2. pc = "deploy" /\ pc' = "deploying" /\ pending' = Append(pending, t)
    BY <1>2 DEF Demo!DeploySafe, Demo!Sent
  <2>3. UNCHANGED <<safe, swapped, disturbed, runs, action, signed, wethBefore, passed>>
    BY DEF Demo!DeploySafe
  <2> HIDE DEF t
  <2> QED
    BY <2>1, <2>2, <2>3, SendEarly DEF Early
<1> QED
  BY <1>1, <1>2

LEMMA FundsSafe ==
  ASSUME Demo!DemoAssumption, DemoInv, Demo!Fund
  PROVE  DemoInv'
<1>1. CASE safe.usdc >= Need
  BY <1>1, DemoMovesOn DEF Demo!Fund, Quiet
<1>2. CASE ~(safe.usdc >= Need)
  <2> DEFINE t == Demo!Tx("transfer", None, Need - safe.usdc, 0)
  <2>1. t \in Txs /\ t.run = runs /\ t.kind # "batch"
    <3>1. runs \in Nat /\ safe.usdc \in Nat
      BY DEF DemoInv, DemoTyped, Safes
    <3>2. Need - safe.usdc \in Nat
      BY <1>2, <3>1 DEF Demo!DemoAssumption
    <3> QED
      BY <3>1, <3>2 DEF Demo!Tx, Txs
  <2>2. pc = "fund" /\ pc' = "funding" /\ pending' = Append(pending, t)
    BY <1>2 DEF Demo!Fund, Demo!Sent
  <2>3. UNCHANGED <<safe, swapped, disturbed, runs, action, signed, wethBefore, passed>>
    BY DEF Demo!Fund
  <2> HIDE DEF t
  <2> QED
    BY <2>1, <2>2, <2>3, SendEarly DEF Early
<1> QED
  BY <1>1, <1>2

\* The batch is sent when it would succeed.
LEMMA SendsBatch ==
  ASSUME DemoInv, Demo!Send
  PROVE  DemoInv'
<1> DEFINE t == Demo!Tx("batch", action, 0, signed)
<1>1. /\ pc = "send" /\ pc' = "swapping" /\ pending' = Append(pending, t)
      /\ safe.deployed /\ signed = safe.nonce
      /\ action = "ACCUMULATE" => safe.usdc >= 1
      /\ UNCHANGED <<safe, swapped, disturbed, runs, action, signed, wethBefore, passed>>
  BY DEF Demo!Send, Demo!Sent, Demo!Executes
<1>2. /\ runs \in Nat /\ pending \in Seq(Txs) /\ Queued(pending, runs) /\ ~HasOwn(pending, runs) /\ ~swapped
      /\ action \in Swaps /\ signed \in Nat /\ wethBefore \in Nat
      /\ disturbed \/ safe.weth = wethBefore
  BY <1>1 DEF DemoInv, DemoTyped, QueueInv, RunInv, Early
<1>3. t \in Txs /\ t.run = runs /\ t.action = action /\ t.nonce = signed /\ Own(t, runs)
  BY <1>2 DEF Demo!Tx, Txs, Own
<1> HIDE DEF t
<1>4. /\ pending' \in Seq(Txs) /\ Queued(pending', runs)
      /\ action = "ACCUMULATE" => WillBuy(pending', runs)
  BY <1>1, <1>2, <1>3, QueueGrows
<1>5. DemoTyped'
  BY <1>1, <1>4 DEF DemoInv, DemoTyped, Demo!Used
<1>6. QueueInv'
  BY <1>1, <1>2, <1>4 DEF QueueInv
<1>7. RunInv'
  BY <1>1, <1>2 DEF RunInv, Early
<1>8. Bought'
  BY <1>1, <1>2, <1>4 DEF Bought, WillBuy
<1>9. Demo!UndisturbedVerdict'
  BY <1>1 DEF DemoInv, Demo!UndisturbedVerdict
<1> QED
  BY <1>5, <1>6, <1>7, <1>8, <1>9 DEF DemoInv

\* A batch executed moves the balances.
LEMMA BatchMoves ==
  ASSUME Demo!DemoAssumption, safe \in Safes, NEW act, NEW n, Demo!Executes(act, n)
  PROVE  /\ Demo!After(act) \in Safes
         /\ act = "ACCUMULATE" => Demo!After(act).weth = safe.weth + Gain
<1>1. safe.usdc \in Nat /\ safe.weth \in Nat /\ safe.nonce \in Nat
  BY DEF Safes
<1>2. CASE act = "ACCUMULATE"
  <2>1. safe.usdc - 1 \in Nat /\ safe.weth + Gain \in Nat /\ safe.nonce + 1 \in Nat
    BY <1>1, <1>2 DEF Demo!Executes, Demo!DemoAssumption
  <2> QED
    BY <1>2, <2>1 DEF Demo!After, Safes
<1>3. CASE act # "ACCUMULATE"
  <2>1. safe.weth - 1 \in Nat /\ safe.nonce + 1 \in Nat
    BY <1>1, <1>3 DEF Demo!Executes
  <2> QED
    BY <1>3, <2>1 DEF Demo!After, Safes
<1> QED
  BY <1>2, <1>3

LEMMA OthersSwap ==
  ASSUME Demo!DemoAssumption, DemoInv, Demo!ForeignBatch
  PROVE  DemoInv'
<1>1. /\ disturbed' = TRUE
      /\ UNCHANGED <<pending, swapped, pc, action, signed, wethBefore, runs, passed>>
  BY DEF Demo!ForeignBatch, Demo!script
<1>2. safe' \in Safes
  BY BatchMoves DEF Demo!ForeignBatch, DemoInv, DemoTyped
<1>3. DemoTyped' /\ QueueInv'
  BY <1>1, <1>2 DEF DemoInv, DemoTyped, QueueInv
<1>4. RunInv' /\ Bought' /\ Demo!UndisturbedVerdict'
  BY <1>1 DEF DemoInv, RunInv, Bought, Demo!UndisturbedVerdict
<1> QED
  BY <1>3, <1>4 DEF DemoInv

\* What is mined is a batch that is executed, or leaves the WETH and the nonce as they are.
LEMMA DemoMines ==
  ASSUME Demo!DemoAssumption, DemoInv, Demo!Mine
  PROVE  DemoInv'
<1>1. pending # << >> /\ pending' = Tail(pending) /\ UNCHANGED <<pc, action, signed, wethBefore, runs, passed>>
  BY DEF Demo!Mine, Demo!script
<1>2. PICK t : t = Head(pending)
  OBVIOUS
<1> DEFINE ok == t.kind = "batch" /\ Demo!Executes(t.action, t.nonce)
<1>3. /\ safe' = CASE t.kind = "deploy"   -> [safe EXCEPT !.deployed = TRUE]
                   [] t.kind = "transfer" -> [safe EXCEPT !.usdc = @ + t.amount]
                   [] ok                  -> Demo!After(t.action)
                   [] OTHER               -> safe
      /\ swapped' = (swapped \/ (ok /\ t.run = runs))
      /\ disturbed' = (disturbed \/ (ok /\ t.run # runs))
  BY <1>2 DEF Demo!Mine
<1>4. runs \in Nat /\ pending \in Seq(Txs) /\ Queued(pending, runs) /\ safe \in Safes
  BY DEF DemoInv, DemoTyped, QueueInv
<1>5. /\ t \in Txs /\ pending' \in Seq(Txs) /\ Queued(pending', runs)
      /\ HasOwn(pending', runs) => HasOwn(pending, runs) /\ ~Own(t, runs)
      /\ Own(t, runs) => HasOwn(pending, runs)
      /\ \/ ~WillBuy(pending, runs) \/ WillBuy(pending', runs)
         \/ Own(t, runs) /\ t.action = "ACCUMULATE" /\ t.nonce = signed
  BY <1>1, <1>2, <1>4, QueueMoves
<1>6. ASSUME ~ok
      PROVE  DemoInv'
  <2>1. (swapped' <=> swapped) /\ (disturbed' <=> disturbed)
    BY <1>3, <1>6
  <2>2. /\ safe' \in Safes /\ safe'.weth = safe.weth /\ safe'.nonce = safe.nonce
        /\ safe.deployed => safe'.deployed
        /\ safe.usdc >= 1 => safe'.usdc >= 1
    <3>1. CASE t.kind = "deploy"
      BY <1>3, <1>4, <3>1 DEF Safes
    <3>2. CASE t.kind = "transfer"
      <4>1. safe.usdc + t.amount \in Nat /\ (safe.usdc >= 1 => safe.usdc + t.amount >= 1)
        BY <1>4, <1>5 DEF Safes, Txs
      <4>2. safe' = [safe EXCEPT !.usdc = safe.usdc + t.amount]
        BY <1>3, <3>2
      <4> QED
        BY <1>4, <4>1, <4>2 DEF Safes
    <3>3. CASE t.kind = "batch"
      BY <1>3, <1>4, <1>6, <3>3
    <3> QED
      BY <1>5, <3>1, <3>2, <3>3 DEF Txs
  <2>3. ~Own(t, runs) \/ ~(safe.deployed /\ safe.nonce = t.nonce /\ safe.usdc >= 1 /\ t.action = "ACCUMULATE")
    BY <1>6 DEF Own, Demo!Executes
  <2>4. DemoTyped'
    BY <1>1, <1>5, <2>2 DEF DemoInv, DemoTyped, Demo!Used
  <2>5. QueueInv'
    BY <1>1, <1>5, <2>1 DEF DemoInv, QueueInv
  <2>6. RunInv'
    BY <1>1, <2>1, <2>2 DEF DemoInv, RunInv, Early
  <2>7. Bought'
    BY <1>1, <1>5, <2>1, <2>2, <2>3 DEF DemoInv, Bought, WillBuy
  <2>8. Demo!UndisturbedVerdict'
    BY <1>1, <2>1 DEF DemoInv, Demo!UndisturbedVerdict
  <2> QED
    BY <2>4, <2>5, <2>6, <2>7, <2>8 DEF DemoInv
<1>7. ASSUME ok
      PROVE  DemoInv'
  <2>1. t.kind = "batch" /\ Demo!Executes(t.action, t.nonce) /\ safe' = Demo!After(t.action)
    BY <1>3, <1>7
  <2>2. /\ safe' \in Safes
        /\ t.action = "ACCUMULATE" => safe'.weth = safe.weth + Gain
    BY <1>4, <2>1, BatchMoves
  <2>3. DemoTyped'
    BY <1>1, <1>5, <2>2 DEF DemoInv, DemoTyped, Demo!Used
  <2>4. CASE t.run = runs
    <3>1. Own(t, runs) /\ HasOwn(pending, runs) /\ ~HasOwn(pending', runs)
      BY <1>5, <2>1, <2>4 DEF Own
    <3>2. swapped' /\ (disturbed' <=> disturbed) /\ pc \in {"swapping", "stopped"} /\ ~swapped
      BY <1>3, <1>7, <2>4, <3>1 DEF DemoInv, QueueInv
    <3>3. QueueInv'
      BY <1>1, <1>5, <3>1, <3>2 DEF QueueInv
    <3>4. RunInv'
      BY <1>1, <3>2 DEF DemoInv, RunInv, Early
    <3>5. Bought'
      <4> SUFFICES ASSUME pc = "swapping", ~disturbed, action = "ACCUMULATE"
                   PROVE  safe'.weth = wethBefore + Gain
        BY <1>1, <3>2 DEF Bought
      <4>1. WillBuy(pending, runs) /\ safe.weth = wethBefore
        BY <3>2 DEF DemoInv, Bought, RunInv
      <4>2. ~WillBuy(pending', runs)
        BY <3>1 DEF WillBuy, HasOwn
      <4> QED
        BY <1>5, <2>2, <4>1, <4>2
    <3>6. Demo!UndisturbedVerdict'
      BY <1>1, <3>2 DEF DemoInv, Demo!UndisturbedVerdict
    <3> QED
      BY <2>3, <3>3, <3>4, <3>5, <3>6 DEF DemoInv
  <2>5. CASE t.run # runs
    <3>1. (swapped' <=> swapped) /\ disturbed'
      BY <1>3, <1>7, <2>5
    <3>2. QueueInv'
      BY <1>1, <1>5, <3>1 DEF DemoInv, QueueInv
    <3>3. RunInv' /\ Bought' /\ Demo!UndisturbedVerdict'
      BY <1>1, <3>1 DEF DemoInv, RunInv, Bought, Demo!UndisturbedVerdict, Early
    <3> QED
      BY <2>3, <3>2, <3>3 DEF DemoInv
  <2> QED
    BY <2>4, <2>5
<1> QED
  BY <1>6, <1>7

LEMMA DemoInvariance ==
  ASSUME Demo!DemoAssumption
  PROVE  Demo!Spec => []DemoInv
<1>1. Demo!Init => DemoInv
  <2> SUFFICES ASSUME Demo!Init
               PROVE  DemoInv
    OBVIOUS
  <2>1. /\ safe = [deployed |-> FALSE, nonce |-> 0, usdc |-> 0, weth |-> 0]
        /\ pending = << >> /\ pc = "stopped" /\ signed = None /\ wethBefore = None
        /\ runs = 0 /\ swapped = FALSE /\ passed = None
    BY DEF Demo!Init
  <2>2. safe \in Safes /\ pending \in Seq(Txs) /\ Len(pending) = 0
    BY <2>1 DEF Safes
  <2>3. Queued(pending, runs) /\ ~HasOwn(pending, runs)
    BY <2>2 DEF Queued, HasOwn
  <2> QED
    BY <2>1, <2>2, <2>3 DEF DemoInv, DemoTyped, QueueInv, RunInv, Bought, Early, Demo!UndisturbedVerdict
<1>2. DemoInv /\ UNCHANGED Demo!vars => DemoInv'
  BY DEF DemoInv, DemoTyped, QueueInv, RunInv, Bought, WillBuy, Demo!UndisturbedVerdict, Demo!vars,
     Demo!chain, Demo!script
<1>3. DemoInv /\ Demo!Receipt => DemoInv'
  BY DemoMovesOn DEF Demo!Receipt, Demo!chain, Quiet
<1>4. DemoInv /\ [Demo!Next]_(Demo!vars) => DemoInv'
  BY <1>2, <1>3, DemoMines, OthersSwap, DemoStarts, DemoStops, DeploysSafe, FundsSafe, DemoReads,
     SendsBatch, Judges DEF Demo!Next
<1> QED
  BY <1>1, <1>4, PTL DEF Demo!Spec

\* The demo's verdict is right for a run that accumulates, unless somebody else's batch was executed
\* while it ran: for any number of runs, other batches and amounts.
THEOREM TheVerdictIsRight ==
  ASSUME Demo!DemoAssumption
  PROVE  Demo!Spec => []UndisturbedVerdict
<1>1. DemoInv => Demo!UndisturbedVerdict
  BY DEF DemoInv
<1> QED
  BY <1>1, DemoInvariance, PTL DEF UndisturbedVerdict

\* The demo's types: neither a balance nor a transfer goes below zero.
THEOREM DemoTypeCorrect ==
  ASSUME Demo!DemoAssumption
  PROVE  Demo!Spec => []Demo!TypeOK
<1>1. DemoInv => Demo!TypeOK
  <2> SUFFICES ASSUME DemoInv
               PROVE  Demo!TypeOK
    OBVIOUS
  <2>1. \A i \in 1..Len(pending) : pending[i] \in Txs
    BY DEF DemoInv, DemoTyped
  <2>2. \A i \in 1..Len(pending) : pending[i].amount \in Nat
    BY <2>1 DEF Txs
  <2> QED
    BY <2>2 DEF DemoInv, DemoTyped, Safes, Demo!TypeOK
<1> QED
  BY <1>1, DemoInvariance, PTL

-----------------------------------------------------------------------------
(***************************************************************************)
(* Induction and recursion over the natural numbers, for sets and functions*)
(* instead of operators.                                                   *)
(***************************************************************************)

\* A set of naturals that is not empty has a least element.
LEMMA LeastOfASet == ASSUME NEW T \in SUBSET Nat, T # {} PROVE \E n \in T : \A m \in T : n <= m
<1> DEFINE R == OpToRel(<, Nat)
<1>1. IsWellFoundedOn(R, Nat)
  BY NatLessThanWellFounded
<1>2. \A x, y \in Nat : x < y => <<x, y>> \in R
  BY DEF OpToRel
<1> HIDE DEF R
<1>3. \E x \in T : \A y \in T : ~ (<<y, x>> \in R)
  BY <1>1, WFMin
<1>4. PICK x \in T : \A y \in T : ~ (<<y, x>> \in R)
  BY <1>3
<1>5. \A y \in T : x \in Nat /\ y \in Nat /\ ~(y < x)
  BY <1>4, <1>2
<1> QED BY <1>5

\* A set of naturals that has 0 and every successor has them all.
LEMMA NatSetInduction ==
  ASSUME NEW T \in SUBSET Nat, 0 \in T, \A n \in T : n + 1 \in T PROVE T = Nat
<1>1. SUFFICES ASSUME T # Nat PROVE FALSE OBVIOUS
<1>2. PICK n \in Nat \ T : \A m \in Nat \ T : n <= m BY <1>1, LeastOfASet
<1>3. n - 1 \in Nat /\ n - 1 \notin Nat \ T BY <1>2
<1> QED BY <1>3

\* A start and a step define one function.
LEMMA Recursion ==
  ASSUME NEW b \in Nat, NEW g \in [Nat \X Nat -> Nat]
  PROVE  \E f \in [Nat -> Nat] : f[0] = b /\ \A n \in Nat : f[n + 1] = g[<<n, f[n]>>]
<1> DEFINE Upto(n) == {h \in [0..n -> Nat] : h[0] = b /\ \A i \in 0..n - 1 : h[i + 1] = g[<<i, h[i]>>]}
           T == {n \in Nat : \E h : h \in Upto(n)}
           U == {i \in Nat : \A m, n \in Nat : i <= m /\ i <= n => \A h \in Upto(m), k \in Upto(n) : h[i] = k[i]}
<1>a. ASSUME NEW n \in Nat, NEW h \in Upto(n)
      PROVE  /\ h \in [0..n -> Nat] /\ h[0] = b 
             /\ \A i \in Nat : i < n => h[i + 1] = g[<<i, h[i]>>]
  <2>1. \A i \in Nat : i < n => i \in 0..n - 1
    OBVIOUS
  <2> QED BY <2>1
<1>b. ASSUME NEW n \in Nat, NEW h \in [0..n -> Nat], h[0] = b, 
             \A i \in 0..n - 1 : h[i + 1] = g[<<i, h[i]>>]
      PROVE  h \in Upto(n)
  BY <1>b
<1> HIDE DEF Upto
<1>1. T = Nat
  <2>1. 0 \in T
    <3> DEFINE h == [i \in 0..0 |-> b]
    <3>1. h \in [0..0 -> Nat] /\ h[0] = b /\ \A i \in 0..0 - 1 : h[i + 1] = g[<<i, h[i]>>]
      OBVIOUS
    <3> HIDE DEF h
    <3>2. h \in Upto(0)
      BY <1>b, <3>1
    <3> QED BY <3>2
  <2>2. ASSUME NEW n \in T PROVE n + 1 \in T
    <3>1. PICK h : h \in Upto(n)
      OBVIOUS
    <3> DEFINE k == [i \in 0..n + 1 |-> IF i = n + 1 THEN g[<<n, h[n]>>] ELSE h[i]]
    <3>0. n \in Nat OBVIOUS
    <3>2. h[n] \in Nat /\ \A i \in 0..n : h[i] \in Nat
      BY <1>a, <3>1, <3>0
    <3>3. g[<<n, h[n]>>] \in Nat
      BY <3>2, <3>0
    <3>4. k \in [0..n + 1 -> Nat]
      BY <3>0, <3>2, <3>3
    <3>5. ASSUME NEW i \in 0..(n + 1) - 1 PROVE k[i + 1] = g[<<i, k[i]>>]
      <4>1. CASE i = n
        <5>1. k[n + 1] = g[<<n, h[n]>>] /\ k[n] = h[n]
          BY <3>0
        <5> QED BY <5>1, <4>1
      <4>2. CASE i # n
        <5>1. i \in Nat /\ i < n /\ i + 1 \in 0..n /\ i \in 0..n /\ i + 1 # n + 1 /\ i # n + 1
          BY <3>0, <4>2
        <5>2. k[i + 1] = h[i + 1] /\ k[i] = h[i]
          BY <3>0, <5>1
        <5> QED BY <5>1, <5>2, <1>a, <3>0, <3>1
      <4> QED BY <4>1, <4>2
    <3>6. k[0] = b
      BY <1>a, <3>0, <3>1
    <3> HIDE DEF k
    <3>7. k \in Upto(n + 1)
      <4>1. n + 1 \in Nat
        BY <3>0
      <4>2. \A i \in 0..(n + 1) - 1 : k[i + 1] = g[<<i, k[i]>>]
        BY <3>5
      <4> QED BY <1>b, <3>4, <3>6, <4>1, <4>2, Zenon
    <3> QED BY <3>7, <3>0
  <2> HIDE DEF T
  <2>3. T \in SUBSET Nat BY DEF T
  <2> QED BY <2>1, <2>2, <2>3, NatSetInduction
<1>2. U = Nat
  <2>1. 0 \in U
    BY <1>a
  <2>2. ASSUME NEW i \in U PROVE i + 1 \in U
    <3>1. ASSUME NEW m \in Nat, NEW n \in Nat, i + 1 <= m, i + 1 <= n, NEW h \in Upto(m), NEW k \in Upto(n)
          PROVE  h[i + 1] = k[i + 1]
      <4>1. i \in Nat /\ i < m /\ i < n /\ i <= m /\ i <= n
        BY <3>1
      <4>2. h[i] = k[i]
        BY <3>1, <4>1
      <4>3. h[i + 1] = g[<<i, h[i]>>] /\ k[i + 1] = g[<<i, k[i]>>]
        BY <3>1, <4>1, <1>a
      <4> QED BY <4>2, <4>3
    <3>2. i + 1 \in Nat
      OBVIOUS
    <3> QED BY <3>1, <3>2
  <2> HIDE DEF U
  <2>3. U \in SUBSET Nat BY DEF U
  <2> QED BY <2>1, <2>2, <2>3, NatSetInduction
<1> DEFINE H(n) == CHOOSE h : h \in Upto(n)
           f == [n \in Nat |-> H(n)[n]]
<1>3. \A n \in Nat : H(n) \in Upto(n)
  BY <1>1
<1> HIDE DEF H
<1>4. f \in [Nat -> Nat]
  <2>1. \A n \in Nat : H(n)[n] \in Nat
    <3> SUFFICES ASSUME NEW n \in Nat PROVE H(n)[n] \in Nat
      OBVIOUS
    <3>1. H(n) \in [0..n -> Nat] /\ n \in 0..n
      BY <1>3, <1>a
    <3> QED BY <3>1
  <2> QED BY <2>1
<1>5. f[0] = b
  BY <1>3, <1>a
<1>6. ASSUME NEW n \in Nat PROVE f[n + 1] = g[<<n, f[n]>>]
  <2>1. H(n) \in Upto(n) /\ H(n + 1) \in Upto(n + 1)
    BY <1>3
  <2>2. f[n] = H(n)[n] /\ f[n + 1] = H(n + 1)[n + 1]
    OBVIOUS
  <2> HIDE DEF f
  <2>3. H(n + 1)[n + 1] = g[<<n, H(n + 1)[n]>>]
    BY <2>1, <1>a
  <2>4. n \in U
    BY <1>2
  <2>5. H(n)[n] = H(n + 1)[n]
    BY <2>4, <2>1
  <2> QED BY <2>2, <2>3, <2>5
<1> HIDE DEF f
<1> QED BY <1>4, <1>5, <1>6

-----------------------------------------------------------------------------
(***************************************************************************)
(* Prices.                                                                 *)
(***************************************************************************)

\* The powers of ten are numbers and obey their definition.
LEMMA Powers ==
  /\ \A n \in Nat : Price!Pow10[n] \in Nat \ {0}
  /\ Price!Pow10[0] = 1
  /\ \A n \in Nat : Price!Pow10[n + 1] = 10 * Price!Pow10[n]
<1> DEFINE g == [p \in Nat \X Nat |-> 10 * p[2]]
           Pow == Price!Pow10
<1>1. 1 \in Nat /\ g \in [Nat \X Nat -> Nat]
  OBVIOUS
<1>2. \A n, v \in Nat : g[<<n, v>>] = 10 * v
  OBVIOUS
<1> HIDE DEF g
<1>3. PICK f \in [Nat -> Nat] : f[0] = 1 /\ \A n \in Nat : f[n + 1] = g[<<n, f[n]>>]
  BY <1>1, Recursion
<1>4. \A n \in Nat : f[n] = IF n = 0 THEN 1 ELSE 10 * f[n - 1]
  <2> SUFFICES ASSUME NEW n \in Nat, n # 0
               PROVE  f[n] = 10 * f[n - 1]
    BY <1>3
  <2>1. n - 1 \in Nat /\ (n - 1) + 1 = n
    OBVIOUS
  <2>2. f[(n - 1) + 1] = g[<<n - 1, f[n - 1]>>] /\ f[n - 1] \in Nat
    BY <2>1, <1>3
  <2> QED
    BY <2>1, <2>2, <1>2
<1>5. f = [n \in Nat |-> IF n = 0 THEN 1 ELSE 10 * f[n - 1]]
  BY <1>4
<1>6. Pow = [n \in Nat |-> IF n = 0 THEN 1 ELSE 10 * Pow[n - 1]]
  BY <1>5, Zenon DEF Price!Pow10
<1> HIDE DEF Pow
<1>7. \A n \in Nat : Pow[n] = IF n = 0 THEN 1 ELSE 10 * Pow[n - 1]
  BY <1>6
<1> DEFINE T == {n \in Nat : Pow[n] \in Nat \ {0}}
<1>8. T = Nat
  <2>1. 0 \in T
    BY <1>7
  <2>2. ASSUME NEW n \in T
        PROVE  n + 1 \in T
    BY <1>7
  <2> HIDE DEF T
  <2>3. T \in SUBSET Nat
    BY DEF T
  <2> QED
    BY <2>1, <2>2, <2>3, NatSetInduction
<1>9. \A n \in Nat : Pow[n + 1] = 10 * Pow[n]
  BY <1>7
<1>10. Pow[0] = 1
  BY <1>7
<1>11. \A n \in Nat : Pow[n] \in Nat \ {0}
  BY <1>8
<1> QED
  BY <1>9, <1>10, <1>11 DEF Pow

\* Exponents add up.
LEMMA PowersAdd ==
  ASSUME NEW m \in Nat, NEW n \in Nat
  PROVE  Price!Pow10[m + n] = Price!Pow10[m] * Price!Pow10[n]
<1> DEFINE T == {k \in Nat : Price!Pow10[m + k] = Price!Pow10[m] * Price!Pow10[k]}
<1>1. 0 \in T
  BY Powers
<1>2. ASSUME NEW k \in T
      PROVE  k + 1 \in T
  <2>1. k \in Nat /\ m + k \in Nat /\ m + (k + 1) = (m + k) + 1
    OBVIOUS
  <2>2. /\ Price!Pow10[(m + k) + 1] = 10 * Price!Pow10[m + k]
        /\ Price!Pow10[k + 1] = 10 * Price!Pow10[k]
        /\ Price!Pow10[m] \in Nat /\ Price!Pow10[k] \in Nat
    BY <2>1, Powers
  <2>3. Price!Pow10[m + k] = Price!Pow10[m] * Price!Pow10[k]
    OBVIOUS
  <2>4. \A a, b \in Nat : 10 * (a * b) = a * (10 * b)
    OBVIOUS
  <2>5. 10 * (Price!Pow10[m] * Price!Pow10[k]) = Price!Pow10[m] * (10 * Price!Pow10[k])
    BY <2>2, <2>4
  <2>6. Price!Pow10[m + (k + 1)] = Price!Pow10[m] * Price!Pow10[k + 1]
    BY <2>1, <2>2, <2>3, <2>5
  <2> QED
    BY <2>1, <2>6
<1> HIDE DEF T
<1>3. T \in SUBSET Nat
  BY DEF T
<1>4. n \in T
  BY <1>1, <1>2, <1>3, NatSetInduction
<1> QED
  BY <1>4 DEF T

\* v[i] is the number that the first i digits of s say.
Reads(v, s) ==
  /\ v \in [0..Len(s) -> Nat]
  /\ v[0] = 0
  /\ \A i \in 1..Len(s) : v[i] = 10 * v[i - 1] + s[i]

\* BigInt reads a string of digits from the left.
LEMMA ValueReads ==
  ASSUME NEW s \in Seq(0..9)
  PROVE  \E v : Reads(v, s) /\ Price!Value(s, 10) = v[Len(s)]
<1> DEFINE next(n, a) == IF n < Len(s) THEN 10 * a + s[n + 1] ELSE 0
           g == [p \in Nat \X Nat |-> next(p[1], p[2])]
<1>1. Len(s) \in Nat /\ \A i \in 1..Len(s) : s[i] \in 0..9
  OBVIOUS
<1>2. \A n, a \in Nat : next(n, a) \in Nat
  <2> SUFFICES ASSUME NEW n \in Nat, NEW a \in Nat, n < Len(s)
               PROVE  10 * a + s[n + 1] \in Nat
    OBVIOUS
  <2>1. n + 1 \in 1..Len(s)
    BY <1>1
  <2> QED
    BY <2>1, <1>1
<1>3. g \in [Nat \X Nat -> Nat] /\ \A n, a \in Nat : g[<<n, a>>] = next(n, a)
  BY <1>2
<1>4. 0 \in Nat
  OBVIOUS
<1> HIDE DEF g
<1>5. PICK f \in [Nat -> Nat] : f[0] = 0 /\ \A n \in Nat : f[n + 1] = g[<<n, f[n]>>]
  BY <1>3, <1>4, Recursion
<1> DEFINE w == [i \in 0..Len(s) |-> f[i]]
<1>6. ASSUME NEW i \in 1..Len(s)
      PROVE  w[i] = 10 * w[i - 1] + s[i]
  <2>1. i - 1 \in Nat /\ (i - 1) + 1 = i /\ i - 1 < Len(s) /\ i \in 0..Len(s) /\ i - 1 \in 0..Len(s)
    BY <1>1
  <2>2. f[(i - 1) + 1] = next(i - 1, f[i - 1])
    BY <2>1, <1>3, <1>5
  <2> QED
    BY <2>1, <2>2
<1>7. w \in [0..Len(s) -> Nat] /\ w[0] = 0
  BY <1>1, <1>5
<1> HIDE DEF w
<1>8. w = [i \in 0..Len(s) |-> IF i = 0 THEN 0 ELSE 10 * w[i - 1] + s[i]]
  <2>1. \A i \in 0..Len(s) : i # 0 => i \in 1..Len(s)
    BY <1>1
  <2> QED
    BY <2>1, <1>6, <1>7
<1> DEFINE v == CHOOSE v : v = [i \in 0..Len(s) |-> IF i = 0 THEN 0 ELSE 10 * v[i - 1] + s[i]]
<1>9. v = [i \in 0..Len(s) |-> IF i = 0 THEN 0 ELSE 10 * v[i - 1] + s[i]]
  BY <1>8, Zenon
<1>10. Price!Value(s, 10) = v[Len(s)]
  BY Zenon DEF Price!Value
<1> HIDE DEF v
<1>11. \A i \in 0..Len(s) : v[i] = IF i = 0 THEN 0 ELSE 10 * v[i - 1] + s[i]
  BY <1>9, Zenon
<1> DEFINE T == {n \in Nat : n <= Len(s) => v[n] \in Nat}
<1>12. T = Nat
  <2>1. 0 \in T
    BY <1>1, <1>11
  <2>2. ASSUME NEW n \in T
        PROVE  n + 1 \in T
    <3>1. n \in Nat /\ n + 1 \in Nat /\ (n + 1) - 1 = n /\ n + 1 # 0
      OBVIOUS
    <3>2. ASSUME n + 1 <= Len(s)
          PROVE  v[n + 1] \in Nat
      <4>1. n <= Len(s) /\ n + 1 \in 0..Len(s) /\ n + 1 \in 1..Len(s)
        BY <3>1, <3>2, <1>1
      <4>2. v[n] \in Nat /\ s[n + 1] \in 0..9
        BY <4>1, <1>1
      <4>3. v[n + 1] = 10 * v[n] + s[n + 1]
        BY <4>1, <3>1, <1>11
      <4>4. \A a \in Nat, d \in 0..9 : 10 * a + d \in Nat
        OBVIOUS
      <4>5. 10 * v[n] + s[n + 1] \in Nat
        BY <4>2, <4>4
      <4> QED
        BY <4>3, <4>5
    <3> QED
      BY <3>1, <3>2
  <2> HIDE DEF T
  <2>3. T \in SUBSET Nat
    BY DEF T
  <2> QED
    BY <2>1, <2>2, <2>3, NatSetInduction
<1>13. \A i \in 0..Len(s) : v[i] \in Nat
  <2>1. \A i \in 0..Len(s) : i \in T /\ i <= Len(s)
    BY <1>12, <1>1
  <2> QED
    BY <2>1
<1>14. v \in [0..Len(s) -> Nat]
  BY <1>9, <1>11, <1>13
<1>15. v[0] = 0 /\ \A i \in 1..Len(s) : v[i] = 10 * v[i - 1] + s[i]
  <2>1. 0 \in 0..Len(s) /\ \A i \in 1..Len(s) : i \in 0..Len(s) /\ i # 0
    BY <1>1
  <2> QED
    BY <2>1, <1>11
<1>16. Reads(v, s)
  BY <1>14, <1>15 DEF Reads
<1> QED
  BY <1>10, <1>16

\* Digits say less than the power of ten with as many zeros.
LEMMA ReadsBounded ==
  ASSUME NEW s \in Seq(0..9), NEW v, Reads(v, s), NEW i \in 0..Len(s)
  PROVE  v[i] \in Nat /\ v[i] < Price!Pow10[i]
<1> DEFINE T == {n \in Nat : n <= Len(s) => v[n] < Price!Pow10[n]}
<1>1. Len(s) \in Nat /\ v \in [0..Len(s) -> Nat]
  BY DEF Reads
<1>2. 0 \in T
  <2>1. v[0] = 0 /\ Price!Pow10[0] = 1
    BY Powers DEF Reads
  <2> QED
    BY <2>1
<1>3. ASSUME NEW n \in T
      PROVE  n + 1 \in T
  <2>1. n \in Nat /\ n + 1 \in Nat
    OBVIOUS
  <2>2. ASSUME n + 1 <= Len(s)
        PROVE  v[n + 1] < Price!Pow10[n + 1]
    <3>1. n \in 0..Len(s) /\ n + 1 \in 1..Len(s) /\ (n + 1) - 1 = n /\ n <= Len(s)
      BY <2>1, <2>2, <1>1
    <3>2. v[n + 1] = 10 * v[n] + s[n + 1] /\ s[n + 1] \in 0..9
      BY <3>1 DEF Reads
    <3>3. v[n] \in Nat /\ v[n] < Price!Pow10[n]
      BY <3>1, <1>1
    <3>4. Price!Pow10[n] \in Nat /\ Price!Pow10[n + 1] = 10 * Price!Pow10[n]
      BY <2>1, Powers
    <3>5. \A a, p \in Nat, d \in 0..9 : a < p => 10 * a + d < 10 * p
      OBVIOUS
    <3>6. 10 * v[n] + s[n + 1] < 10 * Price!Pow10[n]
      BY <3>2, <3>3, <3>4, <3>5
    <3> QED
      BY <3>2, <3>4, <3>6
  <2> QED
    BY <2>1, <2>2
<1> HIDE DEF T
<1>4. T \in SUBSET Nat
  BY DEF T
<1>5. i \in T /\ i <= Len(s)
  <2>1. T = Nat
    BY <1>2, <1>3, <1>4, NatSetInduction, Zenon
  <2> QED
    BY <1>1, <2>1
<1> QED
  BY <1>1, <1>5 DEF T

\* The same digits say the same number.
LEMMA ReadsOnce ==
  ASSUME NEW s \in Seq(0..9), NEW t \in Seq(0..9), NEW v, NEW w, Reads(v, s), Reads(w, t),
         NEW k \in Nat, k <= Len(s), k <= Len(t), \A i \in 1..k : s[i] = t[i]
  PROVE  v[k] = w[k]
<1> DEFINE T == {n \in Nat : n <= k => v[n] = w[n]}
<1>1. 0 \in T
  BY DEF Reads
<1>2. ASSUME NEW n \in T
      PROVE  n + 1 \in T
  <2>1. ASSUME n + 1 <= k
        PROVE  v[n + 1] = w[n + 1]
    <3>1. /\ n <= k /\ n + 1 \in 1..Len(s) /\ n + 1 \in 1..Len(t) /\ n + 1 \in 1..k
          /\ (n + 1) - 1 = n
      BY <2>1
    <3>2. /\ v[n + 1] = 10 * v[n] + s[n + 1] /\ w[n + 1] = 10 * w[n] + t[n + 1]
          /\ v[n] = w[n] /\ s[n + 1] = t[n + 1]
      BY <3>1 DEF Reads
    <3> QED
      BY <3>2
  <2> QED
    BY <2>1
<1> HIDE DEF T
<1>3. T \in SUBSET Nat
  BY DEF T
<1>4. k \in T
  BY <1>1, <1>2, <1>3, NatSetInduction
<1> QED
  BY <1>4 DEF T

\* Digits that follow others say what they say alone, the others that many powers of ten.
LEMMA ReadsOn ==
  ASSUME NEW r \in Seq(0..9), NEW t \in Seq(0..9), NEW v, NEW w, Reads(v, r \o t), Reads(w, t)
  PROVE  v[Len(r \o t)] = v[Len(r)] * Price!Pow10[Len(t)] + w[Len(t)]
<1> DEFINE s == r \o t
           k == Len(r)
<1>0. /\ s \in Seq(0..9) /\ k \in Nat /\ Len(s) = k + Len(t) /\ Reads(v, s)
      /\ \A i \in 1..Len(t) : s[k + i] = t[i]
  OBVIOUS
<1> HIDE DEF s, k
<1> DEFINE T == {n \in Nat : n <= Len(t) => v[k + n] = v[k] * Price!Pow10[n] + w[n]}
<1>1. /\ Len(t) \in Nat /\ k \in 0..Len(s)
      /\ v \in [0..Len(s) -> Nat] /\ w \in [0..Len(t) -> Nat] /\ v[k] \in Nat
  <2>1. Len(t) \in Nat /\ Len(s) \in Nat /\ k \in 0..Len(s)
    BY <1>0
  <2> QED
    BY <1>0, <2>1 DEF Reads
<1>2. 0 \in T
  <2>1. v[k] * 1 + 0 = v[k] /\ k + 0 = k
    BY <1>1
  <2> QED
    BY <2>1, <1>0, Powers DEF Reads
<1>3. ASSUME NEW n \in T
      PROVE  n + 1 \in T
  <2>1. n \in Nat /\ n + 1 \in Nat
    OBVIOUS
  <2>2. ASSUME n + 1 <= Len(t)
        PROVE  v[k + (n + 1)] = v[k] * Price!Pow10[n + 1] + w[n + 1]
    <3>1. /\ n \in 0..Len(t) /\ n <= Len(t) /\ n + 1 \in 1..Len(t) /\ (n + 1) - 1 = n
          /\ k + (n + 1) \in 1..Len(s) /\ (k + (n + 1)) - 1 = k + n
      BY <2>1, <2>2, <1>0, <1>1
    <3>2. /\ v[k + (n + 1)] = 10 * v[k + n] + s[k + (n + 1)]
          /\ w[n + 1] = 10 * w[n] + t[n + 1] /\ s[k + (n + 1)] = t[n + 1]
      BY <3>1, <1>0 DEF Reads
    <3>3. t[n + 1] \in Nat /\ w[n] \in Nat
      <4>1. \A i \in 1..Len(t) : t[i] \in 0..9
        OBVIOUS
      <4>2. t[n + 1] \in 0..9 /\ w[n] \in Nat
        BY <3>1, <4>1, <1>1
      <4>3. \A d \in 0..9 : d \in Nat
        OBVIOUS
      <4> QED
        BY <4>2, <4>3
    <3>4. v[k + n] = v[k] * Price!Pow10[n] + w[n]
      BY <3>1
    <3>5. Price!Pow10[n] \in Nat /\ Price!Pow10[n + 1] = 10 * Price!Pow10[n]
      BY <2>1, Powers
    <3> DEFINE a == v[k]
               p == Price!Pow10[n]
    <3>6. a \in Nat /\ p \in Nat
      BY <3>5, <1>1
    <3> HIDE DEF a, p
    <3>7. a * p \in Nat /\ 10 * (a * p) = a * (10 * p)
      BY <3>6
    <3>8. v[k + n] = a * p + w[n] /\ Price!Pow10[n + 1] = 10 * p
      BY <3>4, <3>5 DEF a, p
    <3>9. v[k + (n + 1)] = a * Price!Pow10[n + 1] + w[n + 1]
      BY <3>2, <3>3, <3>7, <3>8
    <3> QED
      BY <3>9 DEF a
  <2> QED
    BY <2>1, <2>2
<1> HIDE DEF T
<1>4. T \in SUBSET Nat
  BY DEF T
<1>5. Len(t) \in T
  BY <1>1, <1>2, <1>3, <1>4, NatSetInduction
<1> QED
  BY <1>5 DEF T, s, k

\* What the value of digits is made of.
LEMMA ValueBounded ==
  ASSUME NEW s \in Seq(0..9)
  PROVE  Price!Value(s, 10) \in Nat /\ Price!Value(s, 10) < Price!Pow10[Len(s)]
<1>1. Len(s) \in 0..Len(s)
  OBVIOUS
<1> QED
  BY <1>1, ValueReads, ReadsBounded

LEMMA ValueOfTwo ==
  ASSUME NEW s \in Seq(0..9), NEW t \in Seq(0..9)
  PROVE  Price!Value(s \o t, 10) = Price!Value(s, 10) * Price!Pow10[Len(t)] + Price!Value(t, 10)
<1> DEFINE st == s \o t
<1>1. /\ st \in Seq(0..9) /\ Len(st) = Len(s) + Len(t)
      /\ \A i \in 1..Len(s) : s[i] = st[i]
  OBVIOUS
<1> HIDE DEF st
<1>2. PICK u : Reads(u, s) /\ Price!Value(s, 10) = u[Len(s)]
  BY ValueReads
<1>3. PICK w : Reads(w, t) /\ Price!Value(t, 10) = w[Len(t)]
  BY ValueReads
<1>4. PICK v : Reads(v, st) /\ Price!Value(st, 10) = v[Len(st)]
  BY <1>1, ValueReads
<1>5. Len(s) \in Nat /\ Len(s) <= Len(s) /\ Len(s) <= Len(st)
  BY <1>1
<1>6. u[Len(s)] = v[Len(s)]
  <2>1. Reads(u, s) /\ Reads(v, st) /\ s \in Seq(0..9) /\ st \in Seq(0..9)
    BY <1>1, <1>2, <1>4, Zenon
  <2> DEFINE n == Len(s)
  <2>2. n \in Nat /\ n <= Len(s) /\ n <= Len(st) /\ \A i \in 1..n : s[i] = st[i]
    BY <1>1, <1>5, Zenon
  <2> HIDE DEF n
  <2>3. u[n] = v[n]
    BY <2>1, <2>2, ReadsOnce
  <2> QED
    BY <2>3 DEF n
<1>7. v[Len(st)] = v[Len(s)] * Price!Pow10[Len(t)] + w[Len(t)]
  BY <1>3, <1>4, ReadsOn DEF st
<1> QED
  BY <1>2, <1>3, <1>4, <1>6, <1>7 DEF st

LEMMA ValueOfZeros ==
  ASSUME NEW s \in Seq(0..9), \A i \in 1..Len(s) : s[i] = 0
  PROVE  Price!Value(s, 10) = 0
<1>1. PICK v : Reads(v, s) /\ Price!Value(s, 10) = v[Len(s)]
  BY ValueReads
<1> DEFINE T == {n \in Nat : n <= Len(s) => v[n] = 0}
<1>2. 0 \in T
  BY <1>1 DEF Reads
<1>3. ASSUME NEW n \in T
      PROVE  n + 1 \in T
  <2>1. ASSUME n + 1 <= Len(s)
        PROVE  v[n + 1] = 0
    <3>1. n <= Len(s) /\ n + 1 \in 1..Len(s) /\ (n + 1) - 1 = n
      BY <2>1
    <3>2. v[n + 1] = 10 * v[n] + s[n + 1] /\ v[n] = 0 /\ s[n + 1] = 0
      BY <1>1, <3>1 DEF Reads
    <3> QED
      BY <3>2
  <2> QED
    BY <2>1
<1> HIDE DEF T
<1>4. T \in SUBSET Nat /\ Len(s) \in Nat
  BY DEF T
<1>5. Len(s) \in T
  BY <1>2, <1>3, <1>4, NatSetInduction
<1> QED
  BY <1>1, <1>4, <1>5 DEF T

\* The digits that count: the fraction filled up with zeros, or cut.
LEMMA PaddedIs ==
  ASSUME decimals \in Nat, NEW S, 0 \in S, NEW f \in Seq(S)
  PROVE  /\ Price!Padded(f) \in Seq(S)
         /\ Len(Price!Padded(f)) = decimals
         /\ \A i \in 1..decimals : Price!Padded(f)[i] = IF i <= Len(f) THEN f[i] ELSE 0
<1> DEFINE zeros == [i \in 1..decimals |-> 0]
<1>1. Len(f) \in Nat
  OBVIOUS
<1>2. zeros \in Seq(S) /\ Len(zeros) = decimals /\ \A i \in 1..decimals : zeros[i] = 0
  <2>1. zeros \in [1..decimals -> S]
    OBVIOUS
  <2> QED
    BY <2>1
<1> HIDE DEF zeros
<1>3. /\ f \o zeros \in Seq(S) /\ Len(f \o zeros) = Len(f) + decimals
      /\ \A i \in 1..Len(f) + decimals :
           (f \o zeros)[i] = IF i <= Len(f) THEN f[i] ELSE zeros[i - Len(f)]
  BY <1>1, <1>2
<1>4. Price!Padded(f) = SubSeq(f \o zeros, 1, decimals)
  BY DEF Price!Padded, Price!Filled, zeros
<1>5. /\ SubSeq(f \o zeros, 1, decimals) \in Seq(S)
      /\ Len(SubSeq(f \o zeros, 1, decimals)) = decimals
      /\ \A i \in 1..decimals : SubSeq(f \o zeros, 1, decimals)[i] = (f \o zeros)[i]
  <2>1. Len(f) \in Nat /\ decimals <= Len(f) + decimals
    BY <1>1
  <2> QED
    BY <1>3, <2>1, SubSeqProperties
<1>6. ASSUME NEW i \in 1..decimals
      PROVE  (f \o zeros)[i] = IF i <= Len(f) THEN f[i] ELSE 0
  <2>1. Len(f) \in Nat /\ i \in 1..Len(f) + decimals /\ (i > Len(f) => i - Len(f) \in 1..decimals)
    BY <1>1
  <2> QED
    BY <2>1, <1>2, <1>3
<1> QED
  BY <1>4, <1>5, <1>6

\* The amount of a fraction with no more digits than the token: all of it, in smaller units.
LEMMA ShortFraction ==
  ASSUME decimals \in Nat, NEW f \in Seq(0..9), Len(f) <= decimals
  PROVE  /\ Price!Padded(f) \in Seq(0..9)
         /\ Price!Value(Price!Padded(f), 10) = Price!Value(f, 10) * Price!Pow10[decimals - Len(f)]
<1> DEFINE k == decimals - Len(f)
           zeros == [i \in 1..k |-> 0]
           p == Price!Padded(f)
<1>1. f \in Seq(0..9) /\ Len(f) \in Nat /\ k \in Nat
  OBVIOUS
<1>2. zeros \in Seq(0..9) /\ Len(zeros) = k /\ \A i \in 1..Len(zeros) : zeros[i] = 0
  <2>1. zeros \in [1..k -> 0..9]
    OBVIOUS
  <2> QED
    BY <1>1, <2>1
<1>3. /\ p \in Seq(0..9) /\ Len(p) = decimals
      /\ \A i \in 1..decimals : p[i] = IF i <= Len(f) THEN f[i] ELSE 0
  <2>1. 0 \in 0..9
    OBVIOUS
  <2> QED
    BY <1>1, <2>1, PaddedIs
<1> HIDE DEF zeros, p
<1>4. /\ f \o zeros \in Seq(0..9) /\ Len(f \o zeros) = decimals
      /\ \A i \in 1..decimals : (f \o zeros)[i] = IF i <= Len(f) THEN f[i] ELSE 0
  <2>1. f \o zeros \in Seq(0..9) /\ Len(f \o zeros) = Len(f) + k /\ Len(f) + k = decimals
    BY <1>1, <1>2
  <2>2. ASSUME NEW i \in 1..decimals
        PROVE  (f \o zeros)[i] = IF i <= Len(f) THEN f[i] ELSE 0
    <3>1. /\ i \in 1..Len(f) + k
          /\ (f \o zeros)[i] = IF i <= Len(f) THEN f[i] ELSE zeros[i - Len(f)]
      BY <1>1, <1>2, <2>1
    <3>2. i > Len(f) => i - Len(f) \in 1..Len(zeros)
      BY <1>1, <1>2, <3>1
    <3> QED
      BY <1>1, <1>2, <3>1, <3>2
  <2> QED
    BY <2>1, <2>2
<1>5. p = f \o zeros
  BY <1>3, <1>4, SeqEqual
<1>6. Price!Value(f \o zeros, 10) = Price!Value(f, 10) * Price!Pow10[k] + 0
  <2>1. Price!Value(zeros, 10) = 0
    BY <1>2, ValueOfZeros
  <2>2. Price!Value(f \o zeros, 10) = Price!Value(f, 10) * Price!Pow10[Len(zeros)] + Price!Value(zeros, 10)
    BY <1>1, <1>2, ValueOfTwo
  <2> QED
    BY <2>1, <2>2, <1>2
<1>7. Price!Value(f, 10) \in Nat /\ Price!Pow10[k] \in Nat
  BY <1>1, ValueBounded, Powers
<1> QED
  BY <1>4, <1>5, <1>6, <1>7 DEF p

\* The amount of a longer fraction: the digits that count, and what the others say.
LEMMA LongFraction ==
  ASSUME decimals \in Nat, NEW f \in Seq(0..9), Len(f) > decimals
  PROVE  /\ Price!Padded(f) \in Seq(0..9)
         /\ \E rest \in Nat :
              /\ rest < Price!Pow10[Len(f) - decimals]
              /\ Price!Value(f, 10)
                   = Price!Value(Price!Padded(f), 10) * Price!Pow10[Len(f) - decimals] + rest
<1> DEFINE k == Len(f) - decimals
           tail == SubSeq(f, decimals + 1, Len(f))
           p == Price!Padded(f)
<1>1. f \in Seq(0..9) /\ Len(f) \in Nat /\ k \in Nat
  OBVIOUS
<1>2. /\ p \in Seq(0..9) /\ Len(p) = decimals
      /\ \A i \in 1..decimals : p[i] = IF i <= Len(f) THEN f[i] ELSE 0
  <2>1. 0 \in 0..9
    OBVIOUS
  <2> QED
    BY <1>1, <2>1, PaddedIs
<1>3. /\ tail \in Seq(0..9) /\ Len(tail) = k
      /\ \A i \in 1..k : tail[i] = f[decimals + i]
  BY <1>1
<1> HIDE DEF tail, p
<1>4. p \in Seq(0..9)
  BY <1>2
<1>5. /\ p \o tail \in Seq(0..9) /\ Len(p \o tail) = Len(f)
      /\ \A i \in 1..Len(f) : (p \o tail)[i] = f[i]
  <2>1. p \o tail \in Seq(0..9) /\ Len(p \o tail) = decimals + k /\ decimals + k = Len(f)
    <3>1. p \o tail \in Seq(0..9) /\ Len(p \o tail) = Len(p) + Len(tail)
      <4>1. p \in Seq(0..9) /\ tail \in Seq(0..9)
        BY <1>3, <1>4
      <4> QED
        BY <4>1, ConcatProperties
    <3>2. decimals + k = Len(f)
      BY <1>1
    <3> HIDE DEF k
    <3> QED
      BY <3>1, <3>2, <1>2, <1>3
  <2>2. ASSUME NEW i \in 1..Len(f)
        PROVE  (p \o tail)[i] = f[i]
    <3>1. (p \o tail)[i] = IF i <= decimals THEN p[i] ELSE tail[i - decimals]
      BY <1>1, <1>2, <1>3, <1>4, <2>1
    <3>2. i > decimals => i - decimals \in 1..k /\ decimals + (i - decimals) = i
      BY <1>1
    <3>3. i <= decimals => i \in 1..decimals
      BY <1>1
    <3> QED
      BY <1>2, <1>3, <3>1, <3>2, <3>3
  <2> QED
    BY <2>1, <2>2
<1>6. f = p \o tail
  BY <1>1, <1>5, SeqEqual
<1>7. Price!Value(p \o tail, 10) = Price!Value(p, 10) * Price!Pow10[Len(tail)] + Price!Value(tail, 10)
  BY <1>3, <1>4, ValueOfTwo
<1>8. Price!Value(tail, 10) \in Nat /\ Price!Value(tail, 10) < Price!Pow10[Len(tail)]
  BY <1>3, ValueBounded
<1>9. Price!Value(f, 10) = Price!Value(p, 10) * Price!Pow10[k] + Price!Value(tail, 10)
  BY <1>3, <1>6, <1>7
<1> QED
  BY <1>3, <1>4, <1>8, <1>9 DEF p

\* Two identities of the numbers below
LEMMA ShortSum ==
  ASSUME NEW w \in Nat, NEW f \in Nat, NEW k \in Nat, NEW l \in Nat
  PROVE  (w * (l * k) + f * k) * l = (w * l + f) * (l * k)
OBVIOUS

LEMMA LongSum ==
  ASSUME NEW w \in Nat, NEW q \in Nat, NEW k \in Nat, NEW d \in Nat, NEW r \in Nat
  PROVE  (w * (d * k) + (q * k + r)) * d = (w * d + q) * (d * k) + r * d
OBVIOUS

LEMMA LessTimes ==
  ASSUME NEW r \in Nat, NEW k \in Nat, NEW d \in Nat \ {0}, r < k
  PROVE  r * d \in Nat /\ r * d < d * k
OBVIOUS

\* What is written, in units of the token, lies between the amount and the next one.
LEMMA AmountOfDigits ==
  ASSUME decimals \in Nat, NEW w \in Seq(0..9), NEW f \in Seq(0..9)
  PROVE  LET a       == Price!Value(w, 10) * Price!Pow10[decimals] + Price!Value(Price!Padded(f), 10)
             written == Price!Value(w \o f, 10) * Price!Pow10[decimals]
         IN  /\ a \in Nat
             /\ a * Price!Pow10[Len(f)] <= written
             /\ written < (a + 1) * Price!Pow10[Len(f)]
<1> DEFINE V == Price!Value(w, 10)
           F == Price!Value(f, 10)
           Q == Price!Value(Price!Padded(f), 10)
           D == Price!Pow10[decimals]
           L == Price!Pow10[Len(f)]
           a == V * D + Q
           written == Price!Value(w \o f, 10) * D
<1>1. w \in Seq(0..9) /\ f \in Seq(0..9) /\ Len(f) \in Nat
  OBVIOUS
<1>2. V \in Nat /\ F \in Nat /\ D \in Nat \ {0} /\ L \in Nat \ {0}
  BY <1>1, ValueBounded, Powers
<1>3. written = (V * L + F) * D
  BY <1>1, ValueOfTwo
<1>4. Price!Padded(f) \in Seq(0..9) => Q \in Nat
  BY ValueBounded
<1> HIDE DEF V, F, Q, D, L
<1>5. \A x \in Nat : x * L <= x * L /\ x * L < (x + 1) * L /\ (x + 1) * L = x * L + L
  BY <1>2
<1>6. CASE Len(f) <= decimals
  <2> DEFINE K == Price!Pow10[decimals - Len(f)]
  <2>1. decimals - Len(f) \in Nat /\ Len(f) + (decimals - Len(f)) = decimals
    BY <1>1, <1>6
  <2>2. D = L * K /\ K \in Nat
    BY <1>1, <2>1, PowersAdd, Powers DEF D, L
  <2>3. Q \in Nat /\ Q = F * K
    BY <1>4, <1>6, ShortFraction DEF Q, F
  <2> HIDE DEF K
  <2>4. a * L = written
    BY <1>2, <1>3, <2>2, <2>3, ShortSum
  <2>5. a \in Nat
    BY <1>2, <2>3
  <2> HIDE DEF a, written
  <2>6. a * L <= written /\ written < (a + 1) * L
    BY <2>4, <2>5, <1>5
  <2> QED
    BY <2>5, <2>6 DEF a, written, V, Q, D, L
<1>7. CASE Len(f) > decimals
  <2> DEFINE K == Price!Pow10[Len(f) - decimals]
  <2>1. Len(f) - decimals \in Nat /\ decimals + (Len(f) - decimals) = Len(f)
    BY <1>1, <1>7
  <2>2. L = D * K /\ K \in Nat
    BY <2>1, PowersAdd, Powers DEF D, L
  <2>3. PICK r \in Nat : r < K /\ F = Q * K + r
    BY <1>7, LongFraction DEF Q, F
  <2>4. Q \in Nat
    BY <1>4, <1>7, LongFraction
  <2> HIDE DEF K
  <2>5. written = a * L + r * D
    BY <1>2, <1>3, <2>2, <2>3, <2>4, LongSum
  <2>6. r * D \in Nat /\ r * D < L
    BY <1>2, <2>2, <2>3, LessTimes
  <2>7. a \in Nat
    BY <1>2, <2>4
  <2> HIDE DEF a, written
  <2>8. a * L \in Nat /\ (a + 1) * L = a * L + L
    BY <1>2, <1>5, <2>7
  <2>9. a * L <= written /\ written < (a + 1) * L
    BY <1>2, <2>5, <2>6, <2>8
  <2> QED
    BY <2>7, <2>9 DEF a, written, V, Q, D, L
<1> QED
  BY <1>1, <1>6, <1>7

\* What is left of a string without the space around it: all of what is no space, in order.
LEMMA TrimmedIs ==
  ASSUME NEW s \in Seq(Price!Characters), NEW k \in 1..Len(s), s[k] # Price!Space
  PROVE  \E lo \in 1..k, hi \in k..Len(s) :
           /\ Price!Trimmed(s) = SubSeq(s, lo, hi)
           /\ s[lo] # Price!Space /\ s[hi] # Price!Space
           /\ \A i \in 1..Len(s) : s[i] # Price!Space => lo <= i /\ i <= hi
<1> DEFINE at  == {i \in 1..Len(s) : s[i] # Price!Space}
           lo  == Price!Min(at)
           hi  == Price!Max(at)
           rev == {Len(s) - i : i \in at}
<1>1. Len(s) \in Nat /\ k \in at /\ at \in SUBSET Nat /\ rev \in SUBSET Nat /\ rev # {}
  OBVIOUS
<1>2. \E n \in at : \A m \in at : n <= m
  BY <1>1, LeastOfASet
<1>3. \E n \in at : \A m \in at : n >= m
  <2>1. PICK r \in rev : \A q \in rev : r <= q
    BY <1>1, LeastOfASet
  <2>2. PICK n \in at : r = Len(s) - n
    OBVIOUS
  <2>3. ASSUME NEW m \in at
        PROVE  n >= m
    <3>1. Len(s) - m \in rev /\ m \in Nat /\ n \in Nat
      BY <1>1
    <3>2. Len(s) - n <= Len(s) - m
      BY <2>1, <2>2, <3>1, Zenon
    <3> QED
      BY <3>1, <3>2, <1>1
  <2> QED
    BY <2>3
<1>4. lo \in at /\ \A m \in at : lo <= m
  BY <1>2, Zenon DEF Price!Min
<1>5. hi \in at /\ \A m \in at : hi >= m
  BY <1>3, Zenon DEF Price!Max
<1>6. Price!Trimmed(s) = SubSeq(s, lo, hi)
  BY <1>1 DEF Price!Trimmed
<1> HIDE DEF lo, hi
<1>7. lo \in 1..k /\ hi \in k..Len(s)
  BY <1>1, <1>4, <1>5
<1>8. /\ s[lo] # Price!Space /\ s[hi] # Price!Space
      /\ \A i \in 1..Len(s) : s[i] # Price!Space => lo <= i /\ i <= hi
  BY <1>4, <1>5
<1> QED
  BY <1>6, <1>7, <1>8

\* BigInt of digits is the number that they say, and of none is zero.
LEMMA BigIntOfDigits ==
  ASSUME NEW s \in Seq(0..9)
  PROVE  Price!BigInt(s) = Price!Value(s, 10)
<1>1. s \in Seq(Price!Characters) /\ Len(s) \in Nat /\ \A i \in 1..Len(s) : s[i] \in 0..9
  <2>1. 0..9 \subseteq Price!Characters
    BY DEF Price!Characters
  <2> QED
    BY <2>1, SeqMonotonic
<1>2. CASE s = << >>
  <2>1. Price!Trimmed(s) = << >>
    BY <1>2 DEF Price!Trimmed
  <2>2. Price!Value(s, 10) = 0
    <3>1. \A i \in 1..Len(s) : s[i] = 0
      BY <1>2
    <3> QED
      BY <3>1, ValueOfZeros, Zenon
  <2> QED
    BY <2>1, <2>2 DEF Price!BigInt
<1>3. CASE s # << >>
  <2>1. 1 \in 1..Len(s) /\ Len(s) \in 1..Len(s) /\ \A i \in 1..Len(s) : s[i] # Price!Space
    BY <1>1, <1>3 DEF Price!Space
  <2>2. PICK lo \in 1..1, hi \in 1..Len(s) :
          /\ Price!Trimmed(s) = SubSeq(s, lo, hi)
          /\ \A i \in 1..Len(s) : s[i] # Price!Space => lo <= i /\ i <= hi
    BY <1>1, <2>1, TrimmedIs
  <2>3. lo = 1 /\ hi = Len(s)
    BY <1>1, <2>1, <2>2
  <2>4. Price!Trimmed(s) = s
    BY <1>1, <2>2, <2>3
  <2>5. ~Price!Prefixed(s)
    BY <1>1 DEF Price!Prefixed, Price!X, Price!O, Price!B
  <2>6. s[1] \notin {Price!Minus, Price!Plus}
    BY <1>1, <2>1 DEF Price!Minus, Price!Plus
  <2>7. Price!DigitsOf(s) = s /\ Price!Radix(s) = 10
    BY <2>5, <2>6 DEF Price!DigitsOf, Price!Radix
  <2>8. Price!IsInteger(s)
    BY <1>1, <1>3, <2>7 DEF Price!IsInteger
  <2> QED
    BY <1>3, <2>4, <2>6, <2>7, <2>8 DEF Price!BigInt
<1> QED
  BY <1>2, <1>3

\* BigInt throws at what is in no number, wherever it stands.
LEMMA NoNumberIsRefused ==
  ASSUME NEW s \in Seq(Price!Characters), NEW k \in 1..Len(s), s[k] = Price!Other
  PROVE  Price!BigInt(s) = Refused
<1> DEFINE b == Price!Trimmed(s)
           d == Price!DigitsOf(b)
<1>1. PICK lo \in 1..k, hi \in k..Len(s) : b = SubSeq(s, lo, hi)
  <2>1. s[k] # Price!Space
    BY DEF Price!Other, Price!Space
  <2> QED
    BY <2>1, TrimmedIs
<1>2. PICK n \in 1..Len(b) : b[n] = Price!Other /\ Len(b) \in Nat /\ b \in Seq(Price!Characters)
  <2> DEFINE n == k - lo + 1
  <2>1. Len(s) \in Nat /\ lo \in 1..Len(s) /\ hi \in 1..Len(s) /\ lo <= hi
    OBVIOUS
  <2>2. /\ b \in Seq(Price!Characters) /\ Len(b) = hi - lo + 1
        /\ \A i \in 1..(hi - lo + 1) : b[i] = s[lo + i - 1]
    BY <1>1, <2>1
  <2>3. n \in 1..(hi - lo + 1) /\ lo + n - 1 = k
    BY <2>1
  <2>4. n \in 1..Len(b) /\ b[n] = s[k] /\ Len(b) \in Nat
    BY <2>1, <2>2, <2>3
  <2> QED
    BY <2>2, <2>4, Zenon
<1> HIDE DEF b
<1>3. b # << >>
  BY <1>2
<1>4. \E m \in 1..Len(d) : d[m] = Price!Other
  <2>1. CASE Price!Prefixed(b)
    <3>1. n \in 3..Len(b)
      BY <1>2, <2>1 DEF Price!Prefixed, Price!X, Price!O, Price!B, Price!Other
    <3>2. d = SubSeq(b, 3, Len(b))
      BY <2>1 DEF Price!DigitsOf
    <3>3. Len(d) = Len(b) - 2 /\ d[n - 2] = b[n] /\ n - 2 \in 1..Len(d)
      BY <1>2, <3>1, <3>2
    <3> QED
      BY <1>2, <3>3
  <2>2. CASE ~Price!Prefixed(b) /\ b[1] \in {Price!Minus, Price!Plus}
    <3>1. n \in 2..Len(b)
      BY <1>2, <2>2 DEF Price!Minus, Price!Plus, Price!Other
    <3>2. d = Tail(b)
      BY <2>2 DEF Price!DigitsOf
    <3>3. Len(d) = Len(b) - 1 /\ d[n - 1] = b[n] /\ n - 1 \in 1..Len(d)
      BY <1>2, <1>3, <3>1, <3>2
    <3> QED
      BY <1>2, <3>3
  <2>3. CASE ~Price!Prefixed(b) /\ b[1] \notin {Price!Minus, Price!Plus}
    <3>1. d = b
      BY <2>3 DEF Price!DigitsOf
    <3> QED
      BY <1>2, <3>1
  <2> QED
    BY <2>1, <2>2, <2>3
<1>5. Price!Radix(b) \in {2, 8, 10, 16} /\ ~(Price!Other < Price!Radix(b))
  BY DEF Price!Radix, Price!Other
<1>6. ~Price!IsInteger(b)
  BY <1>4, <1>5 DEF Price!IsInteger
<1> QED
  BY <1>3, <1>6 DEF Price!BigInt, b

\* The price stays as it was written, and the amount is what is computed from it.
PriceInv ==
  /\ decimals \in Nat /\ price \in Prices
  /\ amount \in {None, Price!ToAtomic(price)}

LEMMA PriceInvariance == ASSUME Price!PriceAssumption PROVE Price!Spec => []PriceInv
<1>1. Price!Init => PriceInv
  BY DEF Price!Init, PriceInv, Price!PriceAssumption
<1>2. PriceInv /\ [Price!Next]_(Price!vars) => PriceInv'
  <2>1. ASSUME UNCHANGED <<price, decimals>>
        PROVE  Price!ToAtomic(price)' = Price!ToAtomic(price)
    BY <2>1 DEF Price!ToAtomic, Price!Atomic, Price!Padded, Price!Filled
  <2> QED
    BY <2>1 DEF PriceInv, Price!Next, Price!MakeRoute, Price!vars
<1> QED
  BY <1>1, <1>2, PTL DEF Price!Spec

\* The parts of a price are strings, and those of a plain price digits.
LEMMA PartsOfPrices ==
  ASSUME NEW p \in Seq(Seq(Price!Characters)), p # << >>
  PROVE  /\ Price!Whole(p) \in Seq(Price!Characters) /\ Price!Fraction(p) \in Seq(Price!Characters)
         /\ Price!Plain(p) => Price!Whole(p) \in Seq(0..9) /\ Price!Fraction(p) \in Seq(0..9)
<1>1. /\ Len(p) \in Nat /\ 1 \in 1..Len(p) /\ (Len(p) > 1 => 2 \in 1..Len(p))
      /\ \A k \in 1..Len(p) : p[k] \in Seq(Price!Characters)
  OBVIOUS
<1>2. ASSUME NEW s \in Seq(Price!Characters), \A i \in 1..Len(s) : s[i] < 10
      PROVE  s \in Seq(0..9)
  <2>1. Len(s) \in Nat /\ \A i \in 1..Len(s) : s[i] \in Price!Characters
    OBVIOUS
  <2>2. \A c \in Price!Characters : c < 10 => c \in 0..9
    BY DEF Price!Characters
  <2>3. \A i \in 1..Len(s) : s[i] \in 0..9
    BY <1>2, <2>1, <2>2, Zenon
  <2>4. s \in [1..Len(s) -> Price!Characters]
    OBVIOUS
  <2> DEFINE n == Len(s)
  <2>5. n \in Nat /\ s \in [1..n -> 0..9]
    BY <2>1, <2>3, <2>4
  <2> HIDE DEF n
  <2> QED
    BY <2>5
<1>3. << >> \in Seq(Price!Characters) /\ << >> \in Seq(0..9)
  OBVIOUS
<1>4. ASSUME Price!Plain(p), NEW k \in 1..Len(p)
      PROVE  p[k] \in Seq(0..9)
  BY <1>1, <1>2, <1>4 DEF Price!Plain
<1> QED
  BY <1>1, <1>3, <1>4 DEF Price!Whole, Price!Fraction

\* An endpoint charges what its price says, whatever the digits (toAtomic of c402-server): the
\* amount of a plain price is the price in the token's units, rounded down, and what is in no
\* number is refused.
THEOREM TheAmountIsThePrice == ASSUME Price!PriceAssumption PROVE Price!Spec => []AmountIsThePrice
<1>1. PriceInv => AmountIsThePrice
  <2> SUFFICES ASSUME PriceInv, amount # None
               PROVE  /\ Price!Plain(price) =>
                           LET w == Price!Whole(price)
                               f == Price!Fraction(price)
                               written == Price!Value(w \o f, 10) * Price!Pow10[decimals]
                               unit == Price!Pow10[Len(f)] IN
                           /\ amount # Refused
                           /\ amount * unit <= written /\ written < (amount + 1) * unit
                      /\ Price!NoNumber(price) => amount = Refused
    BY DEF AmountIsThePrice, Price!AmountIsThePrice
  <2> DEFINE w == Price!Whole(price)
             f == Price!Fraction(price)
             p == Price!Padded(f)
             a == Price!Value(w, 10) * Price!Pow10[decimals] + Price!Value(p, 10)
             written == Price!Value(w \o f, 10) * Price!Pow10[decimals]
             unit == Price!Pow10[Len(f)]
  <2>1. /\ decimals \in Nat /\ price \in Seq(Seq(Price!Characters)) /\ price # << >>
        /\ amount = Price!Atomic(Price!BigInt(w), Price!BigInt(p))
        /\ Refused \notin Int
    BY DEF PriceInv, Price!ToAtomic, Price!PriceAssumption
  <2>2. /\ w \in Seq(Price!Characters) /\ f \in Seq(Price!Characters)
        /\ Price!Plain(price) => w \in Seq(0..9) /\ f \in Seq(0..9)
    BY <2>1, PartsOfPrices
  <2>3. ASSUME Price!Plain(price)
        PROVE  amount # Refused /\ amount * unit <= written /\ written < (amount + 1) * unit
    <3>1. w \in Seq(0..9) /\ f \in Seq(0..9) /\ 0 \in 0..9
      BY <2>2, <2>3
    <3> HIDE DEF w, f
    <3>2. p \in Seq(0..9)
      BY <2>1, <3>1, PaddedIs
    <3> HIDE DEF p
    <3>3. /\ Price!BigInt(w) = Price!Value(w, 10) /\ Price!Value(w, 10) \in Nat
          /\ Price!BigInt(p) = Price!Value(p, 10) /\ Price!Value(p, 10) \in Nat
      BY <3>1, <3>2, BigIntOfDigits, ValueBounded
    <3>4. amount = a
      BY <2>1, <3>3 DEF Price!Atomic
    <3>5. a \in Nat /\ a * unit <= written /\ written < (a + 1) * unit
      BY <2>1, <3>1, AmountOfDigits DEF p
    <3> QED
      BY <2>1, <3>4, <3>5
  <2>4. ASSUME Price!NoNumber(price)
        PROVE  amount = Refused
    <3>1. CASE \E i \in 1..Len(w) : w[i] = Price!Other
      <4>1. Price!BigInt(w) = Refused
        BY <2>2, <3>1, NoNumberIsRefused
      <4> QED
        BY <2>1, <4>1 DEF Price!Atomic
    <3>2. CASE \E i \in 1..Len(f) : i <= decimals /\ f[i] = Price!Other
      <4>1. 0 \in Price!Characters
        BY DEF Price!Characters
      <4> HIDE DEF f
      <4>2. /\ p \in Seq(Price!Characters) /\ Len(p) = decimals
            /\ \A i \in 1..decimals : p[i] = IF i <= Len(f) THEN f[i] ELSE 0
        BY <2>1, <2>2, <4>1, PaddedIs
      <4>3. PICK i \in 1..Len(f) : i <= decimals /\ f[i] = Price!Other
        BY <3>2
      <4>4. i \in 1..Len(p) /\ p[i] = Price!Other
        BY <2>1, <2>2, <4>2, <4>3
      <4> HIDE DEF p
      <4>5. Price!BigInt(p) = Refused
        BY <4>2, <4>4, NoNumberIsRefused
      <4> QED
        BY <2>1, <4>5 DEF Price!Atomic
    <3> QED
      BY <2>4, <3>1, <3>2 DEF Price!NoNumber
  <2> QED
    BY <2>3, <2>4
<1> QED
  BY <1>1, PriceInvariance, PTL

-----------------------------------------------------------------------------
\* The parts together: a step of the whole is a step of one part, and leaves the others alone.
LEMMA PartsBehave ==
  ServicesSpec => /\ Spec /\ Launcher!Spec /\ Operator!Spec /\ Examples!Spec
                  /\ Price!Spec /\ Deployment!Spec /\ Demo!Spec
<1>1. ServicesInit => /\ Init /\ Launcher!Init /\ Operator!Init /\ Examples!Init
                      /\ Price!Init /\ Deployment!Init /\ Demo!Init
  BY DEF ServicesInit
<1>2. [ServicesNext]_allVars =>
        /\ [Next]_vars /\ [Launcher!Next]_(Launcher!vars) /\ [Operator!Next]_(Operator!vars)
        /\ [Examples!Next]_(Examples!vars) /\ [Deployment!Next]_(Deployment!vars)
        /\ [Demo!Next]_(Demo!vars) /\ [Price!Next]_(Price!vars)
  BY Zenon DEF ServicesNext, allVars, launcherVars, operatorVars, exampleVars, priceVars, deploymentVars,
     demoVars, vars, words, Launcher!vars, Operator!vars, Examples!vars, Price!vars, Deployment!vars,
     Demo!vars, Demo!chain, Demo!script
<1> QED
  BY <1>1, <1>2, PTL DEF ServicesSpec, Spec, Launcher!Spec, Operator!Spec, Examples!Spec,
     Price!Spec, Deployment!Spec, Demo!Spec

\* The types of all parts, whichever of them moves.
THEOREM PartsTypeCorrect == ServicesSpec => []Types
<1>1. /\ Launcher!LauncherAssumption /\ Operator!GasAssumption
      /\ Examples!ServerAssumption /\ Deployment!DeploymentAssumption /\ Demo!DemoAssumption
  BY PartsAssumption
<1>2. /\ Launcher!Spec => []Launcher!TypeOK
      /\ Operator!Spec => []Operator!TypeOK
      /\ Examples!Spec => []Examples!TypeOK
      /\ Deployment!Spec => []Deployment!TypeOK
      /\ Demo!Spec => []Demo!TypeOK
  BY <1>1, LauncherTypeCorrect, GasTypeCorrect, ServersTypeCorrect, DeploymentTypeCorrect, DemoTypeCorrect
<1>3. /\ TypeOK /\ Launcher!TypeOK /\ Operator!TypeOK /\ Examples!TypeOK
      /\ Deployment!TypeOK /\ Demo!TypeOK
      => Types
  BY DEF Types
<1> QED
  BY <1>2, <1>3, TypeCorrect, PartsBehave, PTL

\* What is proved of the parts holds of the services as a whole, of the part that moves as of
\* those that stand still.
THEOREM ServicesAreSafe ==
  ServicesSpec => /\ []WordsStayServiceable /\ []SumsAreOfWhatWasPaid
                  /\ []NobodyIsLeftBehind /\ []ApiBehindFacilitator
                  /\ []FailsOnlyWhenOthersSpent
                  /\ []ChargedForResults /\ ImplementsPaidCall
                  /\ []AmountIsThePrice
                  /\ []PublishedIsReady
                  /\ []UndisturbedVerdict
<1>1. /\ Launcher!Spec => []NobodyIsLeftBehind /\ []ApiBehindFacilitator
      /\ Operator!Spec => []FailsOnlyWhenOthersSpent
      /\ Examples!Spec => []ChargedForResults /\ ImplementsPaidCall
      /\ Price!Spec => []AmountIsThePrice
      /\ Deployment!Spec => []PublishedIsReady
      /\ Demo!Spec => []UndisturbedVerdict
  BY PartsAssumption, NobodyStays, TheApiStartsBehindIts, FailuresAreOfSharedGas, ResultsAreCharged,
     ExamplesKeepThePromise, TheAmountIsThePrice, WhatIsPublishedIsReady, TheVerdictIsRight
<1> QED
  BY <1>1, WordsServiceable, SumsCorrect, PartsBehave, PTL
=============================================================================
