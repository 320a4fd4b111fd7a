----------------------------- MODULE Dashboard -----------------------------
(***************************************************************************)
(* The control plane's live pages: the workspace, the payroll page and the *)
(* landing page's figures.  Each asks its route again and again, whether   *)
(* or not earlier answers are in, and shows the answer that comes last.    *)
(* The route makes its answer of several reads of a chain that moves on.   *)
(*                                                                         *)
(* Decisions and events are 1..n, as on chain.  A page that is left takes  *)
(* its state with it, so one visit to one page is modelled.                *)
(***************************************************************************)
EXTENDS Naturals

CONSTANTS Polls,     \* requests that can be under way at once
          ListMax,   \* decisions and events listed (6)
          None,
          MaxDecisions, MaxEvents, MaxDeploys  \* bounds

VARIABLES
  page,              \* "workspace", "payroll" or "landing"
  engine,            \* the engine the control plane is configured for
  decisions, events, \* on chain: of that engine, and on the bus
  up,                \* the node answers
  poll,              \* poll[p]: what it has read so far, and how far it is
  shown, err         \* the page's state

vars  == <<page, engine, decisions, events, up, poll, shown, err>>
world == <<page, engine, decisions, events, up>>

Newest(n) == {i \in 1..n : i + ListMax > n}
Idle == [phase |-> "idle", count |-> None, eventCount |-> None, ids |-> {}, eventIds |-> {},
         attested |-> None]
Treasury == page # "payroll"

Init ==
  /\ page \in {"workspace", "payroll", "landing"}
  /\ engine = 0 /\ decisions = 0 /\ events = 0 /\ up \in BOOLEAN
  /\ poll = [p \in Polls |-> Idle]
  /\ shown = None /\ err = FALSE

-----------------------------------------------------------------------------
\* The world
Decide ==
  /\ decisions < MaxDecisions /\ decisions' = decisions + 1
  /\ UNCHANGED <<page, engine, events, up, poll, shown, err>>

PublishEvent ==
  /\ Treasury /\ events < MaxEvents /\ events' = events + 1
  /\ UNCHANGED <<page, engine, decisions, up, poll, shown, err>>

\* New contracts are deployed and configured, which restarts the control plane.
Redeploy ==
  /\ engine < MaxDeploys /\ engine' = engine + 1 /\ decisions' = 0
  /\ poll' = [p \in Polls |-> Idle]
  /\ UNCHANGED <<page, events, up, shown, err>>

NodeUpOrDown == up' = ~up /\ UNCHANGED <<page, engine, decisions, events, poll, shown, err>>

-----------------------------------------------------------------------------
\* The route
Load(p) ==
  /\ poll[p].phase = "idle"
  /\ poll' = [poll EXCEPT ![p].phase = "counting"]
  /\ UNCHANGED <<world, shown, err>>

\* Both counts are read at once: in any order, at different moments.
ReadDecisionCount(p) ==
  /\ up /\ poll[p].phase = "counting" /\ poll[p].count = None
  /\ poll' = [poll EXCEPT ![p].count = decisions]
  /\ UNCHANGED <<world, shown, err>>

ReadEventCount(p) ==
  /\ up /\ poll[p].phase = "counting" /\ Treasury /\ poll[p].eventCount = None
  /\ poll' = [poll EXCEPT ![p].eventCount = events]
  /\ UNCHANGED <<world, shown, err>>

\* Mutant: the list is that of the moment it is read.
ReadListsAfresh(p) ==
  /\ up /\ poll[p].phase = "counting" /\ poll[p].count # None
  /\ Treasury => poll[p].eventCount # None
  /\ poll' = [poll EXCEPT ![p].phase = IF Treasury THEN "listed" ELSE "answered",
                          ![p].ids = Newest(decisions),
                          ![p].eventIds = IF Treasury THEN Newest(events) ELSE {}]
  /\ UNCHANGED <<world, shown, err>>

ReadLists(p) ==
  /\ up /\ poll[p].phase = "counting" /\ poll[p].count # None
  /\ Treasury => poll[p].eventCount # None
  /\ poll' = [poll EXCEPT ![p].phase = IF Treasury THEN "listed" ELSE "answered",
                          ![p].ids = Newest(poll[p].count),
                          ![p].eventIds = IF Treasury THEN Newest(poll[p].eventCount) ELSE {}]
  /\ UNCHANGED <<world, shown, err>>

\* The listed decision is verified on chain; a read that fails is a check that fails.  The
\* local log that is shown as well is the treasury loops' (TreasuryLoop).
Attest(p) ==
  /\ poll[p].phase = "listed"
  /\ poll' = [poll EXCEPT ![p].phase = "answered",
                          ![p].attested = IF poll[p].ids = {} THEN None
                                          ELSE [id |-> poll[p].count, valid |-> up]]
  /\ UNCHANGED <<world, shown, err>>

-----------------------------------------------------------------------------
\* The page
Show(a) == shown' = [engine |-> engine, count |-> a.count, eventCount |-> a.eventCount, ids |-> a.ids,
                     eventIds |-> a.eventIds, attested |-> a.attested]

\* Mutant: an error, once shown, stays.
AnswerKeepingError(p) ==
  /\ poll[p].phase = "answered" /\ Show(poll[p])
  /\ poll' = [poll EXCEPT ![p] = Idle]
  /\ UNCHANGED <<world, err>>

Answer(p) ==
  /\ poll[p].phase = "answered" /\ Show(poll[p]) /\ err' = FALSE
  /\ poll' = [poll EXCEPT ![p] = Idle]
  /\ UNCHANGED world

\* The landing page's figures stay as they are when the route fails.
ShowsErrors == page # "landing"

\* A failed read is an answer too.
Fail(p) ==
  /\ ~up /\ poll[p].phase = "counting"
  /\ poll' = [poll EXCEPT ![p] = Idle]
  /\ err' = (err \/ ShowsErrors)
  /\ UNCHANGED <<world, shown>>

-----------------------------------------------------------------------------
Serve(p) == ReadDecisionCount(p) \/ ReadEventCount(p) \/ ReadLists(p) \/ Attest(p)

Next ==
  \/ Decide \/ PublishEvent \/ Redeploy \/ NodeUpOrDown
  \/ \E p \in Polls : Load(p) \/ Serve(p) \/ Answer(p) \/ Fail(p)

Spec == Init /\ [][Next]_vars

\* The interval goes off for ever; reads and fetches return or fail.
FairSpec ==
  Spec /\ \A p \in Polls : WF_vars(Load(p) \/ Serve(p) \/ Fail(p) \/ Answer(p))

-----------------------------------------------------------------------------
\* What the proofs assume: None is no attestation, and bounds are numbers.
PageAssumption ==
  /\ None \notin [id : Nat, valid : BOOLEAN]
  /\ {MaxDecisions, MaxEvents, MaxDeploys} \subseteq Nat

\* Types.
TypeOK ==
  /\ decisions \in 0..MaxDecisions /\ events \in 0..MaxEvents
  /\ engine \in 0..MaxDeploys /\ {up, err} \subseteq BOOLEAN
  /\ \A p \in Polls : poll[p].phase \in {"idle", "counting", "listed", "answered"}
  /\ shown # None => /\ shown.engine \in 0..engine /\ shown.count \in 0..MaxDecisions
                     /\ shown.eventCount \in IF Treasury THEN 0..events ELSE {None}

\* What is shown together belongs together, although the chain moved on between the reads
\* and answers overtake each other: the list is the newest decisions of the count shown,
\* the attestation is that of the first of them, and the events go with their count.
OneAnswerIsConsistent ==
  shown # None =>
    /\ shown.ids = Newest(shown.count)
    /\ shown.attested # None => shown.attested.id = shown.count
    /\ Treasury => shown.eventIds = Newest(shown.eventCount) /\ (shown.attested = None <=> shown.ids = {})

\* Once the node stays up the page comes to show the chain as it is, and stays there, though
\* a slow answer may have replaced a newer one, or an error hidden it (app/page.tsx:29).
Converges ==
  <>[]up => <>[](/\ ~err /\ shown # None /\ shown.engine = engine /\ shown.count = decisions
                 /\ Treasury => shown.eventCount = events)
=============================================================================
