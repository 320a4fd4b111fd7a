------------------------------ MODULE Launcher ------------------------------
(***************************************************************************)
(* The public endpoint's launcher (scripts/start-public-endpoint.ts): it   *)
(* starts the facilitator, waits until something healthy answers on its    *)
(* port, starts the API, and ends when a child does.  A supervisor, or a   *)
(* person with `pnpm start:endpoint`, starts it again.                     *)
(*                                                                         *)
(* Launchers are numbered by run, children by the run that spawned them.   *)
(* On Render a launcher's children end with it (contained); from a shell   *)
(* nothing ends them, and they keep their ports.                           *)
(***************************************************************************)
EXTENDS Naturals

CONSTANTS Tries,    \* health checks before the launcher gives up (40)
          MaxRuns   \* bound: launchers started

VARIABLES
  contained,  \* the supervisor ends the children with the launcher
  run,        \* the launcher started last
  launcher,   \* "waiting" for the facilitator, "up", or "ended"
  tries,      \* health checks that failed
  child,      \* child[name][r]: "none", "booting", "up", "ending" (SIGTERM) or "ended"
  cause       \* history: cause[r]: why launcher r ended, or "runs"

vars == <<contained, run, launcher, tries, child, cause>>

Names == {"facilitator", "api"}
Runs  == 1..MaxRuns
Alive == {"booting", "up", "ending"}
Listening(name) == \E r \in Runs : child[name][r] \in {"up", "ending"}

Spawned(ch, name) == [ch EXCEPT ![name][run] = "booting"]

\* A launcher's end; where it is contained, its children's.
EndedFor(why, ch) ==
  /\ launcher' = "ended" /\ cause' = [cause EXCEPT ![run] = why]
  /\ child' = IF contained
              THEN [n \in Names |-> [r \in Runs |-> IF ch[n][r] \in Alive THEN "ended" ELSE ch[n][r]]]
              ELSE ch

NoChild == [n \in Names |-> [r \in Runs |-> "none"]]

\* main: the facilitator is started and waited for.
Init ==
  /\ contained \in BOOLEAN
  /\ run = 1 /\ launcher = "waiting" /\ tries = 0
  /\ child = Spawned(NoChild, "facilitator")
  /\ cause = [r \in Runs |-> "runs"]

Restart ==
  /\ launcher = "ended" /\ run < MaxRuns
  /\ run' = run + 1 /\ launcher' = "waiting" /\ tries' = 0
  /\ child' = [child EXCEPT !["facilitator"][run + 1] = "booting"]
  /\ UNCHANGED <<contained, cause>>

-----------------------------------------------------------------------------
\* The children.  One that finds its port taken does not listen, and ends.
Boot(name, r) ==
  /\ child[name][r] = "booting"
  /\ child' = [child EXCEPT ![name][r] = IF Listening(name) THEN "ended" ELSE "up"]
  /\ UNCHANGED <<contained, run, launcher, tries, cause>>

\* A child ends: it fails, or it was told to.
End(name, r) ==
  /\ child[name][r] \in Alive
  /\ child' = [child EXCEPT ![name][r] = "ended"]
  /\ UNCHANGED <<contained, run, launcher, tries, cause>>

-----------------------------------------------------------------------------
\* The launcher
\* Mutant: the API is started without waiting.
HealthyAtOnce ==
  /\ launcher = "waiting"
  /\ launcher' = "up" /\ child' = Spawned(child, "api")
  /\ UNCHANGED <<contained, run, tries, cause>>

\* waitForHealth: whatever listens on the facilitator's port may answer.
Healthy ==
  /\ launcher = "waiting" /\ Listening("facilitator")
  /\ launcher' = "up" /\ child' = Spawned(child, "api")
  /\ UNCHANGED <<contained, run, tries, cause>>

\* A check that fails; after the last one main's catch ends the launcher, and only it.
NotHealthy ==
  /\ launcher = "waiting" /\ tries' = tries + 1
  /\ IF tries' < Tries
     THEN UNCHANGED <<launcher, child, cause>>
     ELSE EndedFor("gave up", child)
  /\ UNCHANGED <<contained, run>>

\* Mutant: the other child is left running.
OnExitAlone(name) ==
  /\ launcher # "ended" /\ child[name][run] = "ended"
  /\ EndedFor("child", child)
  /\ UNCHANGED <<contained, run, tries>>

\* Mutant: only the API is watched.
OnApiExit(name) ==
  /\ launcher # "ended" /\ name = "api" /\ child[name][run] = "ended"
  /\ EndedFor("child", [n \in Names |-> [child[n] EXCEPT ![run] = IF @ \in Alive THEN "ending" ELSE @]])
  /\ UNCHANGED <<contained, run, tries>>

\* child.on("exit"): SIGTERM to the other children, and out.
OnExit(name) ==
  /\ launcher # "ended" /\ child[name][run] = "ended"
  /\ EndedFor("child", [n \in Names |-> [child[n] EXCEPT ![run] = IF @ \in Alive THEN "ending" ELSE @]])
  /\ UNCHANGED <<contained, run, tries>>

\* The launcher is killed, or its terminal closed.
Kill ==
  /\ launcher # "ended"
  /\ EndedFor("killed", child)
  /\ UNCHANGED <<contained, run, tries>>

-----------------------------------------------------------------------------
Next ==
  \/ Restart \/ Healthy \/ NotHealthy \/ Kill
  \/ \E n \in Names : OnExit(n) \/ \E r \in Runs : Boot(n, r) \/ End(n, r)

Spec == Init /\ [][Next]_vars

\* The runtime delivers exit events.
FairSpec == Spec /\ \A n \in Names : WF_vars(OnExit(n))

-----------------------------------------------------------------------------
\* What the proofs assume: there is a launcher, and it checks.
LauncherAssumption == Tries \in Nat \ {0} /\ MaxRuns \in Nat \ {0}

\* Types; a launcher makes no more than Tries checks.
TypeOK ==
  /\ contained \in BOOLEAN /\ run \in Runs /\ launcher \in {"waiting", "up", "ended"}
  /\ tries \in 0..Tries /\ (launcher # "ended" => tries < Tries)
  /\ child \in [Names -> [Runs -> {"none", "booting", "up", "ending", "ended"}]]
  /\ cause \in [Runs -> {"runs", "child", "gave up", "killed"}]

\* A child outlives its launcher only on its way out, or where the launcher gave up on the
\* facilitator's health or was killed, and nothing contained it (line 60 signals nobody).
NobodyIsLeftBehind ==
  \A n \in Names, r \in Runs :
    child[n][r] \in {"booting", "up"} /\ cause[r] # "runs" =>
      ~contained /\ cause[r] \in {"gave up", "killed"}

\* Where nothing is left over, the API is started behind a facilitator that came up: the
\* health check cannot be answered by anything else.
ApiBehindFacilitator ==
  contained => \A r \in Runs : child["api"][r] # "none" => child["facilitator"][r] # "booting"

\* Half a pair does not stay: a launcher whose child ended ends as well.
HalfPairEnds ==
  (\E n \in Names : child[n][run] = "ended") ~> launcher = "ended"
=============================================================================
