---------------------------- MODULE Verification ----------------------------
(***************************************************************************)
(* A c402 client pays an endpoint, takes the attestation from the answer   *)
(* and has it verified on chain; a verifier may also be given an           *)
(* attestation file, a bare decision id, or the decision a dashboard has   *)
(* just listed.  Verification is several reads of a chain that moves on    *)
(* between them, each through a node that may fail or lag behind.          *)
(*                                                                         *)
(* Registries hold decisions 1..count[r], all of the engine CdeOf(r); the  *)
(* commitment of decision i of r is the pair <<r, i>>.  A registry and a   *)
(* transaction are on one network each, and the verifier's node reads one. *)
(* An attestation's optional fields may be Absent.  It declares a network, *)
(* at which no check looks, as at its coordinator and output handles,      *)
(* which are left out.                                                     *)
(***************************************************************************)
EXTENDS Naturals

CONSTANTS Registries, CdeOf(_), Txs, Absent,
          Networks, NetworkOf(_),  \* of a registry, of a transaction
          MaxId      \* bound: decisions per registry

ASSUME AbsentAssumption ==
  /\ MaxId \in Nat
  /\ Absent \notin Registries \cup {CdeOf(r) : r \in Registries}

VARIABLES
  count,    \* count[r]: decisions on record
  status,   \* status[t]: "unknown", "success" or "reverted"
  node,     \* the network that the verifier's RPC URL leads to
  pc,       \* where the caller is
  mode,     \* who verifies what
  att,      \* the attestation
  ok,       \* every check so far is
  lost,     \* history: a read failed or came from a node behind
  soundAt,  \* history: all the attestation says held when verification began
  verdict   \* "pending", "valid", "invalid", or "undefined" for none at all

vars == <<count, status, node, pc, mode, att, ok, lost, soundAt, verdict>>
chain == <<count, status, node>>

Ids       == 1..MaxId
Cdes      == {CdeOf(r) : r \in Registries}
Attestation ==
  [nox : BOOLEAN, network : Networks, contract : Cdes \cup Registries \cup {Absent},
   registry : Registries \cup {Absent}, id : Ids \cup {Absent},
   commitment : (Registries \X Ids) \cup {Absent}, tx : Txs \cup {Absent}]
NoAttestation == [nox |-> FALSE, network |-> node, contract |-> Absent,
                  registry |-> Absent, id |-> Absent, commitment |-> Absent, tx |-> Absent]

Init ==
  /\ count = [r \in Registries |-> 0] /\ status = [t \in Txs |-> "unknown"]
  /\ node \in Networks
  /\ pc = "idle" /\ mode = "call" /\ att = NoAttestation
  /\ ok = TRUE /\ lost = FALSE /\ soundAt = FALSE /\ verdict = "pending"

\* What the node can read: what is on its network
Recorded(r, i) == r # Absent /\ i # Absent /\ NetworkOf(r) = node /\ i <= count[r]
Succeeded(t)   == NetworkOf(t) = node /\ status[t] = "success"

\* What an attestation states of the chain that is read, whichever it declares; an id given
\* alone says nothing of the contract.
Sound(m, a) ==
  /\ a.nox
  /\ Recorded(a.registry, a.id)
  /\ m = "id" \/ a.contract = CdeOf(a.registry)
  /\ a.commitment \in {Absent, <<a.registry, a.id>>}
  /\ a.tx = Absent \/ Succeeded(a.tx)

-----------------------------------------------------------------------------
\* The chain moves on
RecordDecision(r) ==
  /\ count[r] < MaxId
  /\ count' = [count EXCEPT ![r] = @ + 1]
  /\ UNCHANGED <<status, node, pc, mode, att, ok, lost, soundAt, verdict>>

MineTx(t) ==
  /\ status[t] = "unknown"
  /\ \E s \in {"success", "reverted"} : status' = [status EXCEPT ![t] = s]
  /\ UNCHANGED <<count, node, pc, mode, att, ok, lost, soundAt, verdict>>

-----------------------------------------------------------------------------
\* verifyAttestation's first checks; without registry or id there is nothing to read.
Begin(m, a) ==
  /\ mode' = m /\ att' = a
  /\ ok' = (a.nox /\ a.contract # Absent)
  /\ soundAt' = Sound(m, a)
  /\ IF a.registry = Absent \/ a.id = Absent
     THEN pc' = "done" /\ verdict' = "invalid"
     ELSE pc' = "registry" /\ UNCHANGED verdict
  /\ UNCHANGED <<chain, lost>>

NoVerdict ==
  /\ pc' = "done" /\ verdict' = "undefined"
  /\ UNCHANGED <<chain, mode, att, ok, lost, soundAt>>

\* c402Fetch: the request is answered 402, paid and sent again
Call ==
  /\ pc = "idle" /\ pc' = "paying" /\ mode' = "call"
  /\ UNCHANGED <<chain, att, ok, lost, soundAt, verdict>>

\* The answer's attestation is the envelope's, or else the header's if that decodes; a
\* server fills in only what its computation returned.  There is no verdict when the
\* caller did not ask for one, gave no RPC URL, or got no attestation: the call was
\* refused, or something threw.
Answer ==
  /\ pc = "paying"
  /\ (\E a \in Attestation : Begin("call", a)) \/ NoVerdict

\* `c402 verify`: an attestation file, or an id with its registry and perhaps --cde.
\* Without --cde the registry's address stands in for the contract.  The network n is that of
\* --network.
IdAttestation(r, i, cde, n) ==
  [nox |-> TRUE, network |-> n, contract |-> IF cde = Absent THEN r ELSE cde,
   registry |-> r, id |-> i, commitment |-> Absent, tx |-> Absent]

VerifyFile == pc = "idle" /\ \E a \in Attestation : Begin("file", a)

VerifyId ==
  /\ pc = "idle"
  /\ \E r \in Registries, i \in Ids, cde \in Cdes \cup {Absent}, n \in Networks :
       Begin(IF cde = Absent THEN "id" ELSE "idCde", IdAttestation(r, i, cde, n))

\* The dashboard verifies the decision it listed last, with the commitment just read, as one
\* of Sepolia's, wherever its RPC URL leads.
VerifyListed ==
  /\ pc = "idle"
  /\ \E r \in Registries, n \in Networks :
       /\ Recorded(r, count[r]) /\ count[r] > 0
       /\ Begin("listed", [nox |-> TRUE, network |-> n, contract |-> CdeOf(r),
                           registry |-> r, id |-> count[r],
                           commitment |-> <<r, count[r]>>, tx |-> Absent])

\* The dashboard's verify page and `xcat verify` only look for the record of an id.
LookUp(m) ==
  /\ pc = "idle" /\ pc' = "lookup" /\ mode' = m
  /\ \E r \in Registries, i \in Ids :
       /\ att' = IdAttestation(r, i, CdeOf(r), node)
       /\ soundAt' = Recorded(r, i)
  /\ UNCHANGED <<chain, ok, lost, verdict>>

VerifyPage == LookUp("page")
XcatVerify == LookUp("xcat")

-----------------------------------------------------------------------------
Conclude(good) == pc' = "done" /\ verdict' = IF good THEN "valid" ELSE "invalid"

AfterRegistry(good) ==
  /\ ok' = good
  /\ IF att.tx = Absent THEN Conclude(good) ELSE pc' = "receipt" /\ UNCHANGED verdict

\* Mutant: an absent commitment does not match.
RecordMatchesInFull ==
  /\ Recorded(att.registry, att.id)
  /\ att.commitment = <<att.registry, att.id>>
  /\ att.contract = CdeOf(att.registry)

RecordMatches ==
  /\ Recorded(att.registry, att.id)
  /\ att.commitment \in {Absent, <<att.registry, att.id>>}
  /\ att.contract = CdeOf(att.registry)

\* getDecision; it reverts for an id without a record, and a failed read is a failed check.
ReadRegistry ==
  /\ pc = "registry"
  /\ \/ AfterRegistry(ok /\ RecordMatches) /\ UNCHANGED lost
     \/ AfterRegistry(FALSE) /\ lost' = TRUE
  /\ UNCHANGED <<chain, mode, att, soundAt>>

\* Mutant: any receipt will do.
ReadReceiptOfAny ==
  /\ pc = "receipt"
  /\ \/ Conclude(ok /\ NetworkOf(att.tx) = node /\ status[att.tx] # "unknown") /\ UNCHANGED lost
     \/ Conclude(FALSE) /\ lost' = TRUE
  /\ UNCHANGED <<chain, mode, att, ok, soundAt>>

ReadReceipt ==
  /\ pc = "receipt"
  /\ \/ Conclude(ok /\ Succeeded(att.tx)) /\ UNCHANGED lost
     \/ Conclude(FALSE) /\ lost' = TRUE
  /\ UNCHANGED <<chain, mode, att, ok, soundAt>>

\* A failed read and a missing record look the same.
ReadRecord ==
  /\ pc = "lookup"
  /\ \/ Conclude(Recorded(att.registry, att.id)) /\ UNCHANGED lost
     \/ Conclude(FALSE) /\ lost' = TRUE
  /\ UNCHANGED <<chain, mode, att, ok, soundAt>>

Next ==
  \/ \E r \in Registries : RecordDecision(r)
  \/ \E t \in Txs : MineTx(t)
  \/ Call \/ Answer \/ VerifyFile \/ VerifyId \/ VerifyListed \/ VerifyPage \/ XcatVerify
  \/ ReadRegistry \/ ReadReceipt \/ ReadRecord

Spec == Init /\ [][Next]_vars

-----------------------------------------------------------------------------
\* Types; a verdict is there exactly when the caller is done.
TypeOK ==
  /\ count \in [Registries -> 0..MaxId]
  /\ status \in [Txs -> {"unknown", "success", "reverted"}] /\ node \in Networks
  /\ pc \in {"idle", "paying", "registry", "receipt", "lookup", "done"}
  /\ mode \in {"call", "file", "id", "idCde", "listed", "page", "xcat"}
  /\ att \in Attestation
  /\ {ok, lost, soundAt} \subseteq BOOLEAN
  /\ verdict \in {"pending", "valid", "invalid", "undefined"}
  /\ pc = "done" <=> verdict # "pending"

\* verifyAttestation: of what is called valid everything that a check looks at (standard,
\* contract, registry, id, commitment and transaction) is so on the chain of the verifier's
\* node, then and ever after, although the reads happen at different times.  That this is the
\* network which the attestation declares is not said: c402-verify/index.ts, 5 and 6, claims it
\* and the code leaves it to who gives the RPC URL.
ValidIsSound == verdict = "valid" => Sound(mode, att)

\* An attestation whose statements all held when verification began is refused only if
\* a read failed: the checks contradict neither each other nor a chain that moves on.
\* (An id given alone is the exception: its registry stands in for the contract, which
\* no record names.)
SoundIsValid ==
  mode # "id" /\ verdict = "invalid" /\ soundAt => lost
=============================================================================
