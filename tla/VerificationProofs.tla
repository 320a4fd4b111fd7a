------------------------ MODULE VerificationProofs -------------------------
(***************************************************************************)
(* A verdict is right for any registries, transactions and attestations,   *)
(* although the chain moves on between the reads it is made of.            *)
(*                                                                         *)
(* What an attestation states never ceases to hold once it does, so each   *)
(* check stays true after its read (Checked), and what held when           *)
(* verification began still holds at every later read (Kept).              *)
(***************************************************************************)
EXTENDS Verification, TLAPS

\* Only lookups have no checks before their one read; what they look for is an id's record.
Lookup == mode \in {"page", "xcat"}

Located == att.registry \in Registries /\ att.id \in Ids

\* What the checks so far have shown
Checked ==
  /\ pc = "registry" => /\ Located /\ ~Lookup
                        /\ ok <=> att.nox /\ att.contract # Absent
  /\ pc = "receipt"  => /\ Located /\ ~Lookup /\ att.tx \in Txs /\ att.tx # Absent
                        /\ ok => att.nox /\ att.contract # Absent /\ RecordMatches
  /\ pc = "lookup"   => /\ Located
                        /\ att.nox /\ att.contract = CdeOf(att.registry)
                        /\ att.commitment = Absent /\ att.tx = Absent

\* What held at the beginning holds, and is not refused by the registry
Kept ==
  /\ pc \in {"idle", "paying"} => ~soundAt
  /\ soundAt => Sound(mode, att)
  /\ pc = "receipt" /\ soundAt /\ mode # "id" => ok \/ lost

IInv == TypeOK /\ Checked /\ Kept /\ ValidIsSound /\ SoundIsValid

-----------------------------------------------------------------------------
\* Decisions stay on record and receipts stay as they are.
LEMMA ChainMovesOn ==
  ASSUME TypeOK, (\E r \in Registries : RecordDecision(r)) \/ (\E t \in Txs : MineTx(t))
  PROVE  /\ UNCHANGED <<node, pc, mode, att, ok, lost, soundAt, verdict>>
         /\ count' \in [Registries -> 0..MaxId]
         /\ \A r \in Registries : count'[r] >= count[r]
         /\ status' \in [Txs -> {"unknown", "success", "reverted"}]
         /\ \A t \in Txs : status[t] = "success" => status'[t] = "success"
<1>1. CASE \E r \in Registries : RecordDecision(r)
  <2>1. PICK r \in Registries : RecordDecision(r)
    BY <1>1
  <2>2. MaxId \in Nat /\ count \in [Registries -> 0..MaxId]
    BY AbsentAssumption DEF TypeOK
  <2>3. /\ count' \in [Registries -> 0..MaxId]
        /\ \A s \in Registries : count'[s] >= count[s]
    BY <2>1, <2>2 DEF RecordDecision
  <2> QED
    BY <2>1, <2>3 DEF RecordDecision, TypeOK
<1>2. CASE \E t \in Txs : MineTx(t)
  <2>1. PICK t \in Txs : MineTx(t)
    BY <1>2
  <2>2. \A r \in Registries : count[r] >= count[r]
    <3>1. count \in [Registries -> 0..MaxId]
      BY DEF TypeOK
    <3>2. TAKE r \in Registries
    <3>3. count[r] \in 0..MaxId
      BY <3>1
    <3> QED
      BY <3>3, AbsentAssumption
  <2> QED
    BY <2>1, <2>2 DEF MineTx, TypeOK
<1> QED
  BY <1>1, <1>2

\* So whatever an attestation states stays true.
LEMMA FactsStay ==
  ASSUME TypeOK, UNCHANGED <<mode, att>>,
         \/ UNCHANGED chain
         \/ (\E r \in Registries : RecordDecision(r)) \/ (\E t \in Txs : MineTx(t))
  PROVE  /\ UNCHANGED node
         /\ Sound(mode, att) => Sound(mode, att)'
         /\ att.registry \in Registries /\ RecordMatches => RecordMatches'
<1>1. /\ \A r \in Registries : count[r] \in 0..MaxId /\ count'[r] \in 0..MaxId /\ count'[r] >= count[r]
      /\ \A t \in Txs : status[t] = "success" => status'[t] = "success"
      /\ UNCHANGED node
  <2>1. CASE UNCHANGED chain
    BY <2>1, AbsentAssumption DEF chain, TypeOK
  <2> QED
    BY <2>1, ChainMovesOn DEF TypeOK
<1>2. att \in Attestation
  BY DEF TypeOK
<1>3. \A i : att.registry \in Registries /\ i \in Ids /\ Recorded(att.registry, i) => Recorded(att.registry, i)'
  BY <1>1, AbsentAssumption DEF Recorded, Ids
<1>4. Recorded(att.registry, att.id) => att.registry \in Registries /\ att.id \in Ids
  BY <1>2 DEF Recorded, Attestation
<1>5. Recorded(att.registry, att.id) => Recorded(att.registry, att.id)'
  BY <1>3, <1>4
<1>6. att.tx # Absent => att.tx \in Txs
  BY <1>2 DEF Attestation
<1> QED
  BY <1>1, <1>5, <1>6 DEF Sound, RecordMatches, Succeeded

\* verifyAttestation starts, or there is nothing for it to read.
LEMMA BeginStep ==
  ASSUME IInv, pc \in {"idle", "paying"}, verdict = "pending",
         NEW m \in {"call", "file", "id", "idCde", "listed"}, NEW a \in Attestation, Begin(m, a)
  PROVE  IInv'
<1>1. UNCHANGED <<count, status, node, lost>> /\ mode' = m /\ att' = a
  BY DEF Begin, chain
<1>2. Sound(m, a)' <=> Sound(m, a)
  BY <1>1 DEF Sound, Recorded, Succeeded
<1>3. soundAt' = Sound(m, a) /\ soundAt' \in BOOLEAN /\ ok' \in BOOLEAN
      /\ (ok' <=> a.nox /\ a.contract # Absent)
  BY DEF Begin, Sound
<1>4. CASE a.registry = Absent \/ a.id = Absent
  <2>1. pc' = "done" /\ verdict' = "invalid" /\ ~Sound(m, a)
    BY <1>4 DEF Begin, Sound, Recorded
  <2> QED
    BY <1>1, <1>2, <1>3, <2>1 DEF IInv, TypeOK, Attestation, Checked, Kept, ValidIsSound, SoundIsValid
<1>5. CASE ~(a.registry = Absent \/ a.id = Absent)
  <2>1. pc' = "registry" /\ verdict' = "pending" /\ a.registry \in Registries /\ a.id \in Ids
    BY <1>5 DEF Begin, Attestation
  <2> QED
    BY <1>1, <1>2, <1>3, <2>1
       DEF IInv, TypeOK, Checked, Kept, ValidIsSound, SoundIsValid, Located, Lookup
<1> QED
  BY <1>4, <1>5

\* A read of the registry or of a receipt adds its check, or fails.
LEMMA ReadStep ==
  ASSUME IInv, ReadRegistry \/ ReadReceipt \/ ReadRecord
  PROVE  IInv'
<1>1. UNCHANGED <<count, status, node, mode, att, soundAt>> /\ att \in Attestation
  BY DEF ReadRegistry, ReadReceipt, ReadRecord, chain, IInv, TypeOK
<1>2. /\ Sound(mode, att)' <=> Sound(mode, att)
      /\ RecordMatches' <=> RecordMatches
      /\ Located' <=> Located
      /\ Lookup' <=> Lookup
  BY <1>1 DEF Sound, RecordMatches, Recorded, Succeeded, Located, Lookup
<1>3. verdict = "pending" /\ pc # "done"
  BY DEF ReadRegistry, ReadReceipt, ReadRecord, IInv, TypeOK
<1>4. CASE ReadRegistry
  <2>1. PICK good \in BOOLEAN :
          /\ AfterRegistry(good)
          /\ good => ok /\ RecordMatches
          /\ good \/ lost' = TRUE \/ ~(ok /\ RecordMatches)
          /\ lost' \in BOOLEAN /\ (lost => lost')
    <3>1. (ok /\ RecordMatches) \in BOOLEAN /\ lost \in BOOLEAN
      BY DEF IInv, TypeOK
    <3>2. CASE AfterRegistry(ok /\ RecordMatches) /\ UNCHANGED lost
      BY <3>1, <3>2
    <3>3. CASE AfterRegistry(FALSE) /\ lost' = TRUE
      BY <3>1, <3>3
    <3> QED
      BY <1>4, <3>2, <3>3 DEF ReadRegistry
  <2>2. Located /\ ~Lookup /\ (ok <=> att.nox /\ att.contract # Absent)
    BY <1>4 DEF ReadRegistry, IInv, Checked
  <2>3. good => att.nox /\ att.contract # Absent /\ RecordMatches
    BY <2>1, <2>2
  <2>4. soundAt /\ mode # "id" => ok /\ RecordMatches
    <3>1. soundAt => Sound(mode, att)
      BY <1>4 DEF ReadRegistry, IInv, Kept
    <3>2. CdeOf(att.registry) # Absent
      BY <2>2, AbsentAssumption DEF Located
    <3> QED
      BY <2>2, <3>1, <3>2 DEF Sound, RecordMatches
  <2>5. CASE att.tx = Absent
    <3>1. pc' = "done" /\ ok' = good /\ verdict' = (IF good THEN "valid" ELSE "invalid")
      BY <2>1, <2>5 DEF AfterRegistry, Conclude
    <3>2. good => Sound(mode, att)
      BY <2>3, <2>5 DEF Sound, RecordMatches
    <3> QED
      BY <1>1, <1>2, <2>1, <2>4, <3>1, <3>2, <1>4
         DEF ReadRegistry, IInv, TypeOK, Checked, Kept, ValidIsSound, SoundIsValid
  <2>6. CASE att.tx # Absent
    <3>1. pc' = "receipt" /\ ok' = good /\ verdict' = "pending"
      BY <1>3, <2>1, <2>6 DEF AfterRegistry
    <3>2. att.tx \in Txs
      BY <1>1, <2>6 DEF Attestation
    <3> QED
      BY <1>1, <1>2, <2>1, <2>2, <2>3, <2>4, <2>6, <3>1, <3>2, <1>4
         DEF ReadRegistry, IInv, TypeOK, Checked, Kept, ValidIsSound, SoundIsValid
  <2> QED
    BY <2>5, <2>6
<1>5. CASE ReadReceipt
  <2>1. /\ Located /\ ~Lookup /\ att.tx \in Txs /\ att.tx # Absent
        /\ ok => att.nox /\ att.contract # Absent /\ RecordMatches
        /\ soundAt => Sound(mode, att)
        /\ soundAt /\ mode # "id" => ok \/ lost
    BY <1>5 DEF ReadReceipt, IInv, Checked, Kept
  <2>2. pc' = "done" /\ ok' = ok
    BY <1>5 DEF ReadReceipt, Conclude
  <2>3. \/ verdict' = "valid" /\ ok /\ Succeeded(att.tx) /\ lost' = lost
        \/ verdict' = "invalid" /\ lost' = TRUE
        \/ verdict' = "invalid" /\ lost' = lost /\ ~(ok /\ Succeeded(att.tx))
    BY <1>5 DEF ReadReceipt, Conclude
  <2>4. ok /\ Succeeded(att.tx) => Sound(mode, att)
    BY <2>1 DEF Sound, RecordMatches
  <2>5. soundAt => Succeeded(att.tx)
    BY <2>1 DEF Sound
  <2> QED
    BY <1>1, <1>2, <2>1, <2>2, <2>3, <2>4, <2>5
       DEF IInv, TypeOK, Checked, Kept, ValidIsSound, SoundIsValid
<1>6. CASE ReadRecord
  <2>1. /\ Located /\ att.nox /\ att.contract = CdeOf(att.registry)
        /\ att.commitment = Absent /\ att.tx = Absent
        /\ soundAt => Sound(mode, att)
    BY <1>6 DEF ReadRecord, IInv, Checked, Kept
  <2>2. pc' = "done" /\ ok' = ok
    BY <1>6 DEF ReadRecord, Conclude
  <2>3. \/ verdict' = "valid" /\ Recorded(att.registry, att.id) /\ lost' = lost
        \/ verdict' = "invalid" /\ lost' = TRUE
        \/ verdict' = "invalid" /\ lost' = lost /\ ~Recorded(att.registry, att.id)
    BY <1>6 DEF ReadRecord, Conclude
  <2>4. Recorded(att.registry, att.id) <=> Sound(mode, att)
    BY <2>1 DEF Sound
  <2> QED
    BY <1>1, <1>2, <2>1, <2>2, <2>3, <2>4
       DEF IInv, TypeOK, Checked, Kept, ValidIsSound, SoundIsValid
<1> QED
  BY <1>4, <1>5, <1>6

-----------------------------------------------------------------------------
\* Nothing is verified at the start.
LEMMA InitInv == Init => IInv
<1> SUFFICES ASSUME Init
             PROVE  IInv
  OBVIOUS
<1>1. /\ pc = "idle" /\ mode = "call" /\ verdict = "pending"
      /\ ok = TRUE /\ lost = FALSE /\ soundAt = FALSE
  BY DEF Init
<1>2. count \in [Registries -> 0..MaxId]
  <2>1. 0 \in 0..MaxId
    BY AbsentAssumption
  <2> QED
    BY <2>1 DEF Init
<1>3. status \in [Txs -> {"unknown", "success", "reverted"}]
  BY DEF Init
<1>4. att \in Attestation
  <2>1. node \in Networks /\ att = NoAttestation
    BY DEF Init
  <2> QED
    BY <2>1 DEF NoAttestation, Attestation
<1>5. TypeOK
  BY <1>1, <1>2, <1>3, <1>4 DEF TypeOK, Init
<1> QED
  BY <1>1, <1>5 DEF IInv, Checked, Kept, ValidIsSound, SoundIsValid

\* Each step keeps the invariant.
LEMMA StepInv == IInv /\ [Next]_vars => IInv'
<1> SUFFICES ASSUME IInv, [Next]_vars
             PROVE  IInv'
  OBVIOUS
<1>1. TypeOK
  BY DEF IInv
<1>2. CASE (\E r \in Registries : RecordDecision(r)) \/ (\E t \in Txs : MineTx(t))
  <2>1. /\ UNCHANGED <<node, pc, mode, att, ok, lost, soundAt, verdict>>
        /\ count' \in [Registries -> 0..MaxId]
        /\ status' \in [Txs -> {"unknown", "success", "reverted"}]
    BY <1>1, <1>2, ChainMovesOn
  <2>2. /\ Sound(mode, att) => Sound(mode, att)'
        /\ att.registry \in Registries /\ RecordMatches => RecordMatches'
    BY <1>1, <1>2, <2>1, FactsStay
  <2>3. TypeOK'
    BY <1>1, <2>1 DEF TypeOK
  <2>4. Checked'
    BY <2>1, <2>2 DEF IInv, Checked, Located, Lookup
  <2> QED
    BY <2>1, <2>2, <2>3, <2>4 DEF IInv, Kept, ValidIsSound, SoundIsValid
<1>3. pc \in {"idle", "paying"} => verdict = "pending"
  BY <1>1 DEF TypeOK
<1>4. CASE Call
  BY <1>4 DEF Call, chain, IInv, TypeOK, Checked, Kept, ValidIsSound, SoundIsValid
<1>5. CASE Answer
  <2>2. pc = "paying"
    BY <1>5 DEF Answer
  <2>3. CASE \E a \in Attestation : Begin("call", a)
    BY <1>3, <2>2, <2>3, BeginStep
  <2>4. CASE NoVerdict
    <3>1. /\ pc' = "done" /\ verdict' = "undefined"
          /\ UNCHANGED <<count, status, node, mode, att, ok, lost, soundAt>>
      BY <2>4 DEF NoVerdict, chain
    <3>2. ~soundAt
      BY <2>2 DEF IInv, Kept
    <3> QED
      BY <3>1, <3>2 DEF IInv, TypeOK, Checked, Kept, ValidIsSound, SoundIsValid
  <2> QED
    BY <1>5, <2>3, <2>4 DEF Answer
<1>6. CASE VerifyFile
  BY <1>3, <1>6, BeginStep DEF VerifyFile
<1>7. CASE VerifyId
  <2>1. PICK r \in Registries, i \in Ids, cde \in Cdes \cup {Absent}, n \in Networks :
          Begin(IF cde = Absent THEN "id" ELSE "idCde", IdAttestation(r, i, cde, n))
    BY <1>7 DEF VerifyId
  <2>2. IdAttestation(r, i, cde, n) \in Attestation
    BY DEF IdAttestation, Attestation
  <2> QED
    BY <1>3, <1>7, <2>1, <2>2, BeginStep DEF VerifyId
<1>8. CASE VerifyListed
  <2>1. PICK r \in Registries, n \in Networks :
          /\ count[r] > 0
          /\ Begin("listed", [nox |-> TRUE, network |-> n, contract |-> CdeOf(r), registry |-> r,
                             id |-> count[r], commitment |-> <<r, count[r]>>, tx |-> Absent])
    BY <1>8 DEF VerifyListed
  <2>2. count[r] \in Ids
    BY <1>1, <2>1, AbsentAssumption DEF TypeOK, Ids
  <2>3. [nox |-> TRUE, network |-> n, contract |-> CdeOf(r), registry |-> r, id |-> count[r],
         commitment |-> <<r, count[r]>>, tx |-> Absent] \in Attestation
    BY <2>2 DEF Attestation, Cdes
  <2> QED
    BY <1>3, <1>8, <2>1, <2>3, BeginStep DEF VerifyListed
<1>9. ASSUME NEW m \in {"page", "xcat"}, LookUp(m)
      PROVE  IInv'
  <2>1. PICK r \in Registries, i \in Ids :
          att' = IdAttestation(r, i, CdeOf(r), node) /\ soundAt' = Recorded(r, i)
    BY <1>9 DEF LookUp
  <2>2. CdeOf(r) # Absent /\ node \in Networks /\ IdAttestation(r, i, CdeOf(r), node) \in Attestation
    BY <1>1, AbsentAssumption DEF IdAttestation, Attestation, Cdes, TypeOK
  <2>3. /\ att'.registry = r /\ att'.id = i /\ att'.nox /\ att'.contract = CdeOf(r)
        /\ att'.commitment = Absent /\ att'.tx = Absent
    BY <2>1, <2>2 DEF IdAttestation
  <2>4. /\ pc' = "lookup" /\ mode' = m /\ verdict' = "pending"
        /\ UNCHANGED <<count, status, node, ok, lost, verdict>>
    BY <1>3, <1>9 DEF LookUp, chain
  <2>5. soundAt' \in BOOLEAN /\ (soundAt' <=> Sound(mode, att)')
    BY <2>1, <2>3, <2>4 DEF Sound, Recorded
  <2> QED
    BY <1>9, <2>1, <2>2, <2>3, <2>4, <2>5
       DEF IInv, TypeOK, Checked, Kept, ValidIsSound, SoundIsValid, Located
<1>10. CASE ReadRegistry \/ ReadReceipt \/ ReadRecord
  BY <1>10, ReadStep
<1>11. CASE UNCHANGED vars
  <2>1. UNCHANGED <<pc, mode, att, ok, lost, soundAt, verdict, count, status, node>>
    BY <1>11 DEF vars
  <2> QED
    BY <2>1 DEF IInv, TypeOK, Checked, Kept, ValidIsSound, SoundIsValid, Sound, RecordMatches,
                Recorded, Succeeded, Located, Lookup
<1> QED
  BY <1>2, <1>4, <1>5, <1>6, <1>7, <1>8, <1>9, <1>10, <1>11 DEF Next, VerifyPage, XcatVerify

\* The types, what the checks have shown, and that what held still holds.
THEOREM Invariance == Spec => []IInv
BY InitInv, StepInv, PTL DEF Spec

\* Types; a verdict is given at the end and not before.
THEOREM TypeCorrect == Spec => []TypeOK
<1>1. IInv => TypeOK
  BY DEF IInv
<1> QED
  BY Invariance, <1>1, PTL

\* What verifyAttestation and the lookups call valid agrees with the chain that they read in
\* every field they look at (standard, contract, registry, id, commitment, transaction), for any
\* attestation, and although the reads happen at different times.  Whether that chain is the
\* network which the attestation declares, no check asks.
THEOREM ValidVerdictsAreSound == Spec => []ValidIsSound
<1>1. IInv => ValidIsSound
  BY DEF IInv
<1> QED
  BY Invariance, <1>1, PTL

\* What held when verification began is refused only if a read failed or lagged: the checks
\* do not contradict each other, nor a chain that moves on.
THEOREM SoundAttestationsAreValid == Spec => []SoundIsValid
<1>1. IInv => SoundIsValid
  BY DEF IInv
<1> QED
  BY Invariance, <1>1, PTL
=============================================================================
