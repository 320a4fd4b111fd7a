---------------------------- MODULE PaymentMeter ----------------------------
(***************************************************************************)
(* PaymentMeter.sol and the script that demonstrates it (read-meter.ts).   *)
(* Recorders add encrypted amounts to a payer's count and total and to the *)
(* grand total.  Every addition makes a new encrypted word, which only     *)
(* those may use who are allowed to: the meter, to add to it again, and    *)
(* the owner, to decrypt it.  Words wrap silently.                         *)
(*                                                                         *)
(* The script, run by the owner, reads three handles one after another and *)
(* then decrypts them, while recording goes on.                            *)
(***************************************************************************)
EXTENDS Integers

CONSTANTS Payers, Recorders,
          Owner, Meter,
          Amounts,     \* amounts recorded: words
          W,           \* number of words (2^256)
          None,        \* a word not initialised
          MaxRecords   \* bound: settlements recorded

ASSUME MeterAssumption ==
  /\ W \in Nat /\ W > 1 /\ Amounts \subseteq 0..(W - 1)
  /\ Owner \in Payers /\ None \notin Int /\ MaxRecords \in Nat

VARIABLES
  isRecorder,
  count, total, grandTotal,  \* encrypted words: their values and viewers
  calls, paid, revenue,      \* history: settlements and amounts, unbounded
  records,
  reader, seen               \* the script: what it does next, and the words it read

words == <<count, total, grandTotal>>
vars  == <<isRecorder, count, total, grandTotal, calls, paid, revenue, records, reader, seen>>

Handles == {"grand", "count", "total"}
Blank == [value |-> None, viewers |-> {}]

\* Nox.add, then allowThis and allow for the owner, on the new word
Value(w) == IF w.value = None THEN 0 ELSE w.value
Wrapped(x) == IF x < W THEN x ELSE x - W
Usable(w) == w.value = None \/ Meter \in w.viewers

\* Mutant: the new word is not allowed to the meter.
PlusOwnerOnly(w, x) == [value |-> Wrapped(Value(w) + x), viewers |-> {Owner}]
Plus(w, x) == [value |-> Wrapped(Value(w) + x), viewers |-> {Meter, Owner}]

\* The constructor, and a script not yet started.
Init ==
  /\ isRecorder = {}
  /\ count = [p \in Payers |-> Blank] /\ total = [p \in Payers |-> Blank]
  /\ grandTotal = Plus(Blank, 0)
  /\ calls = [p \in Payers |-> 0] /\ paid = [p \in Payers |-> 0] /\ revenue = 0 /\ records = 0
  /\ reader = "grand" /\ seen = [f \in Handles |-> Blank]

-----------------------------------------------------------------------------
SetRecorder ==
  /\ \E r \in Recorders, allowed \in BOOLEAN :
       isRecorder' = IF allowed THEN isRecorder \cup {r} ELSE isRecorder \ {r}
  /\ UNCHANGED <<words, calls, paid, revenue, records, reader, seen>>

\* Mutant: the amount is not added to a payer's first total.
RecordFirstFree(r, p, a) ==
  /\ r \in isRecorder /\ records < MaxRecords /\ records' = records + 1
  /\ Usable(count[p]) /\ Usable(total[p]) /\ Usable(grandTotal)
  /\ count' = [count EXCEPT ![p] = Plus(@, 1)]
  /\ total' = [total EXCEPT ![p] = Plus(@, IF @ = Blank THEN 0 ELSE a)]
  /\ grandTotal' = Plus(grandTotal, a)
  /\ calls' = [calls EXCEPT ![p] = @ + 1] /\ paid' = [paid EXCEPT ![p] = @ + a]
  /\ revenue' = revenue + a
  /\ UNCHANGED <<isRecorder, reader, seen>>

Record(r, p, a) ==
  /\ r \in isRecorder /\ records < MaxRecords /\ records' = records + 1
  /\ Usable(count[p]) /\ Usable(total[p]) /\ Usable(grandTotal)
  /\ count' = [count EXCEPT ![p] = Plus(@, 1)]
  /\ total' = [total EXCEPT ![p] = Plus(@, a)]
  /\ grandTotal' = Plus(grandTotal, a)
  /\ calls' = [calls EXCEPT ![p] = @ + 1] /\ paid' = [paid EXCEPT ![p] = @ + a]
  /\ revenue' = revenue + a
  /\ UNCHANGED <<isRecorder, reader, seen>>

-----------------------------------------------------------------------------
\* The script (main): the grand total's handle first, then those of the owner's own words
Latest == [grand |-> grandTotal, count |-> count[Owner], total |-> total[Owner]]
After  == [grand |-> "count", count |-> "total", total |-> "decrypt"]

ReadHandle ==
  /\ reader \in Handles
  /\ seen' = [seen EXCEPT ![reader] = Latest[reader]]
  /\ reader' = After[reader]
  /\ UNCHANGED <<isRecorder, words, calls, paid, revenue, records>>

\* The owner decrypts all three.  It does not wait for words that are not computed yet.
Decrypt ==
  /\ reader = "decrypt"
  /\ \/ (\A f \in Handles : Owner \in seen[f].viewers) /\ reader' = "stranger"
     \/ reader' = "failed"
  /\ UNCHANGED <<isRecorder, words, calls, paid, revenue, records, seen>>

\* A wallet made up for the occasion decrypts the grand total.  Whatever is thrown counts
\* as a denial.
Stranger ==
  /\ reader = "stranger"
  /\ IF seen["grand"].viewers \subseteq {Meter, Owner}
     THEN reader' = "denied"
     ELSE reader' = "leak"
  /\ UNCHANGED <<isRecorder, words, calls, paid, revenue, records, seen>>

-----------------------------------------------------------------------------
Next ==
  \/ SetRecorder
  \/ \E r \in Recorders, p \in Payers, a \in Amounts : Record(r, p, a)
  \/ ReadHandle \/ Decrypt \/ Stranger

Spec == Init /\ [][Next]_vars

-----------------------------------------------------------------------------
Words == [value : 0..(W - 1) \cup {None}, viewers : SUBSET {Meter, Owner}]

\* Types.
TypeOK ==
  /\ isRecorder \subseteq Recorders
  /\ count \in [Payers -> Words] /\ total \in [Payers -> Words] /\ grandTotal \in Words
  /\ calls \in [Payers -> Nat] /\ paid \in [Payers -> Nat]
  /\ revenue \in Nat /\ records \in 0..MaxRecords
  /\ reader \in Handles \cup {"decrypt", "stranger", "denied", "leak", "failed"}
  /\ seen \in [Handles -> Words]

\* Every word can be added to again by the meter and read by its owner, and by no one else
\* (record gives each new word its viewers anew); a payer has words once it was metered.
\* So the script never finds a word that its stranger may read (read-meter.ts, 43 to 53),
\* whichever of the words it came upon while settlements were recorded.
Serviceable(w) == w.viewers = IF w.value = None THEN {} ELSE {Meter, Owner}
WordsStayServiceable ==
  /\ Serviceable(grandTotal) /\ grandTotal.value # None
  /\ \A p \in Payers : /\ Serviceable(count[p]) /\ Serviceable(total[p])
                       /\ count[p].value = None <=> calls[p] = 0
                       /\ total[p].value = None <=> calls[p] = 0
  /\ reader # "leak"

\* Counts and totals are what was metered, up to wrapping: no settlement is lost or counted
\* for another payer, whoever records and in whatever order (record, 45 to 68).
Congruent(x, w, wraps) == \E k \in 0..wraps : x = Value(w) + k * W
SumsAreOfWhatWasPaid ==
  /\ Congruent(revenue, grandTotal, records)
  /\ \A p \in Payers : /\ Congruent(calls[p], count[p], records)
                       /\ Congruent(paid[p], total[p], records)
=============================================================================
