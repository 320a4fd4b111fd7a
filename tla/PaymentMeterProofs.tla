------------------------ MODULE PaymentMeterProofs ------------------------
(***************************************************************************)
(* The meter's invariants hold for any payers, recorders, amounts and word *)
(* size.  The inductive invariant is their conjunction: sums stay within a *)
(* word because addends are words, and a settlement is never refused for   *)
(* want of viewers because every sum gave them anew.                       *)
(***************************************************************************)
EXTENDS PaymentMeter, TLAPS

IInv == TypeOK /\ WordsStayServiceable /\ SumsAreOfWhatWasPaid

\* A sum of two words wraps at most once, and stays a word.
LEMMA WrappedIsAWord ==
  ASSUME NEW x \in 0..(W - 1), NEW y \in 0..(W - 1)
  PROVE  /\ Wrapped(x + y) \in 0..(W - 1)
         /\ Wrapped(x + y) = x + y \/ Wrapped(x + y) = x + y - W
BY MeterAssumption DEF Wrapped

\* Every word made by an addition is serviceable, and its value is that of the two addends
\* or W less.
LEMMA PlusIsServiceable ==
  ASSUME NEW w \in Words, NEW a \in 0..(W - 1)
  PROVE  /\ Plus(w, a) \in Words
         /\ Plus(w, a).value # None /\ Serviceable(Plus(w, a))
         /\ Value(Plus(w, a)) = Value(w) + a \/ Value(Plus(w, a)) = Value(w) + a - W
<1>1. Value(w) \in 0..(W - 1)
  BY MeterAssumption DEF Words, Value
<1>2. /\ Wrapped(Value(w) + a) \in 0..(W - 1)
      /\ Wrapped(Value(w) + a) = Value(w) + a \/ Wrapped(Value(w) + a) = Value(w) + a - W
  BY <1>1, WrappedIsAWord
<1>3. Wrapped(Value(w) + a) # None
  BY <1>2, MeterAssumption
<1>4. Plus(w, a).value = Wrapped(Value(w) + a) /\ Plus(w, a).viewers = {Meter, Owner}
  BY DEF Plus
<1>5. Plus(w, a) \in Words
  BY <1>2 DEF Plus, Words
<1> QED
  BY <1>2, <1>3, <1>4, <1>5 DEF Serviceable, Value

\* A sum is off by the word size times the number of times it wrapped.
LEMMA AddingKeepsCongruence ==
  ASSUME NEW n \in Nat, NEW x \in Nat, NEW w \in Words, NEW a \in 0..(W - 1),
         Congruent(x, w, n)
  PROVE  Congruent(x + a, Plus(w, a), n + 1)
<1>1. PICK k \in 0..n : x = Value(w) + k * W
  BY DEF Congruent
<1>2. Value(w) \in 0..(W - 1) /\ W \in Nat
  BY MeterAssumption DEF Words, Value
<1>3. CASE Value(Plus(w, a)) = Value(w) + a
  <2>1. x + a = Value(Plus(w, a)) + k * W
    BY <1>1, <1>2, <1>3
  <2> QED
    BY <2>1 DEF Congruent
<1>4. CASE Value(Plus(w, a)) = Value(w) + a - W
  <2>1. (k + 1) * W = k * W + W
    BY <1>2
  <2>2. x + a = Value(Plus(w, a)) + (k + 1) * W
    <3>1. k * W \in Int
      BY <1>2
    <3> QED
      BY <1>1, <1>2, <1>4, <2>1, <3>1
  <2>3. k + 1 \in 0..(n + 1)
    OBVIOUS
  <2> QED
    BY <2>2, <2>3 DEF Congruent
<1> QED
  BY <1>3, <1>4, PlusIsServiceable

\* More wraps allow what fewer allowed.
LEMMA CongruenceIsMonotone ==
  ASSUME NEW n \in Nat, NEW x, NEW w, Congruent(x, w, n)
  PROVE  Congruent(x, w, n + 1)
BY DEF Congruent

-----------------------------------------------------------------------------
LEMMA InitSatisfiesIInv == Init => IInv
<1> SUFFICES ASSUME Init
             PROVE  IInv
  OBVIOUS
<1>1. Blank \in Words /\ Serviceable(Blank) /\ Blank.value = None /\ Value(Blank) = 0
  BY DEF Blank, Words, Serviceable, Value
<1>2. 0 \in 0..(W - 1)
  BY MeterAssumption
<1>3. /\ grandTotal \in Words /\ grandTotal.value # None /\ Serviceable(grandTotal)
      /\ Value(grandTotal) = 0
  <2>1. grandTotal = Plus(Blank, 0)
    BY DEF Init
  <2>2. 0 < W
    BY MeterAssumption
  <2>3. Plus(Blank, 0).value = 0
    BY <1>1, <2>2 DEF Plus, Wrapped
  <2> QED
    BY <1>1, <1>2, <2>1, <2>3, PlusIsServiceable DEF Value
<1>4. TypeOK
  BY <1>1, <1>3, MeterAssumption DEF Init, TypeOK, Handles
<1>5. WordsStayServiceable
  <2>1. reader # "leak"
    BY DEF Init
  <2> QED
    BY <1>1, <1>3, <2>1 DEF Init, WordsStayServiceable
<1>6. SumsAreOfWhatWasPaid
  <2>1. 0 = 0 + 0 * W /\ 0 \in 0..0
    BY MeterAssumption
  <2> QED
    BY <1>1, <1>3, <2>1 DEF Init, SumsAreOfWhatWasPaid, Congruent
<1> QED
  BY <1>4, <1>5, <1>6 DEF IInv

LEMMA RecordKeepsIInv ==
  ASSUME IInv, NEW r \in Recorders, NEW p \in Payers, NEW a \in Amounts, Record(r, p, a)
  PROVE  IInv'
<1> USE DEF IInv
<1>1. a \in 0..(W - 1) /\ 1 \in 0..(W - 1) /\ a \in Nat
  BY MeterAssumption
<1>2. count[p] \in Words /\ total[p] \in Words /\ grandTotal \in Words
  BY DEF TypeOK
<1>3. /\ records \in Nat /\ records' = records + 1 /\ records' \in 0..MaxRecords
      /\ revenue \in Nat /\ calls[p] \in Nat /\ paid[p] \in Nat
  BY MeterAssumption DEF TypeOK, Record
<1>4. TypeOK'
  <2>1. /\ Plus(count[p], 1) \in Words /\ Plus(total[p], a) \in Words
        /\ Plus(grandTotal, a) \in Words
    BY <1>1, <1>2, PlusIsServiceable
  <2>2. count' \in [Payers -> Words] /\ total' \in [Payers -> Words] /\ grandTotal' \in Words
    BY <2>1 DEF TypeOK, Record
  <2>3. calls' \in [Payers -> Nat] /\ paid' \in [Payers -> Nat] /\ revenue' \in Nat
    BY <1>1, <1>3 DEF TypeOK, Record
  <2> QED
    BY <1>3, <2>2, <2>3 DEF TypeOK, Record
<1>5. WordsStayServiceable'
  <2>1. Serviceable(grandTotal)' /\ grandTotal'.value # None
    BY <1>1, <1>2, PlusIsServiceable DEF Record, Serviceable
  <2>2. ASSUME NEW q \in Payers
        PROVE  /\ Serviceable(count[q])' /\ Serviceable(total[q])'
               /\ count'[q].value = None <=> calls'[q] = 0
               /\ total'[q].value = None <=> calls'[q] = 0
    <3>1. CASE q = p
      <4>1. count'[q] = Plus(count[p], 1) /\ total'[q] = Plus(total[p], a) /\ calls'[q] = calls[p] + 1
        BY <3>1 DEF Record, TypeOK
      <4>2. calls'[q] # 0
        BY <4>1, <1>3
      <4>3. /\ Plus(count[p], 1).value # None /\ Serviceable(Plus(count[p], 1))
            /\ Plus(total[p], a).value # None /\ Serviceable(Plus(total[p], a))
        BY <1>1, <1>2, PlusIsServiceable
      <4>4. Serviceable(count[q])' /\ Serviceable(total[q])'
        BY <4>1, <4>3 DEF Serviceable
      <4>5. (count'[q].value = None <=> calls'[q] = 0) /\ (total'[q].value = None <=> calls'[q] = 0)
        BY <4>1, <4>2, <4>3
      <4> QED
        BY <4>4, <4>5
    <3>2. CASE q # p
      <4>1. count'[q] = count[q] /\ total'[q] = total[q] /\ calls'[q] = calls[q]
        BY <3>2 DEF Record, TypeOK
      <4>2. /\ Serviceable(count[q]) /\ Serviceable(total[q])
            /\ count[q].value = None <=> calls[q] = 0
            /\ total[q].value = None <=> calls[q] = 0
        BY DEF WordsStayServiceable
      <4>3. Serviceable(count[q])' /\ Serviceable(total[q])'
        BY <4>1, <4>2 DEF Serviceable
      <4>4. count'[q].value = None <=> calls'[q] = 0
        BY <4>1, <4>2
      <4>5. total'[q].value = None <=> calls'[q] = 0
        BY <4>1, <4>2
      <4> QED
        BY <4>3, <4>4, <4>5
    <3> QED
      BY <3>1, <3>2
  <2>3. reader' # "leak"
    BY DEF Record, WordsStayServiceable
  <2> QED
    BY <2>1, <2>2, <2>3 DEF WordsStayServiceable
<1>6. SumsAreOfWhatWasPaid'
  <2>1. Congruent(revenue', grandTotal', records')
    BY <1>1, <1>2, <1>3, AddingKeepsCongruence DEF Record, SumsAreOfWhatWasPaid
  <2>2. ASSUME NEW q \in Payers
        PROVE  /\ Congruent(calls'[q], count'[q], records')
               /\ Congruent(paid'[q], total'[q], records')
    <3>1. CASE q = p
      <4>1. /\ count'[q] = Plus(count[p], 1) /\ total'[q] = Plus(total[p], a)
            /\ calls'[q] = calls[p] + 1 /\ paid'[q] = paid[p] + a
        BY <3>1 DEF Record, TypeOK
      <4>2. Congruent(calls[p], count[p], records) /\ Congruent(paid[p], total[p], records)
        BY DEF SumsAreOfWhatWasPaid
      <4>3. Congruent(calls[p] + 1, Plus(count[p], 1), records + 1)
        BY <1>1, <1>2, <1>3, <4>2, AddingKeepsCongruence
      <4>4. Congruent(paid[p] + a, Plus(total[p], a), records + 1)
        BY <1>1, <1>2, <1>3, <4>2, AddingKeepsCongruence
      <4> QED
        BY <1>3, <4>1, <4>3, <4>4
    <3>2. CASE q # p
      <4>1. /\ count'[q] = count[q] /\ total'[q] = total[q]
            /\ calls'[q] = calls[q] /\ paid'[q] = paid[q]
        BY <3>2 DEF Record, TypeOK
      <4> QED
        BY <1>3, <4>1, CongruenceIsMonotone DEF SumsAreOfWhatWasPaid
    <3> QED
      BY <3>1, <3>2
  <2> QED
    BY <2>1, <2>2 DEF SumsAreOfWhatWasPaid
<1> QED
  BY <1>4, <1>5, <1>6

\* Nothing but a settlement touches the words or the history.
LEMMA OthersKeepIInv ==
  ASSUME IInv, SetRecorder \/ ReadHandle \/ Decrypt \/ Stranger \/ UNCHANGED vars
  PROVE  IInv'
<1> USE DEF IInv
<1>1. UNCHANGED <<words, calls, paid, revenue, records>>
  BY DEF SetRecorder, ReadHandle, Decrypt, Stranger, vars, words
<1>2. WordsStayServiceable'
  <2>1. reader # "leak"
    BY DEF WordsStayServiceable
  <2>2. seen["grand"].viewers \subseteq {Meter, Owner}
    BY DEF TypeOK, Handles, Words
  <2>3. reader' # "leak"
    <3>1. CASE ReadHandle
      BY <3>1 DEF ReadHandle, Handles, After
    <3>2. CASE SetRecorder \/ Decrypt \/ Stranger \/ UNCHANGED vars
      BY <2>1, <2>2, <3>2 DEF SetRecorder, Decrypt, Stranger, vars
    <3> QED
      BY <3>1, <3>2
  <2> QED
    BY <1>1, <2>3 DEF WordsStayServiceable, Serviceable, words
<1>3. SumsAreOfWhatWasPaid'
  BY <1>1 DEF SumsAreOfWhatWasPaid, Congruent, Value, words
<1>4. TypeOK'
  <2>1. /\ count' \in [Payers -> Words] /\ total' \in [Payers -> Words] /\ grandTotal' \in Words
        /\ calls' \in [Payers -> Nat] /\ paid' \in [Payers -> Nat]
        /\ revenue' \in Nat /\ records' \in 0..MaxRecords
    BY <1>1 DEF TypeOK, words
  <2>2. isRecorder' \subseteq Recorders
    BY DEF TypeOK, SetRecorder, ReadHandle, Decrypt, Stranger, vars
  <2>3. reader' \in Handles \cup {"decrypt", "stranger", "denied", "leak", "failed"}
    BY DEF TypeOK, SetRecorder, ReadHandle, Decrypt, Stranger, vars, Handles, After
  <2>4. seen' \in [Handles -> Words]
    <3>1. CASE ReadHandle
      <4>1. Latest[reader] \in Words
        BY <3>1, MeterAssumption DEF ReadHandle, Latest, Handles, TypeOK
      <4> QED
        BY <3>1, <4>1 DEF ReadHandle, TypeOK
    <3>2. CASE SetRecorder \/ Decrypt \/ Stranger \/ UNCHANGED vars
      BY <3>2 DEF SetRecorder, Decrypt, Stranger, vars, TypeOK
    <3> QED
      BY <3>1, <3>2
  <2> QED
    BY <2>1, <2>2, <2>3, <2>4 DEF TypeOK
<1> QED
  BY <1>2, <1>3, <1>4

THEOREM IInvIsInvariant == Spec => []IInv
<1>1. Init => IInv
  BY InitSatisfiesIInv
<1>2. IInv /\ [Next]_vars => IInv'
  <2> SUFFICES ASSUME IInv, [Next]_vars
               PROVE  IInv'
    OBVIOUS
  <2> QED
    BY RecordKeepsIInv, OthersKeepIInv DEF Next
<1> QED
  BY <1>1, <1>2, PTL DEF Spec

\* Type correctness of the meter: sums of words are words, however often they wrap.
THEOREM TypeCorrect == Spec => []TypeOK
BY IInvIsInvariant, PTL DEF IInv

\* Every sum can be added to again and read by the owner, and by no one else, for any number
\* of settlements: no record() leaves a word the next one cannot use.
THEOREM WordsServiceable == Spec => []WordsStayServiceable
BY IInvIsInvariant, PTL DEF IInv

\* Counts, totals and the grand total are what was metered, up to a multiple of the word
\* size, for all payers and amounts: no settlement is lost or counted for another payer.
THEOREM SumsCorrect == Spec => []SumsAreOfWhatWasPaid
BY IInvIsInvariant, PTL DEF IInv
=============================================================================
