---------------------------- MODULE AtomicPrice ----------------------------
(***************************************************************************)
(* What an endpoint charges (c402-server's toAtomic): the price is written *)
(* with a decimal point, the token counts in units of 10^-decimals.  A     *)
(* price is what split(".") makes of it, a sequence of one part or more.   *)
(* A part is a sequence of characters, and a character is a number: a      *)
(* hexadecimal digit its value, and the others as numbered below.  The     *)
(* amount is computed once, when the route is made.                        *)
(***************************************************************************)
EXTENDS Integers, Sequences, SequencesExt

CONSTANTS Prices,       \* the prices written, split at their points
          MaxDecimals,  \* bound: the token's decimals
          None, Refused

B     == 11   \* a digit of radix 16 as well
Minus == 16
Plus  == 17
Space == 18
X     == 19
O     == 20
Other == 21   \* what no integer is written with
Characters == 0..21

PriceAssumption ==
  /\ \A p \in Prices : p \in Seq(Seq(Characters)) /\ p # << >>
  /\ MaxDecimals \in Nat
  /\ None \notin Int /\ Refused \notin Int \cup {None}

VARIABLES price, decimals,
          amount     \* the route's amount, None before, Refused if BigInt throws

vars == <<price, decimals, amount>>

Init ==
  /\ price \in Prices /\ decimals \in 0..MaxDecimals
  /\ amount = None

-----------------------------------------------------------------------------
\* 10n ** BigInt(n)
Pow10[n \in Nat] == IF n = 0 THEN 1 ELSE 10 * Pow10[n - 1]

\* The number that digits say
Value(digits, radix) ==
  LET v[i \in 0..Len(digits)] == IF i = 0 THEN 0 ELSE radix * v[i - 1] + digits[i]
  IN  v[Len(digits)]

\* BigInt of a string: white space around it is nothing, and alone is zero; otherwise it is
\* an integer literal, decimal with a sign or none, or prefixed with its radix.
Trimmed(s) ==
  LET at == {i \in 1..Len(s) : s[i] # Space}
  IN  IF at = {} THEN << >> ELSE SubSeq(s, Min(at), Max(at))

Prefixed(b)  == Len(b) > 1 /\ b[1] = 0 /\ b[2] \in {X, O, B}
Radix(b)     == IF ~Prefixed(b) THEN 10 ELSE IF b[2] = X THEN 16 ELSE IF b[2] = O THEN 8 ELSE 2
DigitsOf(b)  == IF Prefixed(b) THEN SubSeq(b, 3, Len(b))
                ELSE IF b[1] \in {Minus, Plus} THEN Tail(b) ELSE b
IsInteger(b) == /\ DigitsOf(b) # << >>
                /\ \A i \in 1..Len(DigitsOf(b)) : DigitsOf(b)[i] < Radix(b)

BigInt(s) ==
  LET b == Trimmed(s)
      n == Value(DigitsOf(b), Radix(b))
  IN  IF b = << >> THEN 0 ELSE IF ~IsInteger(b) THEN Refused ELSE IF b[1] = Minus THEN -n ELSE n

\* What follows a second point is dropped.
Whole(p)    == p[1]
Fraction(p) == IF Len(p) > 1 THEN p[2] ELSE << >>

\* padded: filled up with zeros, cut to the token's decimals
Filled(f) == f \o [i \in 1..decimals |-> 0]
Padded(f) == SubSeq(Filled(f), 1, decimals)

Atomic(w, f) == IF Refused \in {w, f} THEN Refused ELSE w * Pow10[decimals] + f

\* Mutant: the fraction is not cut before it is parsed.
ToAtomicUncut(p) == Atomic(BigInt(Whole(p)), BigInt(Filled(Fraction(p))))

ToAtomic(p) == Atomic(BigInt(Whole(p)), BigInt(Padded(Fraction(p))))

MakeRoute ==
  /\ amount = None /\ amount' = ToAtomic(price)
  /\ UNCHANGED <<price, decimals>>

Next == MakeRoute
Spec == Init /\ [][Next]_vars

-----------------------------------------------------------------------------
\* A price as one writes it: digits, with at most one point
Plain(p) == Len(p) <= 2 /\ \A k \in 1..Len(p) : \A i \in 1..Len(p[k]) : p[k][i] < 10

\* Something that is in no number stands where it counts.
NoNumber(p) == \/ \E i \in 1..Len(Whole(p)) : Whole(p)[i] = Other
               \/ \E i \in 1..Len(Fraction(p)) : i <= decimals /\ Fraction(p)[i] = Other

\* The amount of a plain price is the price rounded down to the token's unit, never more than
\* was written and less than one unit less, however few or many digits follow the point, if
\* it has one; and a price is refused for what is in no number, unless that stands after the
\* last digit that counts.
AmountIsThePrice ==
  amount # None =>
    /\ Plain(price) =>
         LET written == Value(Whole(price) \o Fraction(price), 10) * Pow10[decimals]
             unit    == Pow10[Len(Fraction(price))] IN
         /\ amount # Refused
         /\ amount * unit <= written /\ written < (amount + 1) * unit
    /\ NoNumber(price) => amount = Refused

=============================================================================
