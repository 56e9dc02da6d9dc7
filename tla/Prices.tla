------------------------------- MODULE Prices -------------------------------
(***************************************************************************)
(* What becomes of a price: value_problem and the plausible range, with    *)
(* the loop of canonical (core/checks.py), and for a series with observed  *)
(* pairs the estimate from their median (core/gap.py), up to the item that *)
(* is sent. How old a reading is, the rest of reading_problem, is in       *)
(* Collect.                                                                *)
(*                                                                         *)
(* A decimal is its digits and its exponent, as decimal.Decimal keeps it:  *)
(* the same number has many forms. Its value is a whole number of Units,   *)
(* the smallest that the exponents of the model allow. Shares of a price   *)
(* are fractions with the denominator Whole.                               *)
(***************************************************************************)
EXTENDS Decimals, Sequences, SequencesExt, FiniteSetsExt

CONSTANTS
    MaxDigits,     \* bound: digits of a source's value
    MaxExponent,   \* bound: its exponent
    MinExponent,   \* bound: its exponent, negated
    MaxWhole,      \* MAX_VALUE is Base ^ MaxWhole
    PlausibleMin, PlausibleMax,   \* of the series, in steps
    Whole,         \* bound: the denominator of a share
    MaxSamples     \* bound: observed pairs

ASSUME PricesAssumption ==
    /\ MaxDigits \in Nat \ {0}
    /\ MaxExponent \in Nat /\ MinExponent \in Nat
    /\ MaxDecimals \in 0 .. MinExponent
    /\ MaxWhole \in Nat
    /\ PlausibleMin \in Nat \ {0} /\ PlausibleMax \in Nat /\ PlausibleMin < PlausibleMax
    /\ Whole \in Nat \ {0} /\ MaxSamples \in Nat

VARIABLES
    value,      \* what the source said
    shares,     \* kept: the share of the listed price in each observed pair
    estimated,  \* estimated_final of the series' rate in RATES
    pc,         \* where the reading is
    caller,     \* what canonical was called for
    kept,       \* in canonical: the digits kept
    exponent,   \* in canonical
    verdict,    \* what reading_problem found
    item        \* the price and the estimate that are sent

input == <<value, shares, estimated>>
vars == <<input, pc, caller, kept, exponent, verdict, item>>

Digit == 0 .. Base - 1
Kinds == {"finite", "infinity", "nan"}
Rejections == {"not_finite", "not_positive", "too_large", "too_many_decimals", "implausible"}

(* No digit but zero, or no leading zero. *)
Digits == {<<0>>} \union
          {d \in UNION {[1 .. n -> Digit] : n \in 1 .. MaxDigits} : d[1] # 0}
Values == [kind : {"finite"}, sign : {1, -1}, digits : Digits,
           exponent : -MinExponent .. MaxExponent]
          \union [kind : Kinds \ {"finite"}, sign : {1, -1}]

(* The whole number that digits write, and what it is with an exponent, in units. *)
Written(digits) ==
    LET upTo[n \in 0 .. Len(digits)] == IF n = 0 THEN 0 ELSE upTo[n - 1] * Base + digits[n]
    IN  upTo[Len(digits)]
Number(digits, exp) == Written(digits) * Power[exp + MinExponent]
Exact(v) == v.sign * Number(v.digits, v.exponent)

Step == Power[MinExponent - MaxDecimals]
MaxValue == Power[MaxWhole + MinExponent]

----------------------------------------------------------------------------
Init ==
    /\ value \in Values
    /\ shares \in UNION {[1 .. n -> 1 .. Whole] : n \in 0 .. MaxSamples}
    /\ estimated \in BOOLEAN
    /\ pc = "checking"
    /\ caller = "none"
    /\ kept = <<>> /\ exponent = 0
    /\ verdict = "pending"
    /\ item = <<>>

Decide(what) == pc' = "done" /\ verdict' = what

Canonical(who) ==
    /\ pc' = "stripping"
    /\ caller' = who
    /\ kept' = IF \A i \in 1 .. Len(value.digits) : value.digits[i] = 0
               THEN <<0>> ELSE value.digits
    /\ exponent' = IF \A i \in 1 .. Len(value.digits) : value.digits[i] = 0
                   THEN 0 ELSE value.exponent

(* value_problem, in its order, up to its call of decimals. *)
CheckValue ==
    /\ pc = "checking"
    /\ \/ /\ value.kind # "finite"
          /\ Decide("not_finite")
          /\ UNCHANGED <<caller, kept, exponent>>
       \/ /\ value.kind = "finite" /\ Exact(value) <= 0
          /\ Decide("not_positive")
          /\ UNCHANGED <<caller, kept, exponent>>
       \/ /\ value.kind = "finite" /\ Exact(value) > MaxValue
          /\ Decide("too_large")
          /\ UNCHANGED <<caller, kept, exponent>>
       \/ /\ value.kind = "finite" /\ Exact(value) \in 1 .. MaxValue
          /\ Canonical("decimals")
          /\ UNCHANGED verdict
    /\ UNCHANGED <<input, item>>

(* Mutant: zeros before the point are dropped as well, as normalize does. *)
HasZeroAny == Last(kept) = 0

(* A zero at the end of the decimals. *)
HasZero == exponent < 0 /\ Last(kept) = 0

(* Mutant: a zero is dropped and the exponent left as it was. *)
ExponentAfterSame == exponent

ExponentAfter == exponent + 1

(* The loop of canonical. *)
Strip ==
    /\ pc = "stripping"
    /\ HasZero
    /\ kept' = Front(kept)
    /\ exponent' = ExponentAfter
    /\ UNCHANGED <<input, pc, caller, verdict, item>>

Stripped == pc = "stripping" /\ ~HasZero

(* Mutant: only the digits are compared with the limit, zeros and all. *)
DecimalsAsGiven == -value.exponent

(* What canonical returns has no positive exponent. *)
Decimals == IF exponent > 0 THEN 0 ELSE -exponent

(* The number of decimals is known: the rest of the checks of the value. A *)
(* reading that passes has canonical called for it.                        *)
CheckDecimals ==
    /\ Stripped /\ caller = "decimals"
    /\ \/ /\ Decimals > MaxDecimals
          /\ Decide("too_many_decimals")
          /\ UNCHANGED <<caller, kept, exponent>>
       \/ /\ Decimals <= MaxDecimals
          /\ Exact(value) \notin PlausibleMin * Step .. PlausibleMax * Step
          /\ Decide("implausible")
          /\ UNCHANGED <<caller, kept, exponent>>
       \/ /\ Decimals <= MaxDecimals
          /\ Exact(value) \in PlausibleMin * Step .. PlausibleMax * Step
          /\ verdict' = "accepted"
          /\ Canonical("accept")
    /\ UNCHANGED <<input, item>>

----------------------------------------------------------------------------
(* The estimate. *)

(* The k-th of the shares, in their order: fewer than k are below it. *)
Below(x) == {i \in DOMAIN shares : shares[i] < x}
UpTo(x) == {i \in DOMAIN shares : shares[i] <= x}
IsNth(k, x) == Cardinality(Below(x)) < k /\ k <= Cardinality(UpTo(x))
Nth(k) == shares[CHOOSE i \in DOMAIN shares : IsNth(k, shares[i])]

(* Twice the median of the shares, which is a mean when they are even. *)
MedianTwice == Nth((Len(shares) + 1) \div 2) + Nth(Len(shares) \div 2 + 1)

(* Mutant: rounded to the nearest step. *)
EstimateNearest(listed) == (2 * listed * MedianTwice + 2 * Whole) \div (4 * Whole)

(* In steps, rounded down, once. *)
Estimate(listed) == (listed * MedianTwice) \div (2 * Whole)

(* Mutant: an estimate is refused only if no value could be that. *)
PublishableAny(listed) == IF Estimate(listed) > 0 THEN Estimate(listed) ELSE 0

(* publishable_estimate and _estimate: 0 for none. A whole number of steps *)
(* has no more decimals than allowed.                                      *)
Publishable(listed) ==
    IF Estimate(listed) > 0 /\ Estimate(listed) * Step <= MaxValue
        /\ Estimate(listed) \in PlausibleMin .. PlausibleMax
    THEN Estimate(listed) ELSE 0

(* Mutant: zeros are dropped but a positive exponent is kept: 1E+3. *)
Plain1E3 == [digits |-> kept, exponent |-> exponent]

(* canonical's last lines: the zeros of a positive exponent are written. *)
Plain ==
    [digits |-> kept \o [i \in 1 .. (IF exponent > 0 THEN exponent ELSE 0) |-> 0],
     exponent |-> IF exponent > 0 THEN 0 ELSE exponent]

(* estimated_final of the item: absent, null, or the estimate in steps. *)
Absent == -1
Null == 0
EstimatedFinal(listed) ==
    IF ~estimated THEN Absent ELSE IF shares = <<>> THEN Null ELSE Publishable(listed)

(* The item of an accepted reading. *)
Send ==
    /\ Stripped /\ caller = "accept"
    /\ pc' = "done"
    /\ item' = <<[price |-> Plain,
                  estimate |-> EstimatedFinal(Number(kept, exponent) \div Step)]>>
    /\ UNCHANGED <<input, caller, kept, exponent, verdict>>

----------------------------------------------------------------------------
Next == CheckValue \/ Strip \/ CheckDecimals \/ Send

Spec == Init /\ [][Next]_vars

----------------------------------------------------------------------------
(* The state is of its type. *)
TypeOK ==
    /\ value \in Values
    /\ pc \in {"checking", "stripping", "done"}
    /\ caller \in {"none", "decimals", "accept"}
    /\ kept = <<>> <=> caller = "none"
    /\ \A i \in 1 .. Len(kept) : kept[i] \in Digit
    /\ exponent \in -MinExponent .. MaxExponent
    /\ verdict \in Rejections \union {"pending", "accepted"}
    /\ item # <<>> <=> verdict = "accepted" /\ pc = "done"

(* The verdict is that of the number, not of the form it was written in:   *)
(* "greater than zero, up to 1,000,000, with at most 8 decimals".          *)
VerdictIsOfTheNumber ==
    pc = "done" =>
        (verdict = "accepted" <=>
            /\ value.kind = "finite"
            /\ Exact(value) > 0 /\ Exact(value) <= MaxValue
            /\ Exact(value) % Step = 0
            /\ PlausibleMin * Step <= Exact(value) /\ Exact(value) <= PlausibleMax * Step)

(* canonical "works on the digits": at no point of its loop is the number  *)
(* another one, nor without a digit left to look at, and the price that is *)
(* sent is the source's number in the one form that has no exponent above  *)
(* zero and no zeros at the end of its decimals.                           *)
CanonicalKeepsValue ==
    /\ pc = "stripping" => kept # <<>> /\ Number(kept, exponent) = Exact(value)
    /\ item # <<>> =>
        LET price == item[1].price
        IN  /\ Number(price.digits, price.exponent) = Exact(value)
            /\ price.exponent \in -MaxDecimals .. 0
            /\ price.exponent < 0 => Last(price.digits) # 0

(* An item carries the field exactly when its rate asks for it. A null is  *)
(* sent only without pairs or when half of them kept less than the range   *)
(* takes. An estimate is in the range in which cuanto-cuesta does not      *)
(* refuse the whole item, never above the price, and what the median pair  *)
(* kept of it less a part of one step: as many pairs are at or above the   *)
(* median as are at or below.                                              *)
EstimateIsFair ==
    item # <<>> =>
        LET estimate == item[1].estimate
            exact == Exact(value) \div Step
            AtLeast(x) == Quantify(DOMAIN shares, LAMBDA i : exact * shares[i] >= x * Whole)
            Under(x) == Quantify(DOMAIN shares, LAMBDA i : exact * shares[i] < x * Whole)
        IN  /\ estimate = Absent <=> ~estimated
            /\ estimate = Null => 2 * Under(PlausibleMin) >= Len(shares)
            /\ estimate > 0 =>
                /\ estimate \in PlausibleMin .. PlausibleMax
                /\ estimate <= exact
                /\ 2 * AtLeast(estimate) >= Len(shares) /\ 2 * Under(estimate + 1) >= Len(shares)

----------------------------------------------------------------------------
(* The inductive invariant: what the loop works on is the number that was  *)
(* checked, with a digit that is not zero, and what is known of a verdict. *)
CallerFits ==
    /\ caller = "none" => verdict # "accepted" /\ pc # "stripping"
    /\ caller = "decimals" => verdict # "accepted" /\ (pc = "stripping" => verdict = "pending")
    /\ caller = "accept" => verdict = "accepted"
    /\ pc = "checking" => caller = "none" /\ verdict = "pending"

KeptIsExact ==
    pc = "stripping" =>
        /\ value.kind = "finite" /\ Exact(value) \in 1 .. MaxValue
        /\ kept \in Seq(Digit) \ {<<>>}
        /\ Number(kept, exponent) = Exact(value)

AcceptedIsFit ==
    verdict = "accepted" =>
        /\ value.kind = "finite"
        /\ Exact(value) > 0 /\ Exact(value) <= MaxValue
        /\ Exact(value) % Step = 0
        /\ PlausibleMin * Step <= Exact(value) /\ Exact(value) <= PlausibleMax * Step

SharesOK == shares \in Seq(1 .. Whole) /\ estimated \in BOOLEAN

IInv ==
    /\ TypeOK /\ SharesOK
    /\ CallerFits /\ KeptIsExact /\ AcceptedIsFit
    /\ VerdictIsOfTheNumber /\ CanonicalKeepsValue /\ EstimateIsFair

=============================================================================
