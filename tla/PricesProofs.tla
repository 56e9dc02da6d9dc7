---------------------------- MODULE PricesProofs ----------------------------
(***************************************************************************)
(* Proofs about Prices, and about the Sources that its values come from,   *)
(* for any base and any limits. Each is a specification of its own; the    *)
(* two share the lemmas on powers, divisions and ranks.                    *)
(***************************************************************************)
EXTENDS Prices, Sources, FiniteSetTheorems, WellFoundedInduction, TLAPS

(* Induction over the naturals, for a set instead of a predicate: what is  *)
(* not in it has a smallest element.                                       *)
LEMMA Induction ==
    ASSUME NEW S, 0 \in S, \A n \in Nat : n \in S => n + 1 \in S
    PROVE  Nat \subseteq S
<1> DEFINE Rest == Nat \ S
           Less == OpToRel(<, Nat)
<1> SUFFICES ASSUME Rest # {} PROVE FALSE
  OBVIOUS
<1>1. IsWellFoundedOn(Less, Nat)
  BY NatLessThanWellFounded
<1>2. \A m, n \in Nat : m < n => <<m, n>> \in Less
  <2>1. Less = {pair \in Nat \X Nat : pair[1] < pair[2]}
    BY Zenon DEF OpToRel
  <2> HIDE DEF Less
  <2> QED BY <2>1
<1> HIDE DEF Less
<1>3. PICK n \in Rest : \A m \in Rest : ~(<<m, n>> \in Less)
  BY <1>1, WFMin
<1>4. n - 1 \in Nat /\ n - 1 \in Rest
  BY <1>3
<1>5. <<n - 1, n>> \in Less
  BY <1>2, <1>4
<1> QED BY <1>3, <1>4, <1>5

LEMMA Naturals == \A m, n \in Nat : m * n \in Nat /\ m + n \in Nat
OBVIOUS

(* Some function takes each of its values from the one before.             *)
Continues(f, first, factor, added, n) ==
    f[0] = first /\ \A k \in 1 .. n : f[k] = f[k - 1] * factor + added[k]

LEMMA Recursion ==
    ASSUME NEW first \in Nat, NEW factor \in Nat, NEW added \in [Nat -> Nat], NEW n \in Nat
    PROVE  \E f \in [0 .. n -> Nat] : Continues(f, first, factor, added, n)
<1> DEFINE Solvable == {m \in Nat : \E f \in [0 .. m -> Nat] : Continues(f, first, factor, added, m)}
<1>1. 0 \in Solvable
  <2> DEFINE f == [k \in 0 .. 0 |-> first]
  <2>1. f \in [0 .. 0 -> Nat] /\ f[0] = first
    OBVIOUS
  <2> HIDE DEF f
  <2>2. Continues(f, first, factor, added, 0)
    BY <2>1 DEF Continues
  <2> QED BY <2>1, <2>2
<1>2. ASSUME NEW m \in Nat, m \in Solvable PROVE m + 1 \in Solvable
  <2>1. PICK f \in [0 .. m -> Nat] : Continues(f, first, factor, added, m)
    BY <1>2
  <2> DEFINE next == f[m] * factor + added[m + 1]
  <2>2. next \in Nat
    <3>1. m \in 0 .. m /\ m + 1 \in Nat
      OBVIOUS
    <3>2. f[m] \in Nat /\ added[m + 1] \in Nat
      BY <3>1, Zenon
    <3>3. f[m] * factor \in Nat
      BY <3>2, Naturals, Zenon
    <3> QED BY <3>2, <3>3, Naturals, Zenon
  <2> HIDE DEF next
  <2> DEFINE g == [k \in 0 .. m + 1 |-> IF k <= m THEN f[k] ELSE next]
  <2>3. g \in [0 .. m + 1 -> Nat]
    BY <2>2
  <2>4. Continues(g, first, factor, added, m + 1)
    <3>1. g[0] = first
      BY <2>1 DEF Continues
    <3>2. ASSUME NEW k \in 1 .. m PROVE g[k] = g[k - 1] * factor + added[k]
      <4>1. /\ k \in 0 .. m + 1 /\ k <= m
            /\ k - 1 \in 0 .. m + 1 /\ k - 1 <= m
        OBVIOUS
      <4>2. g[k] = f[k] /\ g[k - 1] = f[k - 1]
        BY <4>1, Zenon
      <4> QED BY <2>1, <4>2, Zenon DEF Continues
    <3>3. g[m + 1] = g[m] * factor + added[m + 1]
      <4>1. g[m + 1] = next /\ g[m] = f[m]
        <5>1. m + 1 \in 0 .. m + 1 /\ m \in 0 .. m + 1 /\ m <= m /\ ~(m + 1 <= m)
          OBVIOUS
        <5> QED BY <5>1, Zenon
      <4> QED BY <4>1 DEF next
    <3> HIDE DEF g
    <3>4. ASSUME NEW k \in 1 .. m + 1 PROVE g[k] = g[k - 1] * factor + added[k]
      <4>1. k \in 1 .. m \/ (k = m + 1 /\ k - 1 = m)
        OBVIOUS
      <4> QED BY <3>2, <3>3, <4>1
    <3> QED BY <3>1, <3>4, Zenon DEF Continues
  <2> HIDE DEF g
  <2>5. m + 1 \in Nat
    OBVIOUS
  <2> QED BY <2>3, <2>4, <2>5, Zenon
<1> HIDE DEF Solvable
<1>3. n \in Solvable
  BY <1>1, <1>2, Induction
<1> QED BY <1>3 DEF Solvable

(* No two functions do.                                                    *)
LEMMA OneSolution ==
    ASSUME NEW first, NEW factor, NEW added, NEW n \in Nat, NEW f, NEW g,
           Continues(f, first, factor, added, n), Continues(g, first, factor, added, n)
    PROVE  \A k \in 0 .. n : f[k] = g[k]
<1> DEFINE Equal == {k \in Nat : k \in 0 .. n => f[k] = g[k]}
<1>1. 0 \in Equal
  BY DEF Continues
<1>2. ASSUME NEW k \in Nat, k \in Equal PROVE k + 1 \in Equal
  <2> SUFFICES ASSUME k + 1 \in 0 .. n PROVE f[k + 1] = g[k + 1]
    OBVIOUS
  <2>1. k + 1 \in 1 .. n /\ (k + 1) - 1 = k /\ f[k] = g[k]
    BY <1>2
  <2>2. /\ f[k + 1] = f[(k + 1) - 1] * factor + added[k + 1]
        /\ g[k + 1] = g[(k + 1) - 1] * factor + added[k + 1]
    BY <2>1, Zenon DEF Continues
  <2> QED BY <2>1, <2>2, Zenon
<1> HIDE DEF Equal
<1>3. Nat \subseteq Equal
  BY <1>1, <1>2, Induction
<1> QED BY <1>3 DEF Equal

----------------------------------------------------------------------------
(* Power and Written are the functions their definitions describe.         *)

LEMMA PowerDef ==
    /\ Power \in [Nat -> Nat \ {0}]
    /\ Power[0] = 1
    /\ \A n \in Nat : Power[n + 1] = Power[n] * Base
<1> DEFINE none == [n \in Nat |-> 0]
           Sol(n) == CHOOSE f \in [0 .. n -> Nat] : Continues(f, 1, Base, none, n)
           g == [n \in Nat |-> Sol(n)[n]]
<1>1. none \in [Nat -> Nat] /\ Base \in Nat
  BY DecimalsAssumption
<1>2. ASSUME NEW n \in Nat
      PROVE  Sol(n) \in [0 .. n -> Nat] /\ Continues(Sol(n), 1, Base, none, n)
  <2>1. \E f \in [0 .. n -> Nat] : Continues(f, 1, Base, none, n)
    BY <1>1, Recursion
  <2> HIDE DEF none
  <2> QED BY <2>1, Zenon
<1> HIDE DEF Sol
<1>3. \A n \in Nat : g[n] = Sol(n)[n] /\ g[n] \in Nat
  BY <1>2
<1>4. g[0] = 1
  BY <1>2, <1>3 DEF Continues
<1>5. ASSUME NEW n \in Nat PROVE g[n + 1] = g[n] * Base
  <2>1. n + 1 \in Nat /\ n + 1 \in 1 .. n + 1 /\ (n + 1) - 1 = n /\ n \in 0 .. n
    OBVIOUS
  <2>2. Sol(n + 1)[n + 1] = Sol(n + 1)[(n + 1) - 1] * Base + none[n + 1]
    BY <1>2, <2>1, Zenon DEF Continues
  <2>3. Continues(Sol(n + 1), 1, Base, none, n)
    BY <1>2, <2>1 DEF Continues
  <2>4. Sol(n + 1)[n] = Sol(n)[n]
    <3>1. Continues(Sol(n), 1, Base, none, n)
      BY <1>2
    <3> HIDE DEF none
    <3>2. \A k \in 0 .. n : Sol(n + 1)[k] = Sol(n)[k]
      BY <2>3, <3>1, OneSolution
    <3> QED BY <2>1, <3>2, Zenon
  <2>5. none[n + 1] = 0
    OBVIOUS
  <2>6. Sol(n)[n] * Base \in Nat
    BY <1>1, <1>3, Naturals
  <2>7. Sol(n + 1)[n + 1] = Sol(n)[n] * Base + 0
    BY <2>1, <2>2, <2>4, <2>5, Zenon
  <2> QED BY <1>3, <2>1, <2>6, <2>7
<1> HIDE DEF g
<1>6. g = [n \in Nat |-> IF n = 0 THEN 1 ELSE g[n - 1] * Base]
  <2>1. g = [n \in Nat |-> g[n]]
    BY DEF g
  <2>2. ASSUME NEW n \in Nat PROVE g[n] = IF n = 0 THEN 1 ELSE g[n - 1] * Base
    <3>1. n # 0 => n - 1 \in Nat /\ (n - 1) + 1 = n
      OBVIOUS
    <3> QED BY <1>4, <1>5, <3>1, Zenon
  <2> QED BY <2>1, <2>2, Zenon
<1>7. Power = [n \in Nat |-> IF n = 0 THEN 1 ELSE Power[n - 1] * Base]
  BY <1>6, Zenon DEF Power
<1>8. Power[0] = 1
  BY <1>7
<1>9. ASSUME NEW n \in Nat PROVE Power[n + 1] = Power[n] * Base
  <2>1. n + 1 \in Nat /\ n + 1 # 0 /\ (n + 1) - 1 = n
    OBVIOUS
  <2> QED BY <1>7, <2>1, Zenon
<1>10. \A n \in Nat : Power[n] \in Nat \ {0}
  <2> DEFINE S == {n \in Nat : Power[n] \in Nat \ {0}}
  <2>1. 0 \in S
    BY <1>8
  <2>2. ASSUME NEW n \in Nat, n \in S PROVE n + 1 \in S
    <3>1. \A m, k \in Nat \ {0} : m * k \in Nat \ {0}
      OBVIOUS
    <3>2. Power[n] * Base \in Nat \ {0}
      BY <2>2, <3>1, DecimalsAssumption
    <3> QED BY <1>9, <3>2
  <2> HIDE DEF S
  <2>3. Nat \subseteq S
    BY <2>1, <2>2, Induction
  <2> QED BY <2>3 DEF S
<1>11. Power = [n \in Nat |-> Power[n]]
  BY <1>7
<1> QED BY <1>8, <1>9, <1>10, <1>11

LEMMA Associate ==
    ASSUME NEW a \in Nat, NEW b \in Nat, NEW c \in Nat
    PROVE  (a * b) * c = a * (b * c) /\ a * (b * c) = (a * c) * b
OBVIOUS

LEMMA PowerSum ==
    \A m, n \in Nat : Power[m + n] = Power[m] * Power[n]
<1> SUFFICES ASSUME NEW m \in Nat PROVE \A n \in Nat : Power[m + n] = Power[m] * Power[n]
  OBVIOUS
<1> DEFINE S == {n \in Nat : Power[m + n] = Power[m] * Power[n]}
<1>1. 0 \in S
  <2>1. m + 0 = m /\ Power[m] \in Nat
    BY PowerDef
  <2> QED BY <2>1, PowerDef
<1>2. ASSUME NEW n \in Nat, n \in S PROVE n + 1 \in S
  <2>1. m + (n + 1) = (m + n) + 1 /\ m + n \in Nat
    OBVIOUS
  <2>2. Power[m + (n + 1)] = (Power[m] * Power[n]) * Base
    BY <1>2, <2>1, PowerDef
  <2>3. Power[n + 1] = Power[n] * Base
    BY PowerDef
  <2>4. Power[m] \in Nat /\ Power[n] \in Nat /\ Base \in Nat
    BY PowerDef, DecimalsAssumption
  <2>5. (Power[m] * Power[n]) * Base = Power[m] * (Power[n] * Base)
    BY <2>4, Associate
  <2>6. Power[m + (n + 1)] = Power[m] * Power[n + 1]
    BY <2>2, <2>3, <2>5, Zenon
  <2> QED BY <2>6
<1> HIDE DEF S
<1>3. Nat \subseteq S
  BY <1>1, <1>2, Induction
<1> QED BY <1>3 DEF S

LEMMA WrittenIs ==
    ASSUME NEW digits \in Seq(Digit)
    PROVE  \E f \in [0 .. Len(digits) -> Nat] :
               /\ Continues(f, 0, Base, digits, Len(digits))
               /\ Written(digits) = f[Len(digits)]
<1> DEFINE N == Len(digits)
           padded == [n \in Nat |-> IF n \in 1 .. N THEN digits[n] ELSE 0]
           upTo == CHOOSE f : f = [n \in 0 .. N |-> IF n = 0 THEN 0 ELSE f[n - 1] * Base + digits[n]]
<1>1. N \in Nat /\ padded \in [Nat -> Nat] /\ Base \in Nat
  BY DecimalsAssumption DEF Digit
<1>2. PICK f \in [0 .. N -> Nat] : Continues(f, 0, Base, padded, N)
  <2> HIDE DEF padded, N
  <2> QED BY <1>1, Recursion
<1>3. Continues(f, 0, Base, digits, N)
  <2>1. \A k \in 1 .. N : padded[k] = digits[k]
    BY <1>1
  <2> HIDE DEF padded, N
  <2> QED BY <1>2, <2>1, Zenon DEF Continues
<1>4. f = [n \in 0 .. N |-> IF n = 0 THEN 0 ELSE f[n - 1] * Base + digits[n]]
  <2>1. f = [n \in 0 .. N |-> f[n]]
    OBVIOUS
  <2>2. ASSUME NEW n \in 0 .. N PROVE f[n] = IF n = 0 THEN 0 ELSE f[n - 1] * Base + digits[n]
    <3>1. n # 0 => n \in 1 .. N
      OBVIOUS
    <3> QED BY <1>3, <3>1, Zenon DEF Continues
  <2> HIDE DEF N
  <2> QED BY <2>1, <2>2, Zenon
<1>5. upTo = [n \in 0 .. N |-> IF n = 0 THEN 0 ELSE upTo[n - 1] * Base + digits[n]]
  <2> HIDE DEF N
  <2> QED BY <1>4, Zenon
<1>6. Written(digits) = upTo[N]
  BY Zenon DEF Written
<1> HIDE DEF upTo
<1>7. Continues(upTo, 0, Base, digits, N)
  <2>1. 0 \in 0 .. N /\ \A k \in 1 .. N : k \in 0 .. N /\ k # 0
    BY <1>1
  <2> HIDE DEF N
  <2> QED BY <1>5, <2>1, Zenon DEF Continues
<1>8. \A k \in 0 .. N : upTo[k] = f[k]
  <2> HIDE DEF N
  <2> QED BY <1>1, <1>3, <1>7, OneSolution
<1> QED BY <1>1, <1>3, <1>6, <1>8

LEMMA WrittenDef ==
    ASSUME NEW digits \in Seq(Digit)
    PROVE  /\ Written(digits) \in Nat
           /\ digits = <<>> => Written(digits) = 0
           /\ digits # <<>> =>
                /\ Front(digits) \in Seq(Digit) /\ Last(digits) \in Digit
                /\ Written(digits) = Written(Front(digits)) * Base + Last(digits)
<1>1. PICK f \in [0 .. Len(digits) -> Nat] :
          /\ Continues(f, 0, Base, digits, Len(digits))
          /\ Written(digits) = f[Len(digits)]
  BY WrittenIs
<1>2. Written(digits) \in Nat
  BY <1>1
<1>3. ASSUME digits = <<>> PROVE Written(digits) = 0
  BY <1>1, <1>3 DEF Continues
<1>4. ASSUME digits # <<>>
      PROVE  /\ Front(digits) \in Seq(Digit) /\ Last(digits) \in Digit
             /\ Written(digits) = Written(Front(digits)) * Base + Last(digits)
  <2> DEFINE n == Len(digits) - 1
  <2>1. n \in Nat /\ Len(digits) = n + 1 /\ n + 1 \in 1 .. Len(digits) /\ (n + 1) - 1 = n
    BY <1>4
  <2>2. Front(digits) \in Seq(Digit) /\ Len(Front(digits)) = n
    BY <1>4 DEF Front
  <2>3. \A k \in 1 .. n : Front(digits)[k] = digits[k]
    BY <1>4 DEF Front
  <2>4. Last(digits) \in Digit /\ Last(digits) = digits[n + 1]
    BY <1>4 DEF Last
  <2>5. PICK g \in [0 .. n -> Nat] :
            /\ Continues(g, 0, Base, Front(digits), n)
            /\ Written(Front(digits)) = g[n]
    BY <2>2, WrittenIs
  <2>6. Continues(g, 0, Base, digits, n)
    <3> HIDE DEF n
    <3> QED BY <2>3, <2>5, Zenon DEF Continues
  <2>7. Continues(f, 0, Base, digits, n)
    <3>1. \A k \in 1 .. n : k \in 1 .. Len(digits)
      BY <2>1
    <3> HIDE DEF n
    <3> QED BY <1>1, <3>1, Zenon DEF Continues
  <2>8. g[n] = f[n]
    <3>1. \A k \in 0 .. n : g[k] = f[k]
      <4>1. n \in Nat
        BY <2>1
      <4> HIDE DEF n
      <4> QED BY <4>1, <2>6, <2>7, OneSolution
    <3> QED BY <2>1, <3>1
  <2>9. f[n + 1] = f[(n + 1) - 1] * Base + digits[n + 1]
    <3> HIDE DEF n
    <3> QED BY <1>1, <2>1, Zenon DEF Continues
  <2>10. Written(digits) = Written(Front(digits)) * Base + Last(digits)
    <3> HIDE DEF n
    <3> QED BY <1>1, <2>1, <2>4, <2>5, <2>8, <2>9
  <2> QED BY <2>2, <2>4, <2>10
<1> QED BY <1>2, <1>3, <1>4

----------------------------------------------------------------------------
(* What the loop of canonical and its last lines do to the number.         *)

Exponent == -MinExponent .. MaxExponent

LEMMA NumberNat ==
    ASSUME NEW digits \in Seq(Digit), NEW exp \in Exponent
    PROVE  /\ exp + MinExponent \in Nat
           /\ Number(digits, exp) \in Nat
           /\ digits = <<>> => Number(digits, exp) = 0
<1>1. exp + MinExponent \in Nat
  BY PricesAssumption DEF Exponent
<1>2. Power[exp + MinExponent] \in Nat
  BY <1>1, PowerDef
<1>3. Written(digits) \in Nat /\ (digits = <<>> => Written(digits) = 0)
  BY WrittenDef
<1>4. \A n \in Nat : 0 * n = 0
  OBVIOUS
<1> QED BY <1>1, <1>2, <1>3, <1>4, Naturals DEF Number

LEMMA DropZero ==
    ASSUME NEW digits \in Seq(Digit), NEW exp \in Exponent, digits # <<>>, Last(digits) = 0
    PROVE  /\ Front(digits) \in Seq(Digit)
           /\ exp + 1 \in Exponent => Number(Front(digits), exp + 1) = Number(digits, exp)
           /\ Number(digits, exp) # 0 => Front(digits) # <<>>
<1> DEFINE w == Written(Front(digits))
           p == Power[exp + MinExponent]
<1>1. Front(digits) \in Seq(Digit) /\ w \in Nat /\ Written(digits) = w * Base
  <2>1. Front(digits) \in Seq(Digit) /\ Written(digits) = Written(Front(digits)) * Base + 0
    BY WrittenDef
  <2>2. w \in Nat
    BY <2>1, WrittenDef
  <2>3. w * Base \in Nat
    BY <2>2, Naturals, DecimalsAssumption
  <2> QED BY <2>1, <2>2, <2>3
<1>2. exp + MinExponent \in Nat /\ p \in Nat
  BY NumberNat, PowerDef
<1>3. (exp + 1) + MinExponent = (exp + MinExponent) + 1
  BY PricesAssumption DEF Exponent
<1>4. Power[(exp + 1) + MinExponent] = p * Base
  BY <1>2, <1>3, PowerDef
<1>5. w * (p * Base) = (w * Base) * p
  <2>1. \A a, b, c \in Nat : a * (b * c) = (a * c) * b
    OBVIOUS
  <2>2. Base \in Nat
    BY DecimalsAssumption
  <2> HIDE DEF w, p
  <2> QED BY <1>1, <1>2, <2>1, <2>2, Zenon
<1>6. Number(Front(digits), exp + 1) = Number(digits, exp)
  BY <1>1, <1>4, <1>5 DEF Number
<1>7. ASSUME Front(digits) = <<>> PROVE Number(digits, exp) = 0
  <2>1. w = 0
    BY <1>1, <1>7, WrittenDef
  <2>2. Written(digits) = 0
    BY <1>1, <2>1, DecimalsAssumption
  <2>3. 0 * p = 0
    BY <1>2
  <2> QED BY <2>2, <2>3 DEF Number
<1> QED BY <1>1, <1>6, <1>7

LEMMA SameSequence ==
    ASSUME NEW S, NEW s \in Seq(S), NEW t \in Seq(S), Len(s) = Len(t),
           \A i \in 1 .. Len(s) : s[i] = t[i]
    PROVE  s = t
<1>1. s \in [1 .. Len(s) -> S] /\ t \in [1 .. Len(s) -> S]
  OBVIOUS
<1>2. s = [i \in 1 .. Len(s) |-> s[i]] /\ t = [i \in 1 .. Len(s) |-> t[i]]
  BY <1>1
<1> QED BY <1>2, Zenon

Zeros(n) == [i \in 1 .. n |-> 0]

LEMMA AppendZeros ==
    ASSUME NEW digits \in Seq(Digit), NEW n \in Nat
    PROVE  /\ digits \o Zeros(n) \in Seq(Digit)
           /\ Written(digits \o Zeros(n)) = Written(digits) * Power[n]
<1>1. \A m \in Nat : Zeros(m) \in Seq(Digit) /\ Len(Zeros(m)) = m
  BY DecimalsAssumption DEF Zeros, Digit
<1>2. \A m \in Nat : digits \o Zeros(m) \in Seq(Digit)
  BY <1>1
<1> DEFINE S == {m \in Nat : Written(digits \o Zeros(m)) = Written(digits) * Power[m]}
<1>3. 0 \in S
  <2>1. digits \o Zeros(0) = digits
    BY DEF Zeros
  <2>2. Written(digits) \in Nat
    BY WrittenDef
  <2>3. Written(digits) * 1 = Written(digits)
    <3> DEFINE w == Written(digits)
    <3>1. w \in Nat
      BY <2>2
    <3> HIDE DEF w
    <3>2. w * 1 = w
      BY <3>1
    <3> QED BY <3>2 DEF w
  <2>4. Power[0] = 1
    BY PowerDef
  <2>5. Written(digits \o Zeros(0)) = Written(digits) * Power[0]
    BY <2>1, <2>3, <2>4, Zenon
  <2> QED BY <2>5
<1>4. ASSUME NEW m \in Nat, m \in S PROVE m + 1 \in S
  <2> DEFINE longer == digits \o Zeros(m + 1)
  <2>1. Zeros(m + 1) \in Seq(Digit) /\ Len(Zeros(m + 1)) = m + 1 /\ Zeros(m + 1)[m + 1] = 0
    <3>1. m + 1 \in Nat /\ m + 1 \in 1 .. m + 1
      OBVIOUS
    <3>2. Zeros(m + 1)[m + 1] = 0
      BY <3>1 DEF Zeros
    <3> QED BY <1>1, <3>1, <3>2, Zenon
  <2>2. longer \in Seq(Digit) /\ longer # <<>> /\ Len(longer) = Len(digits) + m + 1
    BY <2>1
  <2>3. Last(longer) = 0
    BY <2>1, <2>2 DEF Last
  <2>4. Front(longer) = digits \o Zeros(m)
    <3>1. Zeros(m) \in Seq(Digit) /\ Len(Zeros(m)) = m
      BY <1>1
    <3>2. /\ Front(longer) \in Seq(Digit) /\ Len(Front(longer)) = Len(digits) + m
          /\ \A i \in 1 .. Len(digits) + m : Front(longer)[i] = longer[i]
      BY <2>2 DEF Front
    <3>3. digits \o Zeros(m) \in Seq(Digit) /\ Len(digits \o Zeros(m)) = Len(digits) + m
      BY <3>1
    <3>4. \A i \in 1 .. Len(digits) + m : longer[i] = (digits \o Zeros(m))[i]
      BY <2>1, <3>1 DEF Zeros
    <3> HIDE DEF longer
    <3> QED BY <3>2, <3>3, <3>4, SameSequence
  <2>5. Written(longer) = Written(digits \o Zeros(m)) * Base + 0
    <3> HIDE DEF longer
    <3> QED BY <2>2, <2>3, <2>4, WrittenDef
  <2>6. Written(digits \o Zeros(m)) = Written(digits) * Power[m]
    BY <1>4
  <2>7. Power[m + 1] = Power[m] * Base
    BY PowerDef
  <2>8. Written(digits) \in Nat /\ Power[m] \in Nat /\ Base \in Nat
    BY WrittenDef, PowerDef, DecimalsAssumption
  <2>9. \A w \in Nat : w + 0 = w
    OBVIOUS
  <2>10. (Written(digits) * Power[m]) * Base + 0 = Written(digits) * (Power[m] * Base)
    <3>1. (Written(digits) * Power[m]) * Base = Written(digits) * (Power[m] * Base)
      BY <2>8, Associate
    <3>2. (Written(digits) * Power[m]) * Base \in Nat
      BY <2>8, Naturals, Zenon
    <3> QED BY <2>9, <3>1, <3>2, Zenon
  <2> HIDE DEF longer
  <2>11. Written(longer) = Written(digits) * Power[m + 1]
    BY <2>5, <2>6, <2>7, <2>10, Zenon
  <2> QED BY <2>11 DEF longer
<1> HIDE DEF S
<1>5. n \in S
  BY <1>3, <1>4, Induction
<1> QED BY <1>2, <1>5 DEF S

LEMMA Divided ==
    ASSUME NEW n \in Nat, NEW s \in Nat \ {0}
    PROVE  /\ n \div s \in Nat /\ n % s \in 0 .. s - 1
           /\ n = (n \div s) * s + (n % s)
OBVIOUS

LEMMA OneQuotient ==
    ASSUME NEW a \in Nat, NEW b \in Nat, NEW s \in Nat, NEW r \in 1 .. s - 1
    PROVE  a * s # b * s + r
<1>1. CASE a <= b
  <2>1. a * s <= b * s /\ a * s \in Nat /\ b * s \in Nat
    BY <1>1
  <2> QED BY <2>1
<1>2. CASE a >= b + 1
  <2>1. a * s >= b * s + s /\ a * s \in Nat /\ b * s \in Nat
    BY <1>2
  <2> QED BY <2>1
<1> QED BY <1>1, <1>2

LEMMA MultipleIs ==
    ASSUME NEW q \in Nat, NEW s \in Nat \ {0}
    PROVE  (q * s) % s = 0
<1>1. q * s \in Nat
  OBVIOUS
<1>2. /\ (q * s) \div s \in Nat /\ (q * s) % s \in 0 .. s - 1
      /\ q * s = ((q * s) \div s) * s + ((q * s) % s)
  BY <1>1, Divided
<1> DEFINE d == (q * s) \div s
           r == (q * s) % s
<1>3. d \in Nat /\ r \in 0 .. s - 1 /\ q * s = d * s + r
  BY <1>2
<1> HIDE DEF d, r
<1>4. ~(r \in 1 .. s - 1)
  BY <1>3, OneQuotient
<1> QED BY <1>3, <1>4 DEF r

LEMMA StepNat == MinExponent - MaxDecimals \in Nat /\ Step \in Nat \ {0} /\ MaxValue \in Nat \ {0}
<1>1. MinExponent - MaxDecimals \in Nat /\ MaxWhole + MinExponent \in Nat
  BY PricesAssumption
<1> QED BY <1>1, PowerDef DEF Step, MaxValue

(* As many decimals as allowed, or fewer, are a whole number of steps...   *)
LEMMA WholeSteps ==
    ASSUME NEW digits \in Seq(Digit), NEW exp \in Exponent, exp >= -MaxDecimals
    PROVE  Number(digits, exp) % Step = 0
<1> DEFINE more == exp + MaxDecimals
           w == Written(digits)
<1>1. /\ more \in Nat /\ MinExponent - MaxDecimals \in Nat
      /\ exp + MinExponent = more + (MinExponent - MaxDecimals)
  BY PricesAssumption DEF Exponent
<1>2. Power[exp + MinExponent] = Power[more] * Step
  BY <1>1, PowerSum DEF Step
<1>3. w \in Nat /\ Power[more] \in Nat /\ Step \in Nat \ {0}
  BY <1>1, WrittenDef, PowerDef, StepNat
<1>4. \A a, b, c \in Nat : a * (b * c) = (a * b) * c
  OBVIOUS
<1> HIDE DEF w, more
<1>5. w * (Power[more] * Step) = (w * Power[more]) * Step
  BY <1>3, <1>4
<1>6. Number(digits, exp) = (w * Power[more]) * Step
  BY <1>2, <1>5 DEF Number, w
<1>7. w * Power[more] \in Nat
  BY <1>3, Naturals
<1> QED BY <1>3, <1>6, <1>7, MultipleIs

(* ... and more, with a last one that is not zero, are not.                *)
LEMMA BrokenSteps ==
    ASSUME NEW digits \in Seq(Digit), NEW exp \in Exponent, exp < -MaxDecimals,
           digits # <<>>, Last(digits) # 0
    PROVE  Number(digits, exp) % Step # 0
<1> DEFINE less == -MaxDecimals - exp - 1
           p == Power[exp + MinExponent]
           w == Written(Front(digits))
           n == Number(digits, exp)
           q == n \div Step
<1> SUFFICES ASSUME n % Step = 0 PROVE FALSE
  OBVIOUS
<1>1. /\ less \in Nat /\ exp + MinExponent \in Nat
      /\ MinExponent - MaxDecimals = (exp + MinExponent) + (less + 1)
  BY PricesAssumption DEF Exponent
<1>2. p \in Nat \ {0} /\ Power[less] \in Nat /\ Base \in Nat
  BY <1>1, PowerDef, DecimalsAssumption
<1>3. Step = p * (Power[less] * Base)
  <2> HIDE DEF less
  <2>1. less + 1 \in Nat /\ Power[less + 1] = Power[less] * Base
    BY <1>1, PowerDef
  <2> QED BY <1>1, <2>1, PowerSum DEF Step
<1>4. /\ w \in Nat /\ Last(digits) \in 1 .. Base - 1
      /\ Written(digits) = w * Base + Last(digits) /\ Written(digits) \in Nat
  BY WrittenDef DEF Digit
<1>5. n \in Nat /\ q \in Nat /\ n = q * Step
  <2>1. n \in Nat
    BY NumberNat
  <2> HIDE DEF n
  <2>2. q \in Nat /\ n = q * Step + (n % Step)
    BY <2>1, StepNat, Divided
  <2>3. q * Step \in Nat
    BY <2>2, StepNat, Naturals
  <2> HIDE DEF q
  <2> QED BY <2>1, <2>2, <2>3
<1>6. n = Written(digits) * p
  BY DEF Number
<1> HIDE DEF n, q, p, w, less
<1>7. Written(digits) * p = q * (p * (Power[less] * Base))
  BY <1>3, <1>5, <1>6
<1>8. q * (p * (Power[less] * Base)) = ((q * Power[less]) * Base) * p
  <2>1. p \in Nat /\ Power[less] * Base \in Nat
    BY <1>2, Naturals, Zenon
  <2>2. q * (p * (Power[less] * Base)) = (q * (Power[less] * Base)) * p
    BY <1>5, <2>1, Associate
  <2>3. q * (Power[less] * Base) = (q * Power[less]) * Base
    BY <1>2, <1>5, Associate
  <2> QED BY <2>2, <2>3, Zenon
<1>9. Written(digits) = (q * Power[less]) * Base
  <2>1. \A a, b \in Nat, c \in Nat \ {0} : a * c = b * c => a = b
    OBVIOUS
  <2>2. (q * Power[less]) * Base \in Nat
    BY <1>2, <1>5, Naturals
  <2> QED BY <1>2, <1>4, <1>7, <1>8, <2>1, <2>2
<1>10. q * Power[less] \in Nat
  BY <1>2, <1>5, Naturals
<1> QED BY <1>2, <1>4, <1>9, <1>10, OneQuotient

----------------------------------------------------------------------------
(* The median of the shares.                                               *)

(* The least element of a set of naturals, and where a number is the least. *)
LEMMA Least ==
    ASSUME NEW S \in SUBSET Nat, S # {}
    PROVE  \E n \in S : \A m \in S : n <= m
<1> DEFINE Low == {n \in Nat : \A m \in S : n <= m}
<1> SUFFICES ASSUME \A n \in S : \E m \in S : ~(n <= m) PROVE FALSE
  BY Zenon
<1>1. 0 \in Low
  OBVIOUS
<1>2. ASSUME NEW n \in Nat, n \in Low PROVE n + 1 \in Low
  <2>1. \A m \in S : n <= m /\ m # n
    BY <1>2
  <2> QED BY <2>1
<1> HIDE DEF Low
<1>3. Nat \subseteq Low
  BY <1>1, <1>2, Induction
<1>4. PICK n \in S : TRUE
  OBVIOUS
<1> QED BY <1>3, <1>4 DEF Low

LEMMA Interval ==
    ASSUME NEW n \in Nat
    PROVE  IsFiniteSet(1 .. n) /\ Cardinality(1 .. n) = n
BY FS_Interval

LEMMA Elements ==
    ASSUME NEW S, NEW s \in Seq(S)
    PROVE  DOMAIN s = 1 .. Len(s) /\ Len(s) \in Nat /\ \A i \in DOMAIN s : s[i] \in S
OBVIOUS

(* Sets of indices of the shares.                                          *)
LEMMA Indices ==
    ASSUME SharesOK
    PROVE  /\ DOMAIN shares = 1 .. Len(shares) /\ Len(shares) \in Nat
           /\ \A i \in DOMAIN shares : shares[i] \in 1 .. Whole
           /\ Cardinality(DOMAIN shares) = Len(shares)
           /\ \A S \in SUBSET DOMAIN shares :
                  IsFiniteSet(S) /\ Cardinality(S) \in Nat /\ Cardinality(S) <= Len(shares)
           /\ \A S, T \in SUBSET DOMAIN shares : S \subseteq T => Cardinality(S) <= Cardinality(T)
<1>1. /\ DOMAIN shares = 1 .. Len(shares) /\ Len(shares) \in Nat
      /\ \A i \in DOMAIN shares : shares[i] \in 1 .. Whole
  BY Elements DEF SharesOK
<1>2. IsFiniteSet(1 .. Len(shares)) /\ Cardinality(1 .. Len(shares)) = Len(shares)
  BY <1>1, Interval
<1>3. ASSUME NEW S \in SUBSET DOMAIN shares
      PROVE  IsFiniteSet(S) /\ Cardinality(S) \in Nat /\ Cardinality(S) <= Len(shares)
  <2>1. IsFiniteSet(S) /\ Cardinality(S) <= Len(shares)
    BY <1>1, <1>2, FS_Subset
  <2> QED BY <2>1, FS_CardinalityType
<1>4. \A S, T \in SUBSET DOMAIN shares : S \subseteq T => Cardinality(S) <= Cardinality(T)
  BY <1>3, FS_Subset
<1> QED BY <1>1, <1>2, <1>3, <1>4

LEMMA Bounded ==
    ASSUME NEW N \in Nat, NEW D \in SUBSET (1 .. N), NEW f \in [D -> Int]
    PROVE  \E b \in Nat : \A i \in D : f[i] <= b
<1> DEFINE S == {n \in Nat : \E b \in Nat : \A i \in D : i <= n => f[i] <= b}
<1>1. 0 \in S
  OBVIOUS
<1>2. ASSUME NEW n \in Nat, n \in S PROVE n + 1 \in S
  <2>1. PICK b \in Nat : \A i \in D : i <= n => f[i] <= b
    BY <1>2
  <2>2. CASE n + 1 \in D
    <3>1. f[n + 1] \in Int /\ \A i \in D : f[i] \in Int
      BY <2>2
    <3>2. PICK c \in Nat : b <= c /\ f[n + 1] <= c
      BY <3>1
    <3>3. \A i \in D : i <= n + 1 => f[i] <= c
      BY <2>1, <3>1, <3>2
    <3> QED BY <3>3
  <2>3. CASE n + 1 \notin D
    <3>1. \A i \in D : i <= n + 1 => i <= n
      BY <2>3
    <3> QED BY <2>1, <3>1
  <2> QED BY <2>2, <2>3
<1> HIDE DEF S
<1>3. N \in S
  BY <1>1, <1>2, Induction
<1> QED BY <1>3 DEF S

LEMMA IndexSets ==
    ASSUME NEW N \in Nat
    PROVE  /\ \A S \in SUBSET (1 .. N) : IsFiniteSet(S) /\ Cardinality(S) \in Nat
           /\ \A S, T \in SUBSET (1 .. N) : S \subseteq T => Cardinality(S) <= Cardinality(T)
<1>1. IsFiniteSet(1 .. N)
  BY Interval
<1>2. \A S \in SUBSET (1 .. N) : IsFiniteSet(S)
  BY <1>1, FS_Subset
<1> QED BY <1>2, FS_Subset, FS_CardinalityType

(* A k-th in order: fewer than k are below it, and k are up to it.         *)
LowerAt(D, f, x) == {j \in D : f[j] < x}
NotOverAt(D, f, x) == {j \in D : f[j] <= x}

LEMMA RankedAt ==
    ASSUME NEW N \in Nat, NEW D \in SUBSET (1 .. N), NEW f \in [D -> Nat],
           NEW k \in 1 .. Cardinality(D)
    PROVE  \E i \in D : /\ Cardinality(LowerAt(D, f, f[i])) < k
                        /\ k <= Cardinality(NotOverAt(D, f, f[i]))
<1> DEFINE AtMost(x) == {j \in D : f[j] <= x}
           Under(x) == {j \in D : f[j] < x}
           Enough == {x \in Nat : k <= Cardinality(AtMost(x))}
<1>1. \A x : AtMost(x) \in SUBSET (1 .. N) /\ Under(x) \in SUBSET (1 .. N)
  OBVIOUS
<1>2. \A x : Cardinality(AtMost(x)) \in Nat /\ Cardinality(Under(x)) \in Nat
  BY <1>1, IndexSets
<1>3. k \in Nat \ {0}
  <2>1. Cardinality(D) \in Nat
    BY IndexSets
  <2> QED BY <2>1
<1>4. \A j \in D : f[j] \in Nat
  OBVIOUS
<1>5. Enough # {}
  <2>1. PICK b \in Nat : \A i \in D : f[i] <= b
    <3>1. f \in [D -> Int]
      OBVIOUS
    <3> QED BY <3>1, Bounded
  <2>2. AtMost(b) = D
    BY <2>1
  <2>3. k <= Cardinality(AtMost(b))
    BY <2>2
  <2> QED BY <2>3
<1>6. PICK x \in Enough : \A y \in Enough : x <= y
  BY <1>5, Least
<1>7. Cardinality(Under(x)) < k
  <2>1. CASE x = 0
    <3>1. Under(x) = {}
      <4>1. \A j \in D : ~(f[j] < x)
        BY <1>4, <2>1
      <4> QED BY <4>1
    <3>2. Cardinality(Under(x)) = 0
      BY <3>1, FS_EmptySet
    <3> QED BY <1>3, <3>2
  <2>2. CASE x # 0
    <3>1. x - 1 \in Nat /\ ~(x <= x - 1)
      BY <2>2
    <3>2. ~(k <= Cardinality(AtMost(x - 1)))
      BY <1>6, <3>1
    <3>3. Under(x) = AtMost(x - 1)
      <4>1. \A j \in D : f[j] < x <=> f[j] <= x - 1
        BY <1>4, <3>1
      <4> QED BY <4>1
    <3>4. ~(k <= Cardinality(Under(x)))
      BY <3>2, <3>3
    <3> HIDE DEF Under
    <3> QED BY <1>2, <1>3, <3>4
  <2> QED BY <2>1, <2>2
<1>8. k <= Cardinality(AtMost(x)) /\ x \in Nat
  BY <1>6
<1>9. PICK i \in D : f[i] = x
  <2>1. SUFFICES ASSUME \A i \in D : f[i] # x PROVE FALSE
    OBVIOUS
  <2>2. Under(x) = AtMost(x)
    <3>1. \A j \in D : f[j] < x <=> f[j] <= x
      BY <1>4, <1>8, <2>1
    <3> QED BY <3>1
  <2> HIDE DEF Under, AtMost
  <2> QED BY <1>2, <1>3, <1>7, <1>8, <2>2
<1> QED BY <1>7, <1>8, <1>9 DEF LowerAt, NotOverAt

(* The same of integers: they are naturals once all are raised by a bound. *)
LEMMA RankedIn ==
    ASSUME NEW N \in Nat, NEW D \in SUBSET (1 .. N), NEW f \in [D -> Int],
           NEW k \in 1 .. Cardinality(D)
    PROVE  \E i \in D : /\ Cardinality(LowerAt(D, f, f[i])) < k
                        /\ k <= Cardinality(NotOverAt(D, f, f[i]))
<1> DEFINE h == [i \in D |-> -f[i]]
<1>1. PICK b \in Nat : \A i \in D : h[i] <= b
  <2>1. h \in [D -> Int]
    OBVIOUS
  <2> HIDE DEF h
  <2> QED BY <2>1, Bounded
<1> DEFINE g == [i \in D |-> f[i] + b]
<1>2. \A i \in D : f[i] \in Int /\ g[i] = f[i] + b /\ f[i] + b \in Nat
  <2>1. ASSUME NEW i \in D PROVE f[i] \in Int /\ f[i] + b \in Nat
    <3>1. f[i] \in Int /\ -f[i] <= b
      BY <1>1
    <3> QED BY <3>1
  <2> QED BY <2>1
<1>3. g \in [D -> Nat]
  BY <1>2
<1> HIDE DEF g, h
<1>4. PICK i \in D : /\ Cardinality(LowerAt(D, g, g[i])) < k
                     /\ k <= Cardinality(NotOverAt(D, g, g[i]))
  BY <1>3, RankedAt
<1>5. \A j \in D : (g[j] < g[i] <=> f[j] < f[i]) /\ (g[j] <= g[i] <=> f[j] <= f[i])
  BY <1>2
<1>6. LowerAt(D, g, g[i]) = LowerAt(D, f, f[i]) /\ NotOverAt(D, g, g[i]) = NotOverAt(D, f, f[i])
  BY <1>5 DEF LowerAt, NotOverAt
<1> QED BY <1>4, <1>6

(* There is a k-th share, and it is in its place.                          *)
LEMMA NthIs ==
    ASSUME SharesOK, NEW k \in 1 .. Len(shares)
    PROVE  Nth(k) \in 1 .. Whole /\ IsNth(k, Nth(k))
<1>1. /\ \A i \in DOMAIN shares : shares[i] \in 1 .. Whole
      /\ DOMAIN shares = 1 .. Len(shares) /\ Len(shares) \in Nat
      /\ Cardinality(DOMAIN shares) = Len(shares)
  BY Indices
<1>2. shares \in [DOMAIN shares -> Nat]
  BY <1>1 DEF SharesOK
<1>3. \E i \in DOMAIN shares : IsNth(k, shares[i])
  <2>1. PICK i \in DOMAIN shares : /\ Cardinality(LowerAt(DOMAIN shares, shares, shares[i])) < k
                                   /\ k <= Cardinality(NotOverAt(DOMAIN shares, shares, shares[i]))
    BY <1>1, <1>2, RankedAt
  <2> QED BY <2>1 DEF IsNth, Below, UpTo, LowerAt, NotOverAt
<1> DEFINE n == CHOOSE j \in DOMAIN shares : IsNth(k, shares[j])
<1>4. n \in DOMAIN shares /\ IsNth(k, shares[n])
  BY <1>3, Zenon
<1> HIDE DEF n
<1>5. Nth(k) = shares[n]
  BY DEF Nth, n
<1> QED BY <1>1, <1>4, <1>5

LEMMA NthOrder ==
    ASSUME SharesOK, NEW j \in 1 .. Len(shares), NEW k \in 1 .. Len(shares), j <= k
    PROVE  Nth(j) <= Nth(k)
<1>1. /\ Nth(j) \in 1 .. Whole /\ Cardinality(Below(Nth(j))) < j
      /\ Nth(k) \in 1 .. Whole /\ k <= Cardinality(UpTo(Nth(k)))
  BY NthIs DEF IsNth
<1> SUFFICES ASSUME Nth(k) < Nth(j) PROVE FALSE
  BY <1>1
<1>2. UpTo(Nth(k)) \subseteq Below(Nth(j)) /\ Below(Nth(j)) \in SUBSET DOMAIN shares
  <2>1. \A i \in DOMAIN shares : shares[i] \in 1 .. Whole
    BY Indices
  <2> QED BY <1>1, <2>1 DEF UpTo, Below
<1>3. Cardinality(UpTo(Nth(k))) <= Cardinality(Below(Nth(j)))
  <2>1. UpTo(Nth(k)) \in SUBSET DOMAIN shares
    BY DEF UpTo
  <2> QED BY <1>2, <2>1, Indices
<1>4. Cardinality(UpTo(Nth(k))) \in Nat /\ Cardinality(Below(Nth(j))) \in Nat
  <2>1. UpTo(Nth(k)) \in SUBSET DOMAIN shares
    BY DEF UpTo
  <2> QED BY <1>2, <2>1, Indices
<1> QED BY <1>1, <1>3, <1>4

LEMMA MedianBetween ==
    ASSUME SharesOK, shares # <<>>
    PROVE  \E low, high \in 1 .. Whole :
               /\ MedianTwice = low + high /\ low <= high
               /\ 2 * Cardinality(UpTo(low)) >= Len(shares)
               /\ 2 * Cardinality(Below(high)) <= Len(shares)
<1> DEFINE n == Len(shares)
           j == (n + 1) \div 2
           k == n \div 2 + 1
<1>1. n \in Nat \ {0}
  BY DEF SharesOK
<1>2. /\ j \in 1 .. n /\ k \in 1 .. n /\ j <= k
      /\ 2 * j >= n /\ 2 * (k - 1) <= n
  BY <1>1
<1>3. MedianTwice = Nth(j) + Nth(k)
  BY DEF MedianTwice
<1> HIDE DEF j, k
<1>4. /\ Nth(j) \in 1 .. Whole /\ Nth(k) \in 1 .. Whole /\ Nth(j) <= Nth(k)
      /\ j <= Cardinality(UpTo(Nth(j))) /\ Cardinality(Below(Nth(k))) < k
  BY <1>2, NthIs, NthOrder DEF IsNth
<1>5. Cardinality(UpTo(Nth(j))) \in Nat /\ Cardinality(Below(Nth(k))) \in Nat
  <2>1. UpTo(Nth(j)) \in SUBSET DOMAIN shares /\ Below(Nth(k)) \in SUBSET DOMAIN shares
    BY DEF UpTo, Below
  <2> QED BY <2>1, Indices
<1>6. /\ 2 * Cardinality(UpTo(Nth(j))) >= n
      /\ 2 * Cardinality(Below(Nth(k))) <= n
  BY <1>1, <1>2, <1>4, <1>5
<1> QED BY <1>3, <1>4, <1>6

LEMMA Shared ==
    ASSUME NEW exact \in Nat, NEW low \in Nat, NEW high \in Nat, low <= high,
           NEW whole \in Nat \ {0}, high <= whole,
           NEW e \in Nat, e * (2 * whole) <= exact * (low + high),
           exact * (low + high) < (e + 1) * (2 * whole)
    PROVE  /\ e <= exact
           /\ \A x \in Nat, s \in Nat : e < x /\ s <= low => exact * s < x * whole
           /\ \A s \in Nat : high <= s => exact * s >= e * whole
<1>1. \A a, b, c \in Nat : a <= b => c * a <= c * b
  <2>1. ASSUME NEW a \in Nat, NEW b \in Nat, NEW c \in Nat, a <= b PROVE c * a <= c * b
    <3>1. b - a \in Nat
      BY <2>1
    <3>2. c * (b - a) \in Nat /\ c * (b - a) = c * b - c * a
      BY <3>1
    <3>3. c * a \in Nat /\ c * b \in Nat
      OBVIOUS
    <3> QED BY <3>2, <3>3
  <2> QED BY <2>1
<1>2. \A a, b \in Nat : a * b \in Nat /\ a * b = b * a /\ a * (2 * b) = 2 * (a * b)
  OBVIOUS
<1>3. exact * (low + high) = exact * low + exact * high
  OBVIOUS
<1>4. exact * high <= exact * whole
  BY <1>1
<1>5. exact * low <= exact * high
  BY <1>1
<1>6. e <= exact
  <2> SUFFICES ASSUME exact + 1 <= e PROVE FALSE
    OBVIOUS
  <2>1. (exact + 1) * whole = exact * whole + whole
    OBVIOUS
  <2>2. whole * (exact + 1) <= whole * e
    BY <1>1
  <2>3. e * whole >= exact * whole + whole
    BY <1>2, <2>1, <2>2
  <2>4. 2 * (e * whole) <= 2 * (exact * whole)
    BY <1>2, <1>3, <1>4, <1>5
  <2>5. e * whole \in Nat /\ exact * whole \in Nat
    OBVIOUS
  <2> QED BY <2>3, <2>4, <2>5
<1>7. ASSUME NEW x \in Nat, NEW s \in Nat, e < x, s <= low PROVE exact * s < x * whole
  <2>1. exact * s <= exact * low
    BY <1>1, <1>7
  <2>2. whole * (e + 1) <= whole * x
    BY <1>1, <1>7
  <2>3. (e + 1) * (2 * whole) = 2 * (whole * (e + 1)) /\ x * whole = whole * x
    OBVIOUS
  <2>4. /\ exact * s \in Nat /\ exact * low \in Nat /\ exact * high \in Nat
        /\ whole * (e + 1) \in Nat /\ whole * x \in Nat
    OBVIOUS
  <2> QED BY <1>3, <1>5, <2>1, <2>2, <2>3, <2>4
<1>8. ASSUME NEW s \in Nat, high <= s PROVE exact * s >= e * whole
  <2>1. exact * high <= exact * s
    BY <1>1, <1>8
  <2>2. e * (2 * whole) = 2 * (e * whole)
    OBVIOUS
  <2>3. /\ exact * s \in Nat /\ exact * low \in Nat /\ exact * high \in Nat
        /\ e * whole \in Nat
    OBVIOUS
  <2> QED BY <1>3, <1>5, <2>1, <2>2, <2>3
<1> QED BY <1>6, <1>7, <1>8

(* Of an exact price: as many pairs kept at least the estimate as at most. *)
LEMMA EstimateHalves ==
    ASSUME SharesOK, shares # <<>>, NEW exact \in Nat
    PROVE  /\ Estimate(exact) \in Nat /\ Estimate(exact) <= exact
           /\ \A x \in Nat : Estimate(exact) < x =>
                  2 * Cardinality({i \in DOMAIN shares : exact * shares[i] < x * Whole})
                      >= Len(shares)
           /\ 2 * Cardinality({i \in DOMAIN shares :
                                   exact * shares[i] >= Estimate(exact) * Whole})
                  >= Len(shares)
<1> DEFINE e == Estimate(exact)
<1>1. PICK low, high \in 1 .. Whole :
          /\ MedianTwice = low + high /\ low <= high
          /\ 2 * Cardinality(UpTo(low)) >= Len(shares)
          /\ 2 * Cardinality(Below(high)) <= Len(shares)
  BY MedianBetween
<1>2. /\ Whole \in Nat \ {0} /\ low \in Nat /\ high \in Nat /\ high <= Whole /\ low <= high
  BY <1>1, PricesAssumption
<1>3. e \in Nat /\ e * (2 * Whole) <= exact * (low + high)
      /\ exact * (low + high) < (e + 1) * (2 * Whole)
  <2> DEFINE n == exact * (low + high)
             d == 2 * Whole
  <2>1. n \in Nat /\ d \in Nat \ {0}
    BY <1>2, Naturals
  <2>2. e = n \div d
    BY <1>1 DEF Estimate
  <2> HIDE DEF n, d, e
  <2>3. /\ n \div d \in Nat /\ n % d \in 0 .. d - 1
        /\ n = (n \div d) * d + (n % d)
    BY <2>1, Divided
  <2> DEFINE r == n % d
  <2>4. e \in Nat /\ r \in 0 .. d - 1 /\ n = e * d + r
    BY <2>2, <2>3
  <2> HIDE DEF r
  <2>5. e * d \in Nat /\ (e + 1) * d = e * d + d
    BY <2>1, <2>4
  <2>6. e \in Nat /\ e * d <= n /\ n < (e + 1) * d
    BY <2>1, <2>4, <2>5
  <2> QED BY <2>6 DEF n, d
<1> HIDE DEF e
<1>4. /\ e <= exact
      /\ \A x \in Nat, s \in Nat : e < x /\ s <= low => exact * s < x * Whole
      /\ \A s \in Nat : high <= s => exact * s >= e * Whole
  BY <1>2, <1>3, Shared
<1>5. \A i \in DOMAIN shares : shares[i] \in Nat
  BY Indices
<1>6. ASSUME NEW x \in Nat, e < x
      PROVE  2 * Cardinality({i \in DOMAIN shares : exact * shares[i] < x * Whole}) >= Len(shares)
  <2> DEFINE S == {i \in DOMAIN shares : exact * shares[i] < x * Whole}
  <2>1. UpTo(low) \subseteq S /\ UpTo(low) \in SUBSET DOMAIN shares /\ S \in SUBSET DOMAIN shares
    BY <1>4, <1>5, <1>6 DEF UpTo
  <2> HIDE DEF S
  <2>2. /\ Cardinality(UpTo(low)) <= Cardinality(S) /\ Len(shares) \in Nat
        /\ Cardinality(UpTo(low)) \in Nat /\ Cardinality(S) \in Nat
    BY <2>1, Indices
  <2>3. 2 * Cardinality(S) >= Len(shares)
    BY <1>1, <2>2
  <2> QED BY <2>3 DEF S
<1>7. 2 * Cardinality({i \in DOMAIN shares : exact * shares[i] >= e * Whole}) >= Len(shares)
  <2> DEFINE S == {i \in DOMAIN shares : exact * shares[i] >= e * Whole}
             T == DOMAIN shares \ Below(high)
  <2>1. T \subseteq S /\ T \in SUBSET DOMAIN shares /\ S \in SUBSET DOMAIN shares
    <3>1. ASSUME NEW i \in DOMAIN shares, i \notin Below(high)
          PROVE  exact * shares[i] >= e * Whole
      <4>1. shares[i] \in Nat /\ ~(shares[i] < high)
        BY <1>5, <3>1 DEF Below
      <4>2. high <= shares[i]
        BY <1>2, <4>1
      <4> QED BY <1>4, <4>1, <4>2
    <3> QED BY <3>1
  <2>2. Below(high) \in SUBSET DOMAIN shares
    BY DEF Below
  <2>3. Cardinality(T) = Len(shares) - Cardinality(Below(high))
    <3>1. DOMAIN shares \cap Below(high) = Below(high)
      BY <2>2
    <3>2. IsFiniteSet(DOMAIN shares)
      BY Indices
    <3>3. Cardinality(T) = Cardinality(DOMAIN shares) - Cardinality(Below(high))
      BY <3>1, <3>2, FS_Difference
    <3> QED BY <3>3, Indices
  <2> HIDE DEF S, T
  <2>4. /\ Cardinality(T) <= Cardinality(S) /\ Len(shares) \in Nat
        /\ Cardinality(Below(high)) \in Nat /\ Cardinality(S) \in Nat
    BY <2>1, <2>2, Indices
  <2>5. 2 * Cardinality(S) >= Len(shares)
    BY <1>1, <2>3, <2>4
  <2> QED BY <2>5 DEF S
<1> QED BY <1>3, <1>4, <1>6, <1>7 DEF e

----------------------------------------------------------------------------
(* What the actions of Prices rest on.                                     *)

LEMMA ValueIs ==
    ASSUME value \in Values, value.kind = "finite"
    PROVE  /\ value.digits \in Digits /\ value.exponent \in Exponent /\ value.sign \in {1, -1}
           /\ value.digits \in Seq(Digit) \ {<<>>}
<1>1. value.digits \in Digits /\ value.exponent \in Exponent /\ value.sign \in {1, -1}
  BY DEF Values, Exponent, Kinds
<1>2. CASE value.digits = <<0>>
  <2>1. 0 \in Digit
    BY DecimalsAssumption DEF Digit
  <2> QED BY <1>1, <1>2, <2>1
<1>3. CASE value.digits # <<0>>
  <2>1. PICK n \in 1 .. MaxDigits : value.digits \in [1 .. n -> Digit]
    BY <1>1, <1>3 DEF Digits
  <2>2. n \in Nat /\ n >= 1
    BY PricesAssumption
  <2>3. value.digits \in Seq(Digit) /\ Len(value.digits) = n
    BY <2>1, <2>2
  <2> QED BY <1>1, <2>2, <2>3
<1> QED BY <1>2, <1>3

LEMMA ZeroIs ==
    ASSUME NEW exp \in Exponent
    PROVE  Number(<<0>>, exp) = 0
<1>1. <<0>> \in Seq(Digit) /\ <<0>> # <<>> /\ Last(<<0>>) = 0
  BY DecimalsAssumption DEF Digit, Last
<1>2. Front(<<0>>) = <<>>
  BY DEF Front
<1> QED BY <1>1, <1>2, DropZero

LEMMA CanonicalFinds ==
    ASSUME value \in Values, value.kind = "finite", Exact(value) > 0, NEW who, Canonical(who)
    PROVE  /\ pc' = "stripping" /\ caller' = who
           /\ kept' \in Seq(Digit) \ {<<>>} /\ exponent' \in Exponent
           /\ Number(kept', exponent') = Exact(value)
<1> DEFINE n == Number(value.digits, value.exponent)
<1>1. n \in Nat
  BY ValueIs, NumberNat
<1>2. Exact(value) = value.sign * n
  BY DEF Exact
<1> HIDE DEF n
<1>3. Exact(value) = n /\ n # 0
  <2>1. CASE value.sign = 1
    BY <1>1, <1>2, <2>1
  <2>2. CASE value.sign = -1
    BY <1>1, <1>2, <2>2
  <2> QED BY <2>1, <2>2, ValueIs
<1>4. ~(\A i \in 1 .. Len(value.digits) : value.digits[i] = 0)
  <2> SUFFICES ASSUME \A i \in 1 .. Len(value.digits) : value.digits[i] = 0 PROVE FALSE
    OBVIOUS
  <2>1. 1 \in 1 .. Len(value.digits)
    BY ValueIs
  <2>2. value.digits[1] = 0
    BY <2>1
  <2>3. value.digits = <<0>>
    BY <2>2, ValueIs DEF Digits
  <2> QED BY <1>3, <2>3, ValueIs, ZeroIs DEF n
<1>5. kept' = value.digits /\ exponent' = value.exponent
  BY <1>4 DEF Canonical
<1> QED BY <1>3, <1>5, ValueIs DEF n, Canonical

LEMMA PlainIs ==
    ASSUME kept \in Seq(Digit) \ {<<>>}, exponent \in Exponent
    PROVE  /\ Plain.digits \in Seq(Digit)
           /\ Number(Plain.digits, Plain.exponent) = Number(kept, exponent)
           /\ Plain.exponent = IF exponent > 0 THEN 0 ELSE exponent
           /\ exponent <= 0 => Plain.digits = kept
<1>1. /\ Plain.digits = kept \o Zeros(IF exponent > 0 THEN exponent ELSE 0)
      /\ Plain.exponent = IF exponent > 0 THEN 0 ELSE exponent
  BY DEF Plain, Zeros
<1>2. exponent \in Int /\ MinExponent \in Nat
  BY PricesAssumption DEF Exponent
<1>3. CASE exponent > 0
  <2>1. /\ exponent \in Nat /\ exponent + MinExponent \in Nat /\ 0 + MinExponent = MinExponent
    BY <1>2, <1>3
  <2>2. /\ Plain.digits \in Seq(Digit)
        /\ Written(Plain.digits) = Written(kept) * Power[exponent]
    BY <1>1, <1>3, <2>1, AppendZeros
  <2>3. Power[exponent + MinExponent] = Power[exponent] * Power[MinExponent]
    BY <1>2, <2>1, PowerSum
  <2>4. Written(kept) \in Nat /\ Power[exponent] \in Nat /\ Power[MinExponent] \in Nat
    BY <1>2, <2>1, WrittenDef, PowerDef
  <2>5. \A a, b, c \in Nat : (a * b) * c = a * (b * c)
    OBVIOUS
  <2>6. (Written(kept) * Power[exponent]) * Power[MinExponent]
            = Written(kept) * (Power[exponent] * Power[MinExponent])
    BY <2>4, <2>5
  <2>7. Plain.exponent = 0
    BY <1>1, <1>3
  <2> QED BY <1>1, <1>2, <1>3, <2>1, <2>2, <2>3, <2>6, <2>7 DEF Number
<1>4. CASE ~(exponent > 0)
  <2>1. kept \o Zeros(0) = kept
    BY DEF Zeros
  <2>2. Plain.digits = kept /\ Plain.exponent = exponent
    BY <1>1, <1>4, <2>1
  <2> QED BY <1>1, <1>4, <2>2
<1> QED BY <1>3, <1>4

LEMMA PublishableIs ==
    ASSUME SharesOK, shares # <<>>, NEW listed \in Nat, listed <= PlausibleMax,
           listed * Step <= MaxValue
    PROVE  /\ Publishable(listed) \in Nat
           /\ Publishable(listed) = 0 => Estimate(listed) < PlausibleMin
           /\ Publishable(listed) > 0 =>
                /\ Publishable(listed) = Estimate(listed)
                /\ Estimate(listed) \in PlausibleMin .. PlausibleMax
<1> DEFINE e == Estimate(listed)
<1>1. e \in Nat /\ e <= listed
  BY EstimateHalves
<1>2. PlausibleMin \in Nat \ {0} /\ PlausibleMax \in Nat
  BY PricesAssumption
<1>3. e * Step <= MaxValue
  <2>1. listed - e \in Nat /\ Step \in Nat
    BY <1>1, StepNat
  <2> HIDE DEF e
  <2>2. (listed - e) * Step \in Nat /\ (listed - e) * Step = listed * Step - e * Step
    BY <1>1, <2>1
  <2>3. listed * Step \in Nat /\ e * Step \in Nat /\ MaxValue \in Nat
    BY <1>1, <2>1, StepNat, Naturals
  <2> QED BY <2>2, <2>3
<1>4. Publishable(listed) = IF e > 0 /\ e \in PlausibleMin .. PlausibleMax THEN e ELSE 0
  BY <1>3 DEF Publishable
<1> HIDE DEF e
<1>5. /\ Publishable(listed) \in Nat
      /\ Publishable(listed) = 0 => e < PlausibleMin
      /\ Publishable(listed) > 0 => Publishable(listed) = e /\ e \in PlausibleMin .. PlausibleMax
  BY <1>1, <1>2, <1>4
<1> QED BY <1>5 DEF e

----------------------------------------------------------------------------
(* The invariant, action by action.                                        *)

LEMMA InitIInv == Init => IInv
<1> SUFFICES ASSUME Init PROVE IInv
  OBVIOUS
<1>1. 0 \in -MinExponent .. MaxExponent
  BY PricesAssumption
<1>2. TypeOK
  BY <1>1 DEF Init, TypeOK
<1>3. SharesOK
  <2>1. PICK n \in 0 .. MaxSamples : shares \in [1 .. n -> 1 .. Whole]
    BY DEF Init
  <2>2. n \in Nat
    BY PricesAssumption
  <2>3. \A S : \A f \in [1 .. n -> S] : f \in Seq(S)
    BY <2>2
  <2> QED BY <2>1, <2>3 DEF Init, SharesOK
<1>4. CallerFits /\ KeptIsExact /\ AcceptedIsFit
  BY DEF Init, CallerFits, KeptIsExact, AcceptedIsFit
<1>5. VerdictIsOfTheNumber /\ CanonicalKeepsValue /\ EstimateIsFair
  BY DEF Init, VerdictIsOfTheNumber, CanonicalKeepsValue, EstimateIsFair
<1> QED BY <1>2, <1>3, <1>4, <1>5 DEF IInv

(* What passing means, of a number.                                        *)
Fit(v) ==
    /\ v.kind = "finite"
    /\ Exact(v) > 0 /\ Exact(v) <= MaxValue
    /\ Exact(v) % Step = 0
    /\ PlausibleMin * Step <= Exact(v) /\ Exact(v) <= PlausibleMax * Step

(* A step that refuses the reading, or passes it on, keeps the invariant if *)
(* what it decides is right.                                               *)
LEMMA Refuses ==
    ASSUME IInv, caller # "accept", pc # "done", UNCHANGED <<input, item, caller, kept, exponent>>,
           pc' = "done", verdict' \in Rejections, ~Fit(value)
    PROVE  IInv'
<1>1. verdict' # "accepted" /\ verdict' # "pending"
  BY DEF Rejections
<1>2. item = <<>> /\ verdict # "accepted"
  BY DEF IInv, TypeOK, CallerFits
<1>3. TypeOK'
  BY <1>1, <1>2 DEF IInv, TypeOK, input
<1>4. SharesOK' /\ KeptIsExact' /\ AcceptedIsFit' /\ CallerFits'
  BY <1>1 DEF IInv, SharesOK, KeptIsExact, AcceptedIsFit, CallerFits, input, TypeOK
<1>5. VerdictIsOfTheNumber'
  BY <1>1 DEF VerdictIsOfTheNumber, Fit, input
<1>6. CanonicalKeepsValue' /\ EstimateIsFair'
  BY <1>2 DEF CanonicalKeepsValue, EstimateIsFair
<1> QED BY <1>3, <1>4, <1>5, <1>6 DEF IInv

LEMMA Passes ==
    ASSUME IInv, pc # "done", item = <<>>, value.kind = "finite",
           Exact(value) \in 1 .. MaxValue, UNCHANGED <<input, item>>,
           \/ /\ Canonical("decimals") /\ verdict = "pending" /\ verdict' = verdict
           \/ /\ Canonical("accept") /\ verdict' = "accepted" /\ Fit(value)
    PROVE  IInv'
<1>0. value \in Values /\ value' = value
  BY DEF IInv, TypeOK, input
<1>1. /\ pc' = "stripping" /\ caller' \in {"decimals", "accept"}
      /\ kept' \in Seq(Digit) \ {<<>>} /\ exponent' \in Exponent
      /\ Number(kept', exponent') = Exact(value)
  BY <1>0, CanonicalFinds, StepNat
<1>2. (caller' = "accept" /\ verdict' = "accepted" /\ Fit(value))
      \/ (caller' = "decimals" /\ verdict' = "pending")
  BY DEF Canonical
<1>3. TypeOK'
  <2>1. \A i \in 1 .. Len(kept') : kept'[i] \in Digit
    BY <1>1
  <2> QED BY <1>0, <1>1, <1>2, <2>1 DEF TypeOK, Exponent
<1>4. SharesOK' /\ CallerFits'
  BY <1>1, <1>2 DEF IInv, SharesOK, CallerFits, input
<1>5. KeptIsExact'
  BY <1>0, <1>1 DEF KeptIsExact
<1>6. AcceptedIsFit'
  BY <1>0, <1>2 DEF AcceptedIsFit, Fit
<1>7. VerdictIsOfTheNumber' /\ EstimateIsFair'
  BY <1>1 DEF VerdictIsOfTheNumber, EstimateIsFair
<1>8. CanonicalKeepsValue'
  BY <1>0, <1>1 DEF CanonicalKeepsValue
<1> QED BY <1>3, <1>4, <1>5, <1>6, <1>7, <1>8 DEF IInv

LEMMA CheckValueIInv == IInv /\ CheckValue => IInv'
<1> SUFFICES ASSUME IInv, CheckValue PROVE IInv'
  OBVIOUS
<1>1. pc = "checking" /\ caller = "none" /\ verdict = "pending" /\ item = <<>>
  BY DEF CheckValue, IInv, CallerFits, TypeOK
<1>2. CASE /\ value.kind = "finite" /\ Exact(value) \in 1 .. MaxValue
           /\ Canonical("decimals") /\ UNCHANGED verdict
  BY <1>1, <1>2, Passes DEF CheckValue
<1>3. ASSUME NEW what \in {"not_finite", "not_positive", "too_large"}, Decide(what),
             UNCHANGED <<caller, kept, exponent>>,
             \/ value.kind # "finite"
             \/ Exact(value) <= 0
             \/ Exact(value) > MaxValue
      PROVE  IInv'
  <2>1. ~Fit(value)
    <3>1. value.kind = "finite" => Exact(value) \in Int /\ MaxValue \in Nat
      <4> SUFFICES ASSUME value.kind = "finite" PROVE Exact(value) \in Int /\ MaxValue \in Nat
        OBVIOUS
      <4>1. value \in Values
        BY DEF IInv, TypeOK
      <4>2. Number(value.digits, value.exponent) \in Nat /\ value.sign \in Int
        BY <4>1, ValueIs, NumberNat
      <4>3. \A a \in Int, b \in Nat : a * b \in Int
        OBVIOUS
      <4> QED BY <4>2, <4>3, StepNat DEF Exact
    <3> QED BY <1>3, <3>1 DEF Fit
  <2> QED BY <1>1, <1>3, <2>1, Refuses DEF CheckValue, Decide, Rejections
<1> QED BY <1>2, <1>3 DEF CheckValue

LEMMA StripIInv == IInv /\ Strip => IInv'
<1> SUFFICES ASSUME IInv, Strip PROVE IInv'
  OBVIOUS
<1>1. /\ pc = "stripping" /\ exponent < 0 /\ Last(kept) = 0
      /\ kept' = Front(kept) /\ exponent' = exponent + 1
      /\ UNCHANGED <<value, shares, estimated, pc, caller, verdict, item>>
  BY DEF Strip, HasZero, ExponentAfter, input
<1>2. /\ kept \in Seq(Digit) \ {<<>>} /\ exponent \in Exponent
      /\ Number(kept, exponent) = Exact(value) /\ Exact(value) \in 1 .. MaxValue
  BY <1>1 DEF IInv, TypeOK, KeptIsExact, Exponent
<1>3. exponent' \in Exponent
  BY <1>1, <1>2, PricesAssumption DEF Exponent
<1>4. kept' \in Seq(Digit) \ {<<>>} /\ Number(kept', exponent') = Exact(value)
  <2>1. Exact(value) # 0
    BY <1>2, StepNat
  <2> QED BY <1>1, <1>2, <1>3, <2>1, DropZero
<1>5. TypeOK'
  <2>1. \A i \in 1 .. Len(kept') : kept'[i] \in Digit
    BY <1>4
  <2> QED BY <1>1, <1>2, <1>3, <1>4, <2>1 DEF IInv, TypeOK, Exponent
<1>6. SharesOK' /\ CallerFits' /\ AcceptedIsFit'
  BY <1>1 DEF IInv, SharesOK, CallerFits, AcceptedIsFit
<1>7. KeptIsExact'
  BY <1>1, <1>2, <1>4 DEF IInv, KeptIsExact
<1>8. VerdictIsOfTheNumber' /\ EstimateIsFair' /\ item' = <<>>
  BY <1>1 DEF IInv, TypeOK, VerdictIsOfTheNumber, EstimateIsFair
<1>9. CanonicalKeepsValue'
  BY <1>1, <1>4, <1>8 DEF CanonicalKeepsValue
<1> QED BY <1>5, <1>6, <1>7, <1>8, <1>9 DEF IInv

(* Once the loop is over, the number of decimals tells whether the number  *)
(* is a whole number of steps.                                             *)
LEMMA DecimalsTell ==
    ASSUME IInv, Stripped
    PROVE  /\ Decimals <= MaxDecimals <=> exponent >= -MaxDecimals
           /\ Decimals <= MaxDecimals <=> Exact(value) % Step = 0
<1>1. /\ kept \in Seq(Digit) \ {<<>>} /\ exponent \in Exponent
      /\ Number(kept, exponent) = Exact(value)
  BY DEF IInv, TypeOK, KeptIsExact, Exponent, Stripped
<1>2. exponent \in Int /\ MaxDecimals \in Nat
  BY <1>1, PricesAssumption DEF Exponent
<1>3. Decimals <= MaxDecimals <=> exponent >= -MaxDecimals
  BY <1>2 DEF Decimals
<1>4. CASE exponent >= -MaxDecimals
  BY <1>1, <1>3, <1>4, WholeSteps
<1>5. CASE exponent < -MaxDecimals
  <2>1. Last(kept) # 0
    BY <1>2, <1>5 DEF Stripped, HasZero
  <2>2. Exact(value) % Step # 0
    BY <1>1, <1>5, <2>1, BrokenSteps
  <2> QED BY <1>2, <1>3, <1>5, <2>2
<1> QED BY <1>2, <1>3, <1>4, <1>5

LEMMA CheckDecimalsIInv == IInv /\ CheckDecimals => IInv'
<1> SUFFICES ASSUME IInv, CheckDecimals PROVE IInv'
  OBVIOUS
<1>1. /\ Stripped /\ pc = "stripping" /\ caller = "decimals" /\ verdict = "pending"
      /\ item = <<>> /\ UNCHANGED <<input, item>>
      /\ value.kind = "finite" /\ Exact(value) \in 1 .. MaxValue
  BY DEF CheckDecimals, Stripped, IInv, CallerFits, TypeOK, KeptIsExact
<1>2. /\ Exact(value) \in Nat \ {0} /\ Exact(value) <= MaxValue
      /\ PlausibleMin * Step \in Nat /\ PlausibleMax * Step \in Nat
  BY <1>1, StepNat, Naturals, PricesAssumption
<1>3. CASE /\ Decimals > MaxDecimals
           /\ Decide("too_many_decimals")
           /\ UNCHANGED <<caller, kept, exponent>>
  <2>1. ~(Decimals <= MaxDecimals)
    <3>1. Decimals \in Int /\ MaxDecimals \in Int
      BY PricesAssumption DEF Decimals, IInv, TypeOK
    <3> QED BY <1>3, <3>1
  <2>2. ~Fit(value)
    BY <1>1, <2>1, DecimalsTell DEF Fit
  <2> QED BY <1>1, <1>3, <2>2, Refuses DEF Decide, Rejections
<1>4. CASE /\ Decimals <= MaxDecimals
           /\ Exact(value) \notin PlausibleMin * Step .. PlausibleMax * Step
           /\ Decide("implausible")
           /\ UNCHANGED <<caller, kept, exponent>>
  <2>1. ~Fit(value)
    BY <1>2, <1>4 DEF Fit
  <2> QED BY <1>1, <1>4, <2>1, Refuses DEF Decide, Rejections
<1>5. CASE /\ Decimals <= MaxDecimals
           /\ Exact(value) \in PlausibleMin * Step .. PlausibleMax * Step
           /\ verdict' = "accepted"
           /\ Canonical("accept")
  <2>1. Fit(value)
    <3>1. Exact(value) % Step = 0
      BY <1>1, <1>5, DecimalsTell
    <3> QED BY <1>1, <1>2, <1>5, <3>1 DEF Fit
  <2> QED BY <1>1, <1>5, <2>1, Passes
<1> QED BY <1>3, <1>4, <1>5 DEF CheckDecimals

LEMMA SendIInv == IInv /\ Send => IInv'
<1> SUFFICES ASSUME IInv, Send PROVE IInv'
  OBVIOUS
<1> DEFINE listed == Number(kept, exponent) \div Step
           estimate == EstimatedFinal(listed)
<1>1. /\ Stripped /\ pc = "stripping" /\ caller = "accept" /\ verdict = "accepted"
      /\ pc' = "done" /\ item' = <<[price |-> Plain, estimate |-> estimate]>>
      /\ UNCHANGED <<value, shares, estimated, caller, kept, exponent, verdict>>
  BY DEF Send, Stripped, IInv, CallerFits, input
<1>2. /\ kept \in Seq(Digit) \ {<<>>} /\ exponent \in Exponent
      /\ Number(kept, exponent) = Exact(value)
      /\ value.kind = "finite" /\ Exact(value) \in 1 .. MaxValue
  BY <1>1 DEF IInv, TypeOK, KeptIsExact, Exponent
<1>3. Fit(value)
  BY <1>1 DEF IInv, AcceptedIsFit, Fit
<1>4. TypeOK'
  BY <1>1 DEF IInv, TypeOK
<1>5. SharesOK' /\ CallerFits' /\ AcceptedIsFit' /\ KeptIsExact'
  BY <1>1 DEF IInv, SharesOK, CallerFits, AcceptedIsFit, KeptIsExact
<1>6. VerdictIsOfTheNumber'
  BY <1>1, <1>3 DEF VerdictIsOfTheNumber, Fit
<1>7. CanonicalKeepsValue'
  <2>1. exponent \in Int /\ MaxDecimals \in Nat
    BY <1>2, PricesAssumption DEF Exponent
  <2>2. exponent >= -MaxDecimals
    BY <1>1, <1>3, DecimalsTell DEF Fit
  <2>3. exponent < 0 => Last(kept) # 0
    BY <1>1 DEF Stripped, HasZero
  <2>4. /\ Number(Plain.digits, Plain.exponent) = Exact(value)
        /\ Plain.exponent = IF exponent > 0 THEN 0 ELSE exponent
        /\ exponent <= 0 => Plain.digits = kept
    BY <1>2, PlainIs
  <2>5. /\ Plain.exponent \in -MaxDecimals .. 0
        /\ Plain.exponent < 0 => Last(Plain.digits) # 0
    BY <2>1, <2>2, <2>3, <2>4
  <2>6. item'[1].price = Plain
    BY <1>1
  <2> QED BY <1>1, <2>4, <2>5, <2>6 DEF CanonicalKeepsValue
<1>8. EstimateIsFair'
  <2> DEFINE exact == Exact(value) \div Step
             AtLeast(x) == Cardinality({i \in DOMAIN shares : exact * shares[i] >= x * Whole})
             Under(x) == Cardinality({i \in DOMAIN shares : exact * shares[i] < x * Whole})
  <2>1. /\ exact \in Nat /\ exact * Step = Exact(value) /\ listed = exact
    <3>1. Exact(value) \in Nat /\ Step \in Nat \ {0} /\ Exact(value) % Step = 0
      BY <1>2, <1>3, StepNat DEF Fit
    <3> DEFINE n == Exact(value)
    <3> HIDE DEF n
    <3>2. n \div Step \in Nat /\ n = (n \div Step) * Step + (n % Step) /\ n % Step = 0
      BY <3>1, Divided DEF n
    <3>3. (n \div Step) * Step \in Nat
      BY <3>1, <3>2, Naturals
    <3>4. (n \div Step) * Step = n
      BY <3>2, <3>3
    <3> QED BY <1>2, <3>2, <3>4 DEF n
  <2>2. exact <= PlausibleMax /\ exact * Step <= MaxValue
    <3>1. exact * Step <= PlausibleMax * Step /\ exact * Step <= MaxValue
      BY <1>3, <2>1 DEF Fit
    <3>2. Step \in Nat \ {0} /\ PlausibleMax \in Nat
      BY StepNat, PricesAssumption
    <3> HIDE DEF exact, listed
    <3> SUFFICES ASSUME PlausibleMax + 1 <= exact PROVE FALSE
      BY <2>1, <3>1, <3>2
    <3>3. exact - PlausibleMax - 1 \in Nat
      BY <2>1, <3>2
    <3>4. /\ (exact - PlausibleMax - 1) * Step \in Nat
          /\ (exact - PlausibleMax - 1) * Step = exact * Step - PlausibleMax * Step - Step
      BY <2>1, <3>2, <3>3
    <3>5. exact * Step \in Nat /\ PlausibleMax * Step \in Nat
      BY <2>1, <3>2, Naturals
    <3> QED BY <3>1, <3>2, <3>4, <3>5
  <2>3. SharesOK /\ estimated \in BOOLEAN
    BY DEF IInv, SharesOK
  <2>4. Len(shares) \in Nat /\ \A x : Under(x) \in Nat
    BY <2>3, Indices
  <2>5. PlausibleMin \in Nat \ {0} /\ PlausibleMax \in Nat
    BY PricesAssumption
  <2> HIDE DEF exact, listed
  <2>6. /\ estimate = Absent <=> ~estimated
        /\ estimate = Null => 2 * Under(PlausibleMin) >= Len(shares)
        /\ estimate > 0 =>
            /\ estimate \in PlausibleMin .. PlausibleMax
            /\ estimate <= exact
            /\ 2 * AtLeast(estimate) >= Len(shares) /\ 2 * Under(estimate + 1) >= Len(shares)
    <3>1. CASE ~estimated
      BY <3>1 DEF EstimatedFinal, Absent, Null
    <3>2. CASE estimated /\ shares = <<>>
      <4>1. Len(shares) = 0 /\ estimate = 0
        BY <3>2 DEF EstimatedFinal, Null
      <4> QED BY <2>4, <3>2, <4>1 DEF Absent, Null
    <3>3. CASE estimated /\ shares # <<>>
      <4>1. estimate = Publishable(exact)
        BY <2>1, <3>3 DEF EstimatedFinal
      <4>2. /\ Publishable(exact) \in Nat
            /\ Publishable(exact) = 0 => Estimate(exact) < PlausibleMin
            /\ Publishable(exact) > 0 =>
                 /\ Publishable(exact) = Estimate(exact)
                 /\ Estimate(exact) \in PlausibleMin .. PlausibleMax
        BY <2>1, <2>2, <2>3, <3>3, PublishableIs
      <4>3. /\ Estimate(exact) \in Nat /\ Estimate(exact) <= exact
            /\ \A x \in Nat : Estimate(exact) < x => 2 * Under(x) >= Len(shares)
            /\ 2 * AtLeast(Estimate(exact)) >= Len(shares)
        BY <2>1, <2>3, <3>3, EstimateHalves
      <4> HIDE DEF Under, AtLeast, estimate
      <4>4. Estimate(exact) + 1 \in Nat /\ Estimate(exact) < Estimate(exact) + 1
        BY <4>3
      <4> QED BY <2>5, <3>3, <4>1, <4>2, <4>3, <4>4 DEF Absent, Null
    <3> QED BY <2>3, <3>1, <3>2, <3>3
  <2>7. item'[1].estimate = estimate
    BY <1>1
  <2> HIDE DEF estimate
  <2> QED BY <1>1, <2>6, <2>7 DEF EstimateIsFair, Quantify, exact
<1> QED BY <1>4, <1>5, <1>6, <1>7, <1>8 DEF IInv

LEMMA StutterIInv == IInv /\ UNCHANGED vars => IInv'
<1> SUFFICES ASSUME IInv, UNCHANGED vars PROVE IInv'
  OBVIOUS
<1>1. UNCHANGED <<value, shares, estimated, pc, caller, kept, exponent, verdict, item>>
  BY DEF vars, input
<1>2. TypeOK' /\ SharesOK'
  BY <1>1 DEF IInv, TypeOK, SharesOK
<1>3. CallerFits' /\ KeptIsExact' /\ AcceptedIsFit'
  BY <1>1 DEF IInv, CallerFits, KeptIsExact, AcceptedIsFit
<1>4. VerdictIsOfTheNumber'
  BY <1>1 DEF IInv, VerdictIsOfTheNumber
<1>5. CanonicalKeepsValue'
  BY <1>1 DEF IInv, CanonicalKeepsValue
<1>6. EstimateIsFair'
  BY <1>1 DEF IInv, EstimateIsFair, Quantify
<1> QED BY <1>2, <1>3, <1>4, <1>5, <1>6 DEF IInv

(* The inductive invariant of one price: what the loop of canonical works  *)
(* on stays the number that was checked.                                   *)
THEOREM Invariance == Spec => []IInv
<1>1. Init => IInv
  BY InitIInv
<1>2. IInv /\ [Next]_vars => IInv'
  BY CheckValueIInv, StripIInv, CheckDecimalsIInv, SendIInv, StutterIInv DEF Next
<1> QED BY <1>1, <1>2, PTL DEF Spec

(* Type correctness: canonical never runs out of digits or exponents, and  *)
(* only an accepted reading becomes an item.                               *)
THEOREM Typing == Spec => []TypeOK
<1>1. IInv => TypeOK
  BY DEF IInv
<1> QED BY <1>1, Invariance, PTL

(* What value_problem and the plausible range accept is decided by the     *)
(* number, in whatever form a source wrote it.                             *)
THEOREM ByNumber == Spec => []VerdictIsOfTheNumber
<1>1. IInv => VerdictIsOfTheNumber
  BY DEF IInv
<1> QED BY <1>1, Invariance, PTL

(* canonical changes the form of a price and never the price, and what is  *)
(* sent is in its one plain form.                                          *)
THEOREM KeepsValue == Spec => []CanonicalKeepsValue
<1>1. IInv => CanonicalKeepsValue
  BY DEF IInv
<1> QED BY <1>1, Invariance, PTL

(* The estimate of an item is the median pair's, rounded down once, and is *)
(* left out only when it could not be sent.                                *)
THEOREM Fair == Spec => []EstimateIsFair
<1>1. IInv => EstimateIsFair
  BY DEF IInv
<1> QED BY <1>1, Invariance, PTL

----------------------------------------------------------------------------
(* The sources. Arithmetic first: fractions in units of a power of Base.   *)

LEMMA Grows ==
    ASSUME NEW a \in Nat, NEW b \in Nat, NEW k \in Nat \ {0}
    PROVE  a <= b <=> a * k <= b * k
<1>1. ASSUME NEW m \in Nat, NEW n \in Nat, m <= n PROVE m * k <= n * k
  <2>1. (n - m) * k \in Nat /\ (n - m) * k = n * k - m * k
    <3>1. n - m \in Nat
      BY <1>1
    <3> QED BY <3>1
  <2>2. n * k \in Nat /\ m * k \in Nat
    OBVIOUS
  <2> QED BY <2>1, <2>2
<1>2. CASE a <= b
  BY <1>1, <1>2
<1>3. CASE ~(a <= b)
  <2>1. b + 1 <= a /\ b + 1 \in Nat
    BY <1>3
  <2>2. (b + 1) * k <= a * k
    BY <1>1, <2>1
  <2>3. (b + 1) * k = b * k + k /\ b * k \in Nat /\ a * k \in Nat
    OBVIOUS
  <2> QED BY <1>3, <2>2, <2>3
<1> QED BY <1>2, <1>3

(* A quotient rounded down, by what it is at least.                        *)
LEMMA AtLeast ==
    ASSUME NEW a \in Nat, NEW b \in Nat \ {0}, NEW c \in Nat
    PROVE  a \div b \in Nat /\ (c <= a \div b <=> c * b <= a)
<1> DEFINE q == a \div b
           r == a % b
<1>1. q \in Nat /\ r \in 0 .. b - 1 /\ a = q * b + r
  BY Divided
<1> HIDE DEF q, r
<1>2. q * b \in Nat /\ c * b \in Nat
  BY <1>1
<1>3. CASE c <= q
  <2>1. c * b <= q * b
    BY <1>1, <1>3, Grows
  <2> QED BY <1>1, <1>2, <1>3, <2>1 DEF q
<1>4. CASE ~(c <= q)
  <2>1. q + 1 <= c /\ q + 1 \in Nat
    BY <1>1, <1>4
  <2>2. (q + 1) * b <= c * b
    BY <2>1, Grows
  <2>3. (q + 1) * b = q * b + b
    BY <1>1
  <2>4. ~(c * b <= a)
    BY <1>1, <1>2, <2>2, <2>3
  <2> QED BY <1>1, <1>4, <2>4 DEF q
<1> QED BY <1>3, <1>4

LEMMA ShiftIs ==
    ASSUME NEW n \in Int
    PROVE  /\ Shift(n) \in Nat \ {0}
           /\ n >= 0 => Shift(n) = Power[n]
           /\ n <= 0 => Shift(n) = 1
BY PowerDef DEF Shift

(* Moving the unit by k digits.                                            *)
LEMMA ShiftSum ==
    ASSUME NEW e \in Int, NEW k \in Nat
    PROVE  Shift(e + k) * Shift(-e)
               = (Shift(e) * Shift(-(e + k))) * Power[k]
<1>1. \A n \in Nat : Power[n] \in Nat
  BY PowerDef
<1>2. e + k \in Int /\ -e \in Int /\ -(e + k) \in Int
  OBVIOUS
<1>3. CASE e >= 0
  <2>1. e + k >= 0 /\ -e <= 0 /\ -(e + k) <= 0 /\ e \in Nat
    BY <1>3
  <2>2. /\ Shift(e + k) = Power[e + k] /\ Shift(-e) = 1
        /\ Shift(e) = Power[e] /\ Shift(-(e + k)) = 1
    BY <1>2, <1>3, <2>1, ShiftIs
  <2>3. Power[e + k] = Power[e] * Power[k] /\ Power[e] \in Nat /\ Power[k] \in Nat
    BY <1>1, <2>1, PowerSum
  <2> QED BY <2>2, <2>3
<1>4. CASE e < 0 /\ e + k >= 0
  <2>1. /\ Shift(e + k) = Power[e + k] /\ Shift(-e) = Power[-e]
        /\ Shift(e) = 1 /\ Shift(-(e + k)) = 1
    BY <1>2, <1>4, ShiftIs
  <2>2. e + k \in Nat /\ -e \in Nat /\ (e + k) + (-e) = k
    BY <1>4
  <2>3. Power[k] = Power[e + k] * Power[-e] /\ Power[k] \in Nat
    BY <1>1, <2>2, PowerSum
  <2> QED BY <2>1, <2>3
<1>5. CASE e < 0 /\ e + k < 0
  <2>1. /\ Shift(e + k) = 1 /\ Shift(-e) = Power[-e]
        /\ Shift(e) = 1 /\ Shift(-(e + k)) = Power[-(e + k)]
    BY <1>2, <1>5, ShiftIs
  <2>2. -(e + k) \in Nat /\ -e \in Nat /\ -(e + k) + k = -e
    BY <1>5
  <2>3. Power[-e] = Power[-(e + k)] * Power[k]
    BY <2>2, PowerSum
  <2>4. Power[-(e + k)] \in Nat /\ Power[-e] \in Nat
    BY <1>1, <2>2
  <2> QED BY <2>1, <2>3, <2>4
<1> QED BY <1>3, <1>4, <1>5

LEMMA InUnitsIs ==
    ASSUME NEW num \in Nat, NEW den \in Nat \ {0}, NEW e \in Int, NEW c \in Nat
    PROVE  /\ InUnits(num, den, e) \in Nat
           /\ c <= InUnits(num, den, e)
                  <=> c * (den * Shift(e)) <= num * Shift(-e)
<1> DEFINE s == Shift(e)
           t == Shift(-e)
<1>1. s \in Nat \ {0} /\ t \in Nat \ {0}
  BY ShiftIs
<1> HIDE DEF s, t
<1>2. num * t \in Nat /\ den * s \in Nat \ {0}
  BY <1>1
<1>3. /\ (num * t) \div (den * s) \in Nat
      /\ c <= (num * t) \div (den * s) <=> c * (den * s) <= num * t
  BY <1>2, AtLeast
<1> QED BY <1>3 DEF InUnits, s, t

(* In units of k digits more a fraction is its digits without the last k.  *)
LEMMA Rearranged ==
    ASSUME NEW c \in Nat, NEW d \in Nat, NEW x \in Nat, NEW y \in Nat, NEW s \in Nat, NEW t \in Nat,
           NEW p \in Nat, x * y = (s * t) * p
    PROVE  (c * (d * x)) * y = ((c * p) * (d * s)) * t
<1>1. (c * (d * x)) * y = (c * d) * (x * y)
  OBVIOUS
<1>2. (c * d) * ((s * t) * p) = ((c * p) * (d * s)) * t
  OBVIOUS
<1> QED BY <1>1, <1>2

LEMMA UnitsScale ==
    ASSUME NEW num \in Nat, NEW den \in Nat \ {0}, NEW e \in Int, NEW k \in Nat, NEW c \in Nat
    PROVE  c <= InUnits(num, den, e + k) <=> c * Power[k] <= InUnits(num, den, e)
<1> DEFINE x == Shift(e + k)
           y == Shift(-e)
           s == Shift(e)
           t == Shift(-(e + k))
           p == Power[k]
<1>1. e + k \in Int /\ -e \in Int /\ -(e + k) \in Int
  OBVIOUS
<1>2. x \in Nat \ {0} /\ y \in Nat \ {0} /\ s \in Nat \ {0} /\ t \in Nat \ {0}
  BY <1>1, ShiftIs
<1>3. p \in Nat
  BY PowerDef
<1>4. x * y = (s * t) * p
  BY ShiftSum
<1>5. c <= InUnits(num, den, e + k) <=> c * (den * x) <= num * t
  BY <1>1, InUnitsIs
<1>6. c * p \in Nat
  BY <1>3, Naturals
<1>7. c * p <= InUnits(num, den, e) <=> (c * p) * (den * s) <= num * y
  BY <1>6, InUnitsIs
<1> HIDE DEF x, y, s, t, p
<1>8. /\ c * (den * x) \in Nat /\ num * t \in Nat
      /\ (c * p) * (den * s) \in Nat /\ num * y \in Nat
  BY <1>2, <1>6, Naturals
<1>9. c * (den * x) <= num * t <=> (c * (den * x)) * y <= (num * t) * y
  BY <1>2, <1>8, Grows
<1>10. (c * p) * (den * s) <= num * y <=> ((c * p) * (den * s)) * t <= (num * y) * t
  BY <1>2, <1>8, Grows
<1>11. (c * (den * x)) * y = ((c * p) * (den * s)) * t
  BY <1>2, <1>3, <1>4, Rearranged
<1>12. (num * t) * y = (num * y) * t
  BY <1>2
<1> QED BY <1>5, <1>7, <1>9, <1>10, <1>11, <1>12 DEF p

(* The card's quotation has an inverse with a first digit.                 *)
LEMMA FirstDigitIs ==
    ASSUME NEW den \in 1 .. Power[MaxInverse], NEW dec \in 0 .. MaxInverse
    PROVE  /\ FirstDigit(Power[dec], den) \in Int
           /\ 1 <= InUnits(Power[dec], den, FirstDigit(Power[dec], den))
<1> DEFINE M == MaxInverse
           num == Power[dec]
           Units(e) == InUnits(num, den, e)
<1>1. M \in Nat /\ Base \in Nat /\ Base >= 2 /\ dec \in Nat /\ M - dec \in Nat
  BY SourcesAssumption, DecimalsAssumption
<1>2. num \in Nat \ {0} /\ Power[M] \in Nat \ {0} /\ Power[M - dec] \in Nat \ {0}
      /\ den \in Nat \ {0} /\ den <= Power[M]
  BY <1>1, PowerDef
<1>3. num <= Power[M]
  <2>1. Power[M] = num * Power[M - dec]
    <3>1. dec + (M - dec) = M
      BY <1>1
    <3> QED BY <1>1, <3>1, PowerSum
  <2> HIDE DEF num
  <2>2. num * 1 <= num * Power[M - dec]
    <3>1. 1 * num <= Power[M - dec] * num
      BY <1>2, Grows
    <3> QED BY <1>2, <3>1
  <2> QED BY <1>2, <2>1, <2>2
<1> HIDE DEF num
<1>4. \A e \in Int : Units(e) \in Nat
  BY <1>2, InUnitsIs
<1>5. 1 <= Units(-M)
  <2>1. Shift(-M) = 1 /\ Shift(-(-M)) = Power[M] /\ -M \in Int
    <3>1. -M \in Int /\ -M <= 0 /\ -(-M) = M /\ M >= 0 /\ M \in Int
      BY <1>1
    <3> QED BY <3>1, ShiftIs
  <2>2. 1 <= Units(-M) <=> 1 * (den * Shift(-M)) <= num * Shift(-(-M))
    BY <1>2, <2>1, InUnitsIs
  <2>3. den <= num * Power[M]
    <3>1. 1 * Power[M] <= num * Power[M]
      BY <1>2, Grows
    <3>2. num * Power[M] \in Nat
      BY <1>2
    <3> QED BY <1>2, <3>1, <3>2
  <2> HIDE DEF Units
  <2> QED BY <1>2, <2>1, <2>2, <2>3
<1>6. ~(1 <= Units(M + 1))
  <2>1. Shift(M + 1) = Power[M] * Base /\ Shift(-(M + 1)) = 1 /\ M + 1 \in Int
    <3>1. M + 1 \in Int /\ -(M + 1) \in Int /\ M + 1 >= 0 /\ -(M + 1) <= 0
      BY <1>1
    <3>2. Power[M + 1] = Power[M] * Base
      BY <1>1, PowerDef
    <3> QED BY <3>1, <3>2, ShiftIs
  <2>2. 1 <= Units(M + 1) <=> 1 * (den * Shift(M + 1)) <= num * Shift(-(M + 1))
    BY <1>2, <2>1, InUnitsIs
  <2> DEFINE more == Power[M] * Base
  <2>3. more \in Nat /\ Power[M] < more
    <3>1. 2 * Power[M] <= Base * Power[M]
      BY <1>1, <1>2, Grows
    <3>2. Base * Power[M] = more /\ more \in Nat
      BY <1>1, <1>2
    <3> QED BY <1>2, <3>1, <3>2
  <2> HIDE DEF more
  <2>4. 1 * more <= den * more /\ den * more \in Nat
    BY <1>2, <2>3, Grows
  <2>5. ~(1 * (den * more) <= num * 1)
    BY <1>2, <1>3, <2>3, <2>4
  <2> QED BY <2>1, <2>2, <2>5 DEF more
<1> DEFINE S == {n \in Nat : ~(1 <= Units(n - M))}
<1>7. M + M + 1 \in S
  <2>1. M + M + 1 \in Nat /\ (M + M + 1) - M = M + 1
    BY <1>1
  <2> QED BY <1>6, <2>1
<1>8. PICK n \in S : \A m \in S : n <= m
  <2>1. S \in SUBSET Nat /\ S # {}
    BY <1>7
  <2> HIDE DEF S
  <2> QED BY <2>1, Least
<1>9. n \in Nat /\ ~(1 <= Units(n - M)) /\ n <= M + M + 1
  BY <1>7, <1>8
<1>10. n # 0
  <2>1. 0 - M = -M
    BY <1>1
  <2> QED BY <1>5, <1>9, <2>1
<1> DEFINE e == n - 1 - M
<1>11. e \in -M .. M /\ n - M = e + 1 /\ e \in Int /\ n - 1 \in Nat /\ ~(n <= n - 1)
  BY <1>1, <1>9, <1>10
<1>12. 1 <= Units(e)
  <2>1. n - 1 \notin S
    BY <1>8, <1>11
  <2> QED BY <1>11, <2>1
<1>13. Units(e) <= Base - 1
  <2>1. 1 <= Units(e + 1) <=> 1 * Power[1] <= Units(e)
    <3> HIDE DEF e
    <3> QED BY <1>2, <1>11, UnitsScale
  <2>2. Power[1] = Base
    <3>1. Power[0 + 1] = Power[0] * Base /\ Power[0] = 1
      BY PowerDef
    <3> QED BY <1>1, <3>1
  <2> HIDE DEF Units, e
  <2>3. ~(Base <= Units(e))
    BY <1>1, <1>9, <1>11, <2>1, <2>2
  <2>4. Units(e) \in Nat
    BY <1>4, <1>11
  <2> QED BY <1>1, <2>3, <2>4
<1>14. \E d \in -M .. M : InUnits(num, den, d) \in 1 .. Base - 1
  <2> HIDE DEF e
  <2>1. Units(e) \in 1 .. Base - 1
    <3> HIDE DEF Units
    <3> QED BY <1>1, <1>4, <1>11, <1>12, <1>13
  <2> QED BY <1>11, <2>1
<1>15. /\ FirstDigit(num, den) \in -M .. M
       /\ InUnits(num, den, FirstDigit(num, den)) \in 1 .. Base - 1
  BY <1>14, Zenon DEF FirstDigit
<1> QED BY <1>1, <1>15 DEF num

(* Rounded twice, to Precision digits and then to a step, an inverse that  *)
(* the second rounding accepts is the exact one rounded down once: the     *)
(* first keeps more than a step's digits, or the second refuses.           *)
LEMMA InverseIs ==
    ASSUME NEW den \in 1 .. Power[MaxInverse], NEW dec \in 0 .. MaxInverse
    PROVE  LET last == FirstDigit(Power[dec], den) + 1 - Precision
               quotient == InUnits(Power[dec], den, last)
               steps == InUnits(quotient * Shift(last), Shift(-last), -MaxDecimals)
           IN  /\ steps \in Nat
               /\ steps < Power[Precision] =>
                      /\ steps * den <= Power[dec + MaxDecimals]
                      /\ Power[dec + MaxDecimals] < (steps + 1) * den
<1> DEFINE num == Power[dec]
           first == FirstDigit(num, den)
           last == first + 1 - Precision
           q == InUnits(num, den, last)
           up == Shift(last)
           down == Shift(-last)
           steps == InUnits(q * up, down, -MaxDecimals)
           D == MaxDecimals
<1>1. /\ Precision \in Nat \ {0} /\ D \in Nat /\ Base \in Nat /\ dec \in Nat /\ MaxInverse \in Nat
      /\ Precision - 1 \in Nat
  BY SourcesAssumption, DecimalsAssumption
<1>2. num \in Nat \ {0} /\ den \in Nat \ {0} /\ Power[D] \in Nat \ {0} /\ Power[MaxInverse] \in Nat
  BY <1>1, PowerDef
<1>3. first \in Int /\ 1 <= InUnits(num, den, first)
  BY FirstDigitIs
<1> HIDE DEF num, first
<1>4. last \in Int /\ -last \in Int /\ first = last + (Precision - 1)
  BY <1>1, <1>3
<1> HIDE DEF last
<1>5. q \in Nat /\ up \in Nat \ {0} /\ down \in Nat \ {0} /\ q * up \in Nat
  <2>1. q \in Nat
    BY <1>2, <1>4, InUnitsIs
  <2>2. up \in Nat \ {0} /\ down \in Nat \ {0}
    BY <1>4, ShiftIs
  <2> HIDE DEF q, up, down
  <2> QED BY <2>1, <2>2
<1>6. Power[Precision - 1] <= q
  <2>1. 1 <= InUnits(num, den, last + (Precision - 1)) <=> 1 * Power[Precision - 1] <= q
    BY <1>1, <1>2, <1>4, UnitsScale
  <2>2. Power[Precision - 1] \in Nat
    BY <1>1, PowerDef
  <2> HIDE DEF q
  <2> QED BY <1>3, <1>4, <2>1, <2>2
<1> HIDE DEF q, up, down
<1>7. Shift(-D) = 1 /\ Shift(-(-D)) = Power[D] /\ -D \in Int
  <2>1. -D \in Int /\ -D <= 0 /\ -(-D) = D /\ D >= 0 /\ D \in Int
    BY <1>1
  <2> QED BY <2>1, ShiftIs
<1>8. steps \in Nat
  BY <1>5, <1>7, InUnitsIs
<1>9. ASSUME NEW c \in Nat PROVE c <= steps <=> c * down <= (q * up) * Power[D]
  <2>1. c <= steps <=> c * (down * Shift(-D)) <= (q * up) * Shift(-(-D))
    BY <1>5, <1>7, InUnitsIs
  <2>2. down * 1 = down
    BY <1>5
  <2> HIDE DEF steps
  <2> QED BY <1>7, <2>1, <2>2
<1> HIDE DEF steps
<1>10. CASE last <= -D
  <2> DEFINE k == -D - last
  <2>1. k \in Nat /\ last + k = -D /\ -last = D + k /\ last <= 0 /\ -last >= 0
    BY <1>1, <1>4, <1>10
  <2>2. up = 1 /\ down = Power[D] * Power[k] /\ Power[k] \in Nat
    <3> HIDE DEF k
    <3>1. up = 1
      BY <1>4, <2>1, ShiftIs DEF up
    <3>2. down = Power[-last]
      BY <1>4, <2>1, ShiftIs DEF down
    <3>3. Power[D + k] = Power[D] * Power[k] /\ Power[k] \in Nat
      BY <1>1, <2>1, PowerSum, PowerDef
    <3> QED BY <2>1, <3>1, <3>2, <3>3
  <2> HIDE DEF k
  <2>3. ASSUME NEW c \in Nat PROVE c <= steps <=> c * den <= Power[dec + D]
    <3>1. c * Power[k] \in Nat
      BY <2>2, Naturals
    <3>2. c <= steps <=> (c * Power[k]) * Power[D] <= q * Power[D]
      <4>1. c * down = (c * Power[k]) * Power[D]
        BY <1>2, <2>2, Associate
      <4>2. (q * up) = q
        BY <1>5, <2>2
      <4> QED BY <1>9, <4>1, <4>2
    <3>3. (c * Power[k]) * Power[D] <= q * Power[D] <=> c * Power[k] <= q
      BY <1>2, <1>5, <3>1, Grows
    <3>4. c * Power[k] <= q <=> c <= InUnits(num, den, -D)
      <4>1. c <= InUnits(num, den, last + k) <=> c * Power[k] <= InUnits(num, den, last)
        BY <1>2, <1>4, <2>1, UnitsScale
      <4> QED BY <2>1, <4>1 DEF q
    <3>5. c <= InUnits(num, den, -D) <=> c * (den * 1) <= num * Power[D]
      <4>1. c <= InUnits(num, den, -D)
                <=> c * (den * Shift(-D)) <= num * Shift(-(-D))
        BY <1>2, <1>7, InUnitsIs
      <4> QED BY <1>7, <4>1
    <3>6. den * 1 = den /\ num * Power[D] = Power[dec + D]
      <4>1. den * 1 = den
        BY <1>2
      <4>2. num * Power[D] = Power[dec + D]
        BY <1>1, PowerSum DEF num
      <4> QED BY <4>1, <4>2
    <3> QED BY <3>2, <3>3, <3>4, <3>5, <3>6
  <2>4. steps <= steps /\ ~(steps + 1 <= steps) /\ steps + 1 \in Nat
    BY <1>8
  <2>5. steps * den <= Power[dec + D] /\ ~((steps + 1) * den <= Power[dec + D])
    BY <1>8, <2>3, <2>4
  <2>6. (steps + 1) * den \in Nat /\ Power[dec + D] \in Nat
    <3>1. dec + D \in Nat
      BY <1>1
    <3> QED BY <1>2, <2>4, <3>1, Naturals, PowerDef
  <2>7. Power[dec + D] < (steps + 1) * den
    BY <2>5, <2>6
  <2> QED BY <1>8, <2>5, <2>7 DEF steps, q, up, down, last, first, num
<1>11. CASE ~(last <= -D)
  <2> DEFINE k == D + last
  <2>1. k \in Nat /\ k - 1 \in Nat /\ -D + k = last
    BY <1>1, <1>4, <1>11
  <2>2. up * Power[D] = down * Power[k]
    <3>1. Shift(-D + k) * Shift(-(-D))
              = (Shift(-D) * Shift(-(-D + k))) * Power[k]
      BY <1>7, <2>1, ShiftSum
    <3>2. 1 * down = down
      BY <1>5
    <3> HIDE DEF k
    <3> QED BY <1>7, <2>1, <3>1, <3>2 DEF up, down
  <2>3. Power[Precision] = Power[Precision - 1] * Base /\ Power[Precision - 1] \in Nat
    <3>1. (Precision - 1) + 1 = Precision
      BY <1>1
    <3> QED BY <1>1, <3>1, PowerDef
  <2>4. Power[k] = Power[k - 1] * Base /\ Power[k - 1] \in Nat \ {0} /\ Power[k] \in Nat
    <3>1. (k - 1) + 1 = k
      BY <2>1
    <3> HIDE DEF k
    <3> QED BY <2>1, <3>1, PowerDef
  <2> HIDE DEF k
  <2>5. Power[Precision] <= q * Power[k]
    <3> DEFINE a == Power[Precision - 1]
               b == Power[k - 1]
    <3>1. a \in Nat /\ b \in Nat \ {0} /\ Base \in Nat \ {0} /\ q \in Nat /\ a <= q
      BY <1>1, <1>5, <1>6, <2>3, <2>4, SourcesAssumption, DecimalsAssumption
    <3> HIDE DEF a, b
    <3>2. a * Base <= q * Base /\ q * Base \in Nat /\ a * Base \in Nat
      BY <3>1, Grows
    <3>3. 1 * (q * Base) <= b * (q * Base)
      BY <3>1, <3>2, Grows
    <3>4. b * (q * Base) = q * (b * Base) /\ q * (b * Base) \in Nat
      BY <3>1
    <3> QED BY <2>3, <2>4, <3>2, <3>3, <3>4 DEF a, b
  <2>6. Power[Precision] * down <= (q * Power[k]) * down
    <3>1. q * Power[k] \in Nat /\ Power[Precision] \in Nat
      BY <1>1, <1>5, <2>4, PowerDef
    <3> QED BY <1>5, <2>5, <3>1, Grows
  <2>7. (q * Power[k]) * down = (q * up) * Power[D]
    <3>1. (q * Power[k]) * down = q * (down * Power[k])
      BY <1>5, <2>4
    <3>2. q * (up * Power[D]) = (q * up) * Power[D]
      BY <1>2, <1>5
    <3> QED BY <2>2, <3>1, <3>2
  <2>8. Power[Precision] <= steps
    <3>1. Power[Precision] \in Nat
      BY <1>1, PowerDef
    <3> QED BY <1>9, <2>6, <2>7, <3>1
  <2>9. Power[Precision] \in Nat
    BY <1>1, PowerDef
  <2>10. ~(steps < Power[Precision])
    BY <1>8, <2>8, <2>9
  <2> QED BY <1>8, <2>10 DEF steps, q, up, down, last, first, num
<1> QED BY <1>10, <1>11

(* The quotes of an answer, by their index.                                *)
LEMMA QuotesAre ==
    ASSUME source \in Names, answer \in Answers(source)
    PROVE  /\ Len(answer.quotes) \in Nat /\ Quotes = 1 .. Len(answer.quotes)
           /\ \A i \in Quotes : answer.quotes[i] \in Quote(source)
<1>1. answer.quotes \in Seq(Quote(source))
  BY AnswersAssumption
<1> HIDE DEF Quote
<1> QED BY <1>1 DEF Quotes

LEMMA LastIs ==
    ASSUME NEW N \in Nat, NEW S \in SUBSET (1 .. N), S # {}
    PROVE  Max(S) \in S
<1> DEFINE T == {n \in Nat : N - n \in S}
<1>1. T # {}
  <2>1. PICK i \in S : TRUE
    OBVIOUS
  <2>2. N - i \in Nat /\ N - (N - i) = i
    OBVIOUS
  <2> QED BY <2>1, <2>2
<1>2. PICK n \in T : \A m \in T : n <= m
  BY <1>1, Least
<1>3. N - n \in S /\ \A i \in S : N - n >= i
  <2>1. ASSUME NEW i \in S PROVE N - n >= i
    <3>1. i \in Nat /\ N - i \in Nat /\ N - (N - i) = i /\ n \in Nat
      BY <1>2
    <3>2. n <= N - i
      BY <1>2, <3>1
    <3> QED BY <3>1, <3>2
  <2> QED BY <1>2, <2>1
<1> HIDE DEF T
<1>4. \E x \in S : \A y \in S : x >= y
  BY <1>3
<1> QED BY <1>4, Zenon DEF Max

LEMMA FirstIs ==
    ASSUME NEW N \in Nat, NEW S \in SUBSET (1 .. N), S # {}
    PROVE  Min(S) \in S
<1>1. S \in SUBSET Nat
  OBVIOUS
<1>2. \E x \in S : \A y \in S : x <= y
  BY <1>1, Least
<1> QED BY <1>2, Zenon DEF Min

(* There is a k-th lowest price among the usable ads.                      *)
LEMMA PricesAre ==
    ASSUME source = "p2p", source \in Names, answer \in Answers(source)
    PROVE  /\ \A i \in Quotes : answer.quotes[i].price \in Int
           /\ UsableAds \in SUBSET (1 .. Len(answer.quotes)) /\ Len(answer.quotes) \in Nat
<1>1. \A i \in Quotes : answer.quotes[i].price \in Int
  BY QuotesAre DEF Quote, AdOfList
<1>2. UsableAds \in SUBSET (1 .. Len(answer.quotes))
  BY QuotesAre DEF UsableAds
<1> QED BY <1>1, <1>2, QuotesAre

LEMMA NthPriceIs ==
    ASSUME source = "p2p", source \in Names, answer \in Answers(source),
           NEW k \in Nat \ {0}, k <= Cardinality(UsableAds)
    PROVE  NthCheapest(k) \in Int /\ IsNthCheapest(k, NthCheapest(k))
<1> DEFINE D == UsableAds
           N == Len(answer.quotes)
           f == [i \in D |-> answer.quotes[i].price]
<1>1. N \in Nat /\ D \in SUBSET (1 .. N) /\ \A i \in D : answer.quotes[i].price \in Int
  BY PricesAre, QuotesAre
<1>2. f \in [D -> Int] /\ \A i \in D : f[i] = answer.quotes[i].price
  BY <1>1
<1>3. k \in 1 .. Cardinality(D)
  <2>1. Cardinality(D) \in Nat
    BY <1>1, IndexSets
  <2> QED BY <2>1
<1> HIDE DEF f
<1>4. PICK i \in D : /\ Cardinality(LowerAt(D, f, f[i])) < k
                     /\ k <= Cardinality(NotOverAt(D, f, f[i]))
  <2> HIDE DEF D, N
  <2> QED BY <1>1, <1>2, <1>3, RankedIn
<1>5. /\ LowerAt(D, f, f[i]) = CheaperThan(answer.quotes[i].price)
      /\ NotOverAt(D, f, f[i]) = UpToPrice(answer.quotes[i].price)
  BY <1>2 DEF CheaperThan, UpToPrice, LowerAt, NotOverAt
<1>6. IsNthCheapest(k, answer.quotes[i].price)
  BY <1>4, <1>5 DEF IsNthCheapest
<1> DEFINE n == CHOOSE j \in D : IsNthCheapest(k, answer.quotes[j].price)
<1>7. n \in D /\ IsNthCheapest(k, answer.quotes[n].price)
  <2> HIDE DEF D
  <2> QED BY <1>6, Zenon
<1> HIDE DEF n
<1>8. NthCheapest(k) = answer.quotes[n].price
  BY DEF NthCheapest, n
<1> QED BY <1>1, <1>7, <1>8

(* Leaving less than half of Top out of the usable ads leaves a price up   *)
(* to the middle one, and none below it with half of Top up to it.         *)
LEMMA MiddleIsOutvoted ==
    ASSUME source = "p2p", source \in Names, answer \in Answers(source),
           NEW price \in Int, IsNthCheapest((Top + 1) \div 2, price),
           NEW k \in 1 .. (Top - 1) \div 2, NEW bad \in kSubset(k, UsableAds)
    PROVE  LET others == UsableAds \ bad
               upTo(i) == {j \in others : answer.quotes[j].price <= answer.quotes[i].price}
           IN  /\ \E i \in others : price >= answer.quotes[i].price
               /\ \A i \in others : Cardinality(upTo(i)) >= (Top + 1) \div 2
                                    => price <= answer.quotes[i].price
<1> DEFINE D == UsableAds
           N == Len(answer.quotes)
           half == (Top - 1) \div 2
           others == D \ bad
           notOver(i) == {j \in others : answer.quotes[j].price <= answer.quotes[i].price}
           below == CheaperThan(price)
           upTo == UpToPrice(price)
<1>1. half \in Nat /\ (Top + 1) \div 2 = half + 1 /\ k \in Nat /\ k <= half
  <2>1. Top \in Nat /\ Top % 2 = 1
    BY SourcesAssumption
  <2> QED BY <2>1
<1>2. N \in Nat /\ D \in SUBSET (1 .. N) /\ \A i \in D : answer.quotes[i].price \in Int
  BY PricesAre, QuotesAre
<1>3. bad \in SUBSET D /\ Cardinality(bad) = k
  BY DEF kSubset
<1>4. /\ below = {i \in D : answer.quotes[i].price < price}
      /\ upTo = {i \in D : answer.quotes[i].price <= price}
  BY DEF CheaperThan, UpToPrice
<1>5. below \in SUBSET (1 .. N) /\ upTo \in SUBSET (1 .. N) /\ bad \in SUBSET (1 .. N)
  BY <1>2, <1>3, <1>4
<1>6. /\ Cardinality(below) \in Nat /\ Cardinality(upTo) \in Nat
      /\ Cardinality(below) <= half /\ half + 1 <= Cardinality(upTo)
  <2>1. Cardinality(below) \in Nat /\ Cardinality(upTo) \in Nat
    BY <1>2, <1>5, IndexSets
  <2>2. Cardinality(below) < half + 1 /\ half + 1 <= Cardinality(upTo)
    BY <1>1 DEF IsNthCheapest
  <2> HIDE DEF half, below, upTo
  <2> QED BY <1>1, <2>1, <2>2
<1> HIDE DEF D, N, half, below, upTo
<1>7. \E i \in others : price >= answer.quotes[i].price
  <2>1. SUFFICES ASSUME \A i \in others : ~(price >= answer.quotes[i].price) PROVE FALSE
    BY Zenon
  <2>2. upTo \subseteq bad
    BY <1>2, <1>4, <2>1
  <2>3. Cardinality(upTo) <= Cardinality(bad)
    BY <1>2, <1>5, <2>2, IndexSets
  <2> QED BY <1>1, <1>3, <1>6, <2>3
<1>8. ASSUME NEW i \in others, Cardinality(notOver(i)) >= half + 1
      PROVE  price <= answer.quotes[i].price
  <2>1. SUFFICES ASSUME answer.quotes[i].price < price PROVE FALSE
    BY <1>2
  <2>2. notOver(i) \subseteq below
    <3>1. \A j \in notOver(i) : answer.quotes[j].price < price /\ j \in D
      BY <1>2, <2>1
    <3> HIDE DEF notOver
    <3> QED BY <1>4, <3>1
  <2>3. notOver(i) \in SUBSET (1 .. N)
    BY <1>2
  <2> HIDE DEF notOver
  <2>4. Cardinality(notOver(i)) <= Cardinality(below) /\ Cardinality(notOver(i)) \in Nat
    BY <1>2, <1>5, <2>2, <2>3, IndexSets
  <2> QED BY <1>1, <1>6, <1>8, <2>4
<1> QED BY <1>1, <1>7, <1>8 DEF D

----------------------------------------------------------------------------
(* parse, step by step.                                                    *)

LEMMA ParseInitIInv == ParseInit => ParseIInv
<1> SUFFICES ASSUME ParseInit PROVE ParseIInv
  OBVIOUS
<1>1. /\ source \in Names /\ answer \in Answers(source) /\ fetchedAt \in Moments
      /\ stage = "loading" /\ result.kind = "nothing" /\ result = Nothing
  BY DEF ParseInit, Nothing
<1>2. ParseTypeOK
  BY <1>1, QuotesAre DEF ParseTypeOK
<1>3. ReadingIsOneQuote /\ InverseIsRoundedDown /\ OutliersAreOutvoted
  BY <1>1 DEF ReadingIsOneQuote, InverseIsRoundedDown, OutliersAreOutvoted
<1> QED BY <1>1, <1>2, <1>3 DEF ParseIInv, ChosenIsOfAnswer

(* What every step leaves alone keeps its type.                            *)
LEMMA StillTyped ==
    ASSUME ParseTypeOK, UNCHANGED <<source, answer, fetchedAt>>
    PROVE  /\ source' \in Names /\ fetchedAt' \in Moments
           /\ \A i \in Quotes' : (answer.quotes[i] \in Quote(source))'
BY DEF ParseTypeOK, Quotes, Quote

(* parse that raises says nothing that the properties are about.           *)
LEMMA ParseRaises ==
    ASSUME ParseIInv, NEW what, End(what),
           \/ what \in {MalformedResponseError, NoQuoteError, Raised("Overflow")}
           \/ \E exception \in LoadErrors : /\ what = Raised(exception)
                                            /\ answer.text = exception
    PROVE  ParseIInv'
<1>1. /\ stage' = "done" /\ result' = what
      /\ UNCHANGED <<source, answer, fetchedAt, chosen>>
  BY DEF End
<1>2. /\ what.kind \in {"malformed", "no quote", "raised"}
      /\ what.kind = "raised" => what.exception \in LoadErrors \union {"Overflow"}
      /\ what.kind = "raised" /\ answer.text = "JSON" => what.exception = "Overflow"
  <2>1. CASE what = MalformedResponseError
    BY <2>1 DEF MalformedResponseError
  <2>2. CASE what = NoQuoteError
    BY <2>2 DEF NoQuoteError
  <2>3. CASE \E exception \in LoadErrors : what = Raised(exception) /\ answer.text = exception
    BY <2>3 DEF Raised, LoadErrors
  <2>4. CASE what = Raised("Overflow")
    BY <2>4 DEF Raised
  <2> QED BY <2>1, <2>2, <2>3, <2>4
<1>3. what # Nothing
  <2>1. Nothing.kind = "nothing"
    BY DEF Nothing
  <2> QED BY <1>2, <2>1
<1>4. ParseTypeOK'
  <2>1. Nothing' = Nothing
    BY DEF Nothing
  <2> QED BY <1>1, <1>2, <1>3, <2>1, StillTyped DEF ParseIInv, ParseTypeOK
<1>5. (ReadingIsOneQuote /\ InverseIsRoundedDown /\ OutliersAreOutvoted)'
  BY <1>1, <1>2 DEF ReadingIsOneQuote, InverseIsRoundedDown, OutliersAreOutvoted
<1> QED BY <1>1, <1>4, <1>5 DEF ParseIInv, ChosenIsOfAnswer

LEMMA ParseReads ==
    ASSUME ParseIInv, NEW price \in Int, NEW asOf \in Nat, End(Reading(price, asOf)),
           ReadingIsOneQuote', InverseIsRoundedDown', OutliersAreOutvoted'
    PROVE  ParseIInv'
<1>1. /\ stage' = "done" /\ result' = Reading(price, asOf)
      /\ UNCHANGED <<source, answer, fetchedAt, chosen>>
  BY DEF End
<1>2. result'.kind = "reading" /\ result'.price = price /\ result'.asOf = asOf
  BY <1>1 DEF Reading
<1>3. result' # Nothing'
  BY <1>2 DEF Nothing
<1>4. ParseTypeOK'
  BY <1>1, <1>2, <1>3, StillTyped DEF ParseIInv, ParseTypeOK
<1> QED BY <1>1, <1>4 DEF ParseIInv, ChosenIsOfAnswer

LEMMA LoadJsonIInv == ParseIInv /\ LoadJson => ParseIInv'
<1> SUFFICES ASSUME ParseIInv, LoadJson PROVE ParseIInv'
  OBVIOUS
<1>1. CASE \/ End(MalformedResponseError)
           \/ answer.text \in LoadErrors /\ End(Raised(answer.text))
  BY <1>1, ParseRaises
<1>2. CASE /\ answer.text = "JSON" /\ stage' = "reading"
           /\ UNCHANGED <<source, answer, fetchedAt, chosen, result>>
  <2>1. result = Nothing /\ stage = "loading"
    BY DEF LoadJson, ParseIInv, ParseTypeOK
  <2>2. result.kind = "nothing"
    BY <2>1 DEF Nothing
  <2>3. ParseTypeOK'
    <3>1. Nothing' = Nothing
      BY DEF Nothing
    <3> QED BY <1>2, <2>1, <2>2, <3>1, StillTyped DEF ParseIInv, ParseTypeOK
  <2>4. (ReadingIsOneQuote /\ InverseIsRoundedDown /\ OutliersAreOutvoted)'
    BY <1>2, <2>2
    DEF ReadingIsOneQuote, InverseIsRoundedDown, OutliersAreOutvoted
  <2> QED BY <1>2, <2>3, <2>4 DEF ParseIInv, ChosenIsOfAnswer
<1> QED BY <1>1, <1>2 DEF LoadJson

(* A price and a time of the same quote.                                   *)
LEMMA OneQuoteReads ==
    ASSUME ParseIInv, NEW i \in Quotes, NEW form,
           source \in {"dolarapi", "bitso", "arq", "criptoya", "criptoya_one"},
           form = KnownForm[source],
           source = "criptoya_one" \/ answer.quotes[i].book = Book,
           answer.quotes[i].time.form = form,
           source = "arq" => \A j, k \in Matching : j = k,
           End(Reading(answer.quotes[i].price, answer.quotes[i].time.at))
    PROVE  ParseIInv'
<1> DEFINE quote == answer.quotes[i]
<1>1. /\ result' = Reading(quote.price, quote.time.at)
      /\ UNCHANGED <<source, answer>>
  BY DEF End
<1>2. quote.price \in Int /\ quote.time \in [form : Forms, at : Nat] /\ quote.time.at \in Nat
  <2>1. quote \in Ticker(Nat) \/ quote \in Ticker(Int)
    BY DEF ParseIInv, ParseTypeOK, Quote
  <2> QED BY <2>1 DEF Ticker
<1>3. result'.kind = "reading" /\ result'.price = quote.price /\ result'.asOf = quote.time.at
  BY <1>1 DEF Reading
<1>4. quote.time = [form |-> form, at |-> quote.time.at]
  BY <1>2
<1>5. ReadingIsOneQuote'
  <2>1. (KnownForm[source])' = form
    BY <1>1 DEF KnownForm
  <2>2. (Quotes = 1 .. Len(answer.quotes))'
    BY DEF Quotes
  <2>3. i \in Quotes' /\ (source = "criptoya_one" \/ answer.quotes[i].book = Book)'
    BY <1>1 DEF Quotes
  <2>4. (/\ answer.quotes[i].price = result.price
         /\ answer.quotes[i].time = [form |-> KnownForm[source], at |-> result.asOf])'
    BY <1>1, <1>3, <1>4, <2>1
  <2>5. (source = "arq" =>
             \A j, k \in {n \in Quotes : source = "criptoya_one" \/ answer.quotes[n].book = Book} :
                 j = k)'
    BY <1>1 DEF Matching, IsOfBook, Quotes
  <2> QED BY <2>3, <2>4, <2>5 DEF ReadingIsOneQuote
<1>6. InverseIsRoundedDown' /\ OutliersAreOutvoted'
  BY <1>1 DEF InverseIsRoundedDown, OutliersAreOutvoted
<1> QED BY <1>2, <1>5, <1>6, ParseReads

LEMMA ParseOneQuoteIInv == ParseIInv /\ (ParseDolarApi \/ ParseBitso) => ParseIInv'
<1> SUFFICES ASSUME ParseIInv, ParseDolarApi \/ ParseBitso PROVE ParseIInv'
  OBVIOUS
<1> DEFINE quote == answer.quotes[1]
<1>1. source \in {"dolarapi", "bitso"} /\ stage = "reading" /\ ParseOneQuote
  BY DEF ParseDolarApi, ParseBitso, ParseOneQuote
<1>2. source \in Names /\ answer \in Answers(source) /\ answer.text = "JSON"
  BY <1>1 DEF ParseIInv, ParseTypeOK
<1>3. 1 \in Quotes
  <2>1. Len(answer.quotes) = 1
    BY <1>1, <1>2, AnswersAssumption DEF OneQuoted
  <2> QED BY <2>1 DEF Quotes
<1>4. CASE /\ quote.time.form = "zoned" /\ IsOfBook(quote)
           /\ End(Reading(quote.price, quote.time.at))
  <2>1. KnownForm[source] = "zoned"
    BY <1>1 DEF KnownForm
  <2>2. quote.book = Book
    BY <1>4 DEF IsOfBook
  <2> QED BY <1>1, <1>3, <1>4, <2>1, <2>2, OneQuoteReads
<1>5. CASE End(MalformedResponseError)
  BY <1>5, ParseRaises
<1> QED BY <1>1, <1>4, <1>5 DEF ParseOneQuote, AwareIso

LEMMA ParseArqIInv == ParseIInv /\ ParseArq => ParseIInv'
<1> SUFFICES ASSUME ParseIInv, ParseArq PROVE ParseIInv'
  OBVIOUS
<1> DEFINE i == CHOOSE n \in Matching : TRUE
           ticker == answer.quotes[i]
<1>1. source = "arq" /\ source \in Names /\ answer \in Answers(source)
  BY DEF ParseArq, ParseIInv, ParseTypeOK
<1>2. CASE /\ Cardinality(Matching) = 1 /\ ticker.time.form = "naive"
           /\ End(Reading(ticker.price, ticker.time.at))
  <2>1. PICK x : Matching = {x}
    <3>1. IsFiniteSet(Matching)
      <4>1. Matching \in SUBSET (1 .. Len(answer.quotes)) /\ Len(answer.quotes) \in Nat
        BY <1>1, QuotesAre DEF Matching
      <4> QED BY <4>1, IndexSets
    <3> QED BY <1>2, <3>1, FS_Singleton
  <2>2. i = x /\ i \in Matching /\ \A j, k \in Matching : j = k
    BY <2>1
  <2> HIDE DEF i
  <2>3. i \in Quotes /\ ticker.book = Book
    BY <2>2 DEF Matching, IsOfBook
  <2>4. KnownForm[source] = "naive"
    BY <1>1 DEF KnownForm
  <2> QED BY <1>1, <1>2, <2>2, <2>3, <2>4, OneQuoteReads
<1>3. CASE End(MalformedResponseError)
  BY <1>3, ParseRaises
<1> QED BY <1>2, <1>3 DEF ParseArq, NaiveUtc

LEMMA ParseCriptoYaIInv == ParseIInv /\ ParseCriptoYa => ParseIInv'
<1> SUFFICES ASSUME ParseIInv, ParseCriptoYa PROVE ParseIInv'
  OBVIOUS
<1> DEFINE i == Max(Matching)
           exchange == answer.quotes[i]
<1>1. source = "criptoya" /\ source \in Names /\ answer \in Answers(source)
  BY DEF ParseCriptoYa, ParseIInv, ParseTypeOK
<1>2. CASE /\ Matching # {} /\ exchange.time.form = "epoch"
           /\ End(Reading(exchange.price, exchange.time.at))
  <2>1. i \in Matching
    <3>1. Matching \in SUBSET (1 .. Len(answer.quotes)) /\ Len(answer.quotes) \in Nat
      BY <1>1, QuotesAre DEF Matching
    <3> QED BY <1>2, <3>1, LastIs
  <2> HIDE DEF i
  <2>2. i \in Quotes /\ exchange.book = Book
    BY <2>1 DEF Matching, IsOfBook
  <2>3. KnownForm[source] = "epoch"
    BY <1>1 DEF KnownForm
  <2> QED BY <1>1, <1>2, <2>2, <2>3, OneQuoteReads
<1>3. CASE End(MalformedResponseError)
  BY <1>3, ParseRaises
<1> QED BY <1>2, <1>3 DEF ParseCriptoYa, EpochSeconds

LEMMA ParseCriptoYaOneIInv == ParseIInv /\ ParseCriptoYaOne => ParseIInv'
<1> SUFFICES ASSUME ParseIInv, ParseCriptoYaOne PROVE ParseIInv'
  OBVIOUS
<1> DEFINE quote == answer.quotes[1]
<1>1. source = "criptoya_one" /\ stage = "reading"
  BY DEF ParseCriptoYaOne
<1>2. source \in Names /\ answer \in Answers(source) /\ answer.text = "JSON"
  BY <1>1 DEF ParseIInv, ParseTypeOK
<1>3. 1 \in Quotes
  <2>1. Len(answer.quotes) = 1
    BY <1>1, <1>2, AnswersAssumption DEF OneQuoted
  <2> QED BY <2>1 DEF Quotes
<1>4. CASE quote.time.form = "epoch" /\ End(Reading(quote.price, quote.time.at))
  <2>1. KnownForm[source] = "epoch"
    BY <1>1 DEF KnownForm
  <2> QED BY <1>1, <1>3, <1>4, <2>1, OneQuoteReads
<1>5. CASE End(MalformedResponseError)
  BY <1>5, ParseRaises
<1> QED BY <1>4, <1>5 DEF ParseCriptoYaOne, EpochSeconds

LEMMA ChooseCardIInv == ParseIInv /\ ChooseCard => ParseIInv'
<1> SUFFICES ASSUME ParseIInv, ChooseCard PROVE ParseIInv'
  OBVIOUS
<1> DEFINE i == Min(Matching)
           card == answer.quotes[i]
<1>1. source = "card" /\ source \in Names /\ answer \in Answers(source) /\ stage = "reading"
  BY DEF ChooseCard, ParseIInv, ParseTypeOK
<1>2. CASE /\ Matching # {} /\ card.digits # 0
           /\ stage' = "inverting" /\ chosen' = <<card.digits, card.decimals>>
           /\ UNCHANGED <<source, answer, fetchedAt, result>>
  <2>1. i \in Matching
    <3>1. Matching \in SUBSET (1 .. Len(answer.quotes)) /\ Len(answer.quotes) \in Nat
      BY <1>1, QuotesAre DEF Matching
    <3> QED BY <1>2, <3>1, FirstIs
  <2> HIDE DEF i
  <2>2. i \in Quotes
    BY <2>1 DEF Matching
  <2>3. card.digits \in Nat /\ card.decimals \in Nat
    <3>1. card \in Method
      BY <1>1, <2>2, QuotesAre DEF Quote
    <3> QED BY <3>1 DEF Method
  <2>4. card.digits <= Power[MaxInverse] /\ card.decimals <= MaxInverse
    <3>1. i \in 1 .. Len(answer.quotes)
      BY <2>2 DEF Quotes
    <3>2. card.digits <= Power[MaxInverse] /\ card.decimals <= MaxInverse
      BY <1>1, <3>1, AnswersAssumption
    <3> QED BY <3>2
  <2>5. ChosenIsOfAnswer'
    <3>1. card.digits \in 1 .. Power[MaxInverse] /\ card.decimals \in 0 .. MaxInverse
      <4>1. MaxInverse \in Nat /\ Power[MaxInverse] \in Nat
        BY PowerDef, SourcesAssumption
      <4> QED BY <1>2, <2>3, <2>4, <4>1
    <3> QED BY <1>1, <1>2, <3>1 DEF ChosenIsOfAnswer
  <2>6. result = Nothing /\ result.kind = "nothing"
    <3>1. result = Nothing
      BY <1>1 DEF ParseIInv, ParseTypeOK
    <3> QED BY <3>1 DEF Nothing
  <2>7. ParseTypeOK'
    <3>1. Nothing' = Nothing
      BY DEF Nothing
    <3> QED BY <1>2, <2>6, <3>1, StillTyped DEF ParseIInv, ParseTypeOK
  <2>8. (ReadingIsOneQuote /\ InverseIsRoundedDown /\ OutliersAreOutvoted)'
    BY <1>2, <2>6
    DEF ReadingIsOneQuote, InverseIsRoundedDown, OutliersAreOutvoted
  <2> QED BY <1>1, <1>2, <2>5, <2>7, <2>8 DEF ParseIInv
<1>3. CASE End(MalformedResponseError) \/ End(NoQuoteError)
  BY <1>3, ParseRaises
<1> QED BY <1>2, <1>3 DEF ChooseCard

LEMMA InvertIInv == ParseIInv /\ Invert => ParseIInv'
<1> SUFFICES ASSUME ParseIInv, Invert PROVE ParseIInv'
  OBVIOUS
<1> DEFINE den == chosen[1]
           dec == chosen[2]
           last == FirstDigit(Power[dec], den) + 1 - Precision
           quotient == InUnits(Power[dec], den, last)
           steps == InUnits(quotient * Shift(last), Shift(-last), -MaxDecimals)
<1>1. stage = "inverting" /\ source = "card" /\ den \in 1 .. Power[MaxInverse] /\ dec \in 0 .. MaxInverse
  BY DEF Invert, ParseIInv, ChosenIsOfAnswer
<1>2. fetchedAt \in Nat
  BY SourcesAssumption DEF ParseIInv, ParseTypeOK
<1>3. /\ steps \in Nat
      /\ steps < Power[Precision] => /\ steps * den <= Power[dec + MaxDecimals]
                                     /\ Power[dec + MaxDecimals] < (steps + 1) * den
  BY <1>1, InverseIs
<1>4. \/ steps < Power[Precision] /\ End(Reading(steps, fetchedAt))
      \/ End(MalformedResponseError)
  BY DEF Invert
<1> HIDE DEF steps
<1>5. CASE steps < Power[Precision] /\ End(Reading(steps, fetchedAt))
  <2>1. /\ result' = Reading(steps, fetchedAt)
        /\ UNCHANGED <<source, answer, fetchedAt, chosen>>
    BY <1>5 DEF End
  <2>2. result'.price = steps
    BY <2>1 DEF Reading
  <2>3. InverseIsRoundedDown'
    BY <1>3, <1>5, <2>1, <2>2 DEF InverseIsRoundedDown
  <2>4. ReadingIsOneQuote' /\ OutliersAreOutvoted'
    BY <1>1, <2>1 DEF ReadingIsOneQuote, OutliersAreOutvoted, KnownForm
  <2> QED BY <1>2, <1>3, <1>5, <2>3, <2>4, ParseReads
<1>6. CASE End(MalformedResponseError)
  BY <1>6, ParseRaises
<1> QED BY <1>4, <1>5, <1>6

LEMMA FilterAdsIInv == ParseIInv /\ FilterAds => ParseIInv'
<1> SUFFICES ASSUME ParseIInv, FilterAds PROVE ParseIInv'
  OBVIOUS
<1>1. source = "p2p" /\ source \in Names /\ answer \in Answers(source) /\ stage = "reading"
  BY DEF FilterAds, ParseIInv, ParseTypeOK
<1>2. CASE /\ ~(Cardinality(UsableAds) < Top)
           /\ stage' = "pricing" /\ chosen' = [k \in 1 .. Top |-> NthCheapest(k)]
           /\ UNCHANGED <<source, answer, fetchedAt, result>>
  <2> DEFINE k == (Top + 1) \div 2
  <2>1. k \in 1 .. Top /\ k \in Nat \ {0}
    <3>1. Top \in Nat /\ Top % 2 = 1
      BY SourcesAssumption
    <3> QED BY <3>1
  <2>2. k <= Cardinality(UsableAds)
    <3>1. Cardinality(UsableAds) \in Nat
      BY <1>1, PricesAre, IndexSets
    <3>2. Top \in Nat
      BY SourcesAssumption
    <3> HIDE DEF k
    <3> QED BY <1>2, <2>1, <3>1, <3>2
  <2>3. NthCheapest(k) \in Int /\ IsNthCheapest(k, NthCheapest(k))
    <3> HIDE DEF k
    <3> QED BY <1>1, <2>1, <2>2, NthPriceIs
  <2>4. Middle' = NthCheapest(k)
    BY <1>2, <2>1 DEF Middle
  <2>5. IsNthCheapest(k, Middle)'
    <3> DEFINE price == NthCheapest(k)
    <3> HIDE DEF price, k
    <3>1. CheaperThan(Middle)' = CheaperThan(price)
      BY <1>2, <2>4
      DEF CheaperThan, UsableAds, Quotes, Usable, Trusted, price
    <3>2. UpToPrice(Middle)' = UpToPrice(price)
      BY <1>2, <2>4
      DEF UpToPrice, UsableAds, Quotes, Usable, Trusted, price
    <3>3. k' = k
      BY DEF k
    <3> QED BY <2>3, <3>1, <3>2, <3>3 DEF IsNthCheapest, price
  <2>6. result = Nothing /\ result.kind = "nothing"
    <3>1. result = Nothing
      BY <1>1 DEF ParseIInv, ParseTypeOK
    <3> QED BY <3>1 DEF Nothing
  <2>7. ParseTypeOK'
    <3>1. Nothing' = Nothing
      BY DEF Nothing
    <3> QED BY <1>2, <2>6, <3>1, StillTyped DEF ParseIInv, ParseTypeOK
  <2>8. (ReadingIsOneQuote /\ InverseIsRoundedDown /\ OutliersAreOutvoted)'
    BY <1>2, <2>6
    DEF ReadingIsOneQuote, InverseIsRoundedDown, OutliersAreOutvoted
  <2> QED BY <1>1, <1>2, <2>3, <2>4, <2>5, <2>7, <2>8 DEF ParseIInv, ChosenIsOfAnswer
<1>3. CASE \/ End(MalformedResponseError) \/ End(NoQuoteError)
           \/ End(Raised("Overflow"))
  BY <1>3, ParseRaises
<1> QED BY <1>2, <1>3 DEF FilterAds

LEMMA TakeMedianIInv == ParseIInv /\ TakeMedian => ParseIInv'
<1> SUFFICES ASSUME ParseIInv, TakeMedian PROVE ParseIInv'
  OBVIOUS
<1> DEFINE price == Middle
<1>1. /\ source = "p2p" /\ source \in Names /\ answer \in Answers(source)
      /\ price \in Int /\ IsNthCheapest((Top + 1) \div 2, price)
  BY DEF TakeMedian, ParseIInv, ParseTypeOK, ChosenIsOfAnswer
<1>2. End(Reading(price, fetchedAt)) /\ fetchedAt \in Nat
  BY SourcesAssumption DEF TakeMedian, ParseIInv, ParseTypeOK
<1> HIDE DEF price
<1>3. /\ result' = Reading(price, fetchedAt)
      /\ UNCHANGED <<source, answer, fetchedAt, chosen>>
  BY <1>2 DEF End
<1>4. result'.price = price
  BY <1>3 DEF Reading
<1>5. ASSUME NEW k \in 1 .. (Top - 1) \div 2, NEW bad \in kSubset(k, UsableAds)
      PROVE  LET others == UsableAds \ bad
                 upTo(i) == {j \in others : answer.quotes[j].price <= answer.quotes[i].price}
             IN  /\ \E i \in others : price >= answer.quotes[i].price
                 /\ \A i \in others : Cardinality(upTo(i)) >= (Top + 1) \div 2
                                      => price <= answer.quotes[i].price
  BY <1>1, MiddleIsOutvoted
<1>6. /\ UsableAds' = UsableAds
      /\ \A k, S : kSubset(k, S)' = kSubset(k, S)
  BY <1>3 DEF UsableAds, Quotes, Usable, Trusted, kSubset
<1>7. OutliersAreOutvoted'
  BY <1>3, <1>4, <1>5, <1>6 DEF OutliersAreOutvoted
<1>8. ReadingIsOneQuote' /\ InverseIsRoundedDown'
  BY <1>1, <1>3 DEF ReadingIsOneQuote, InverseIsRoundedDown, KnownForm
<1> QED BY <1>1, <1>2, <1>7, <1>8, ParseReads

LEMMA ParseStutterIInv == ParseIInv /\ UNCHANGED parseVars => ParseIInv'
<1> SUFFICES ASSUME ParseIInv, UNCHANGED parseVars PROVE ParseIInv'
  OBVIOUS
<1>1. UNCHANGED <<source, answer, fetchedAt, stage, chosen, result>>
  BY DEF parseVars
<1>2. ParseTypeOK'
  <2>1. Nothing' = Nothing
    BY DEF Nothing
  <2> QED BY <1>1, <2>1, StillTyped DEF ParseIInv, ParseTypeOK
<1>3. ReadingIsOneQuote'
  BY <1>1 DEF ParseIInv, ReadingIsOneQuote, KnownForm, Quotes
<1>4. InverseIsRoundedDown'
  BY <1>1 DEF ParseIInv, InverseIsRoundedDown
<1>5. OutliersAreOutvoted' /\ ChosenIsOfAnswer'
  <2>1. /\ UsableAds' = UsableAds
        /\ \A k, S : kSubset(k, S)' = kSubset(k, S)
    BY <1>1 DEF UsableAds, Quotes, Usable, Trusted, kSubset
  <2>2. OutliersAreOutvoted'
    BY <1>1, <2>1 DEF ParseIInv, OutliersAreOutvoted
  <2>3. Middle' = Middle
    BY <1>1 DEF Middle
  <2>4. ChosenIsOfAnswer'
    BY <1>1, <2>1, <2>3
    DEF ParseIInv, ChosenIsOfAnswer, IsNthCheapest, CheaperThan, UpToPrice
  <2> QED BY <2>2, <2>4
<1> QED BY <1>1, <1>2, <1>3, <1>4, <1>5 DEF ParseIInv

(* Whatever is in the answers, a step of parse keeps the properties of     *)
(* what it returns.                                                        *)
THEOREM ParseInvariance == ParseSpec => []ParseIInv
<1>1. ParseInit => ParseIInv
  BY ParseInitIInv
<1>2. ParseIInv /\ [ParseNext]_parseVars => ParseIInv'
  BY LoadJsonIInv, ParseOneQuoteIInv, ParseArqIInv, ParseCriptoYaIInv, ParseCriptoYaOneIInv,
     ChooseCardIInv, InvertIInv, FilterAdsIInv, TakeMedianIInv, ParseStutterIInv DEF ParseNext
<1> QED BY <1>1, <1>2, PTL DEF ParseSpec

(* Whatever an answer says once it is JSON, parse of every source returns  *)
(* a reading, or raises one of the two errors of its contract, or the      *)
(* Overflow of a product.                                                  *)
THEOREM ParseTyping == ParseSpec => []ParseTypeOK
<1>1. ParseIInv => ParseTypeOK
  BY DEF ParseIInv
<1> QED BY <1>1, ParseInvariance, PTL

(* A price and its time are of one quote, the one that was asked for.      *)
THEOREM OneQuote == ParseSpec => []ReadingIsOneQuote
<1>1. ParseIInv => ReadingIsOneQuote
  BY DEF ParseIInv
<1> QED BY <1>1, ParseInvariance, PTL

(* The card's price is the exact inverse, rounded down once, in any base,  *)
(* with any precision and any number of decimals.                          *)
THEOREM RoundedDown == ParseSpec => []InverseIsRoundedDown
<1>1. ParseIInv => InverseIsRoundedDown
  BY DEF ParseIInv
<1> QED BY <1>1, ParseInvariance, PTL

(* Fewer ads than half of Top decide nothing, however many there are.      *)
THEOREM Outvoted == ParseSpec => []OutliersAreOutvoted
<1>1. ParseIInv => OutliersAreOutvoted
  BY DEF ParseIInv
<1> QED BY <1>1, ParseInvariance, PTL

=============================================================================
